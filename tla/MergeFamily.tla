---------------------------- MODULE MergeFamily ----------------------------
(***************************************************************************)
(* The maximum family of pull requests (src/svrf/merge_family.py): the     *)
(* conflict components one after the other, each by a decision graph       *)
(* whose scores order families, computed once for all components of the    *)
(* same shape.                                                             *)
(*                                                                         *)
(* A mask is a set of vertices 0..k-1.  A score is the number the code     *)
(* computes: 2^k for each chosen vertex, and a rank bit.                   *)
(***************************************************************************)
EXTENDS Integers, Sequences, FiniteSets, SequencesExt, Families

CONSTANT Numbers      \* the numbers pull requests may have

ASSUME NumbersAssumption == IsFiniteSet(Numbers) /\ Numbers \subseteq Nat

VARIABLES
  nodes, edges,       \* the input of maximum_family; edges may name others
  todo,               \* components not bound to a shape yet
  shapes,             \* the score of each shape met so far
  local,              \* the adjacency of the component at hand
  states, pending,    \* plan: the decision graph, and its stack
  scores,             \* evaluate: the score of each mask
  chosen, pc

vars == <<nodes, edges, todo, shapes, local, states, pending, scores, chosen, pc>>

Least(S) == CHOOSE x \in S : \A y \in S : x <= y
LeastFirst(S, T) == Least(S) < Least(T)
Ascending(S) == SetToSortSeq(S, <)

\* normalize: the nodes alone, and the pairs of two different nodes.
Lanes == nodes
Kept == {e \in edges : e \subseteq nodes /\ Cardinality(e) = 2}

Touching(a, b) == {a, b} \in Kept

\* components: the connected parts of a mask, by their first vertex.
Parts(mask, pairs) ==
  LET Closed(c) == \A x \in c : \A y \in mask : {x, y} \in pairs => y \in c
      Around(x) == CHOOSE c \in SUBSET mask :
        x \in c /\ Closed(c) /\ \A d \in SUBSET mask : x \in d /\ Closed(d) => c \subseteq d
  IN SetToSortSeq({Around(x) : x \in mask}, LeastFirst)

K == Len(local)
Near(u, v) == v \in local[u + 1]
Root == 0..(K - 1)
Adjacent == UNION {{{u, v} : v \in local[u + 1]} : u \in Root}

\* The complete adjacency of a component, absent edges included, by local position.
ShapeBySize(lanes) == [i \in DOMAIN lanes |-> {}]      \* mutant: only the size is compared
Shape(lanes) == [i \in DOMAIN lanes |-> {j - 1 : j \in {j \in DOMAIN lanes : Touching(lanes[i], lanes[j])}}]

Init ==
  /\ nodes \in SUBSET Numbers
  /\ edges \in SUBSET {e \in SUBSET Numbers : Cardinality(e) = 2}
  /\ todo = Parts(Lanes, Kept)
  /\ shapes = <<>> /\ local = <<>> /\ states = <<>> /\ pending = <<>> /\ scores = <<>>
  /\ chosen = {} /\ pc = "bind"

Row(mask, kind, vertex, reads) == [mask |-> mask, kind |-> kind, vertex |-> vertex, reads |-> reads]
Masks == {states[i].mask : i \in DOMAIN states}

\* decode: the vertices whose rank bit is set.
Decode(score, size) == {i \in 0..(size - 1) : (score \div 2^(size - 1 - i)) % 2 = 1}

\* The shape of the next component is known: its lanes are chosen by the score.
Bind ==
  /\ pc = "bind" /\ todo # <<>>
  /\ LET lanes == Ascending(Head(todo))
         shape == Shape(lanes)
     IN IF shape \in DOMAIN shapes
        THEN /\ chosen' = chosen \union {lanes[i + 1] : i \in Decode(shapes[shape], Len(lanes))}
             /\ todo' = Tail(todo)
             /\ UNCHANGED <<local, states, pending, scores, pc>>
        ELSE /\ local' = shape
             /\ states' = <<Row({}, "zero", 0, <<>>)>>
             /\ pending' = <<[mask |-> 0..(Len(shape) - 1), ready |-> FALSE]>>
             /\ scores' = <<>> /\ pc' = "plan"
             /\ UNCHANGED <<chosen, todo>>
  /\ UNCHANGED <<nodes, edges, shapes>>

---------------------------------------------------------------------------
(* plan: the decision graph, children before parents.                      *)

DegreeIn(v, mask) == Cardinality({u \in mask : Near(v, u)})

\* The vertex with the most neighbours left, the first of several.
Pivot(mask) ==
  CHOOSE v \in mask : \A u \in mask \ {v} :
    DegreeIn(u, mask) < DegreeIn(v, mask) \/ (DegreeIn(u, mask) = DegreeIn(v, mask) /\ v < u)

Without(mask, v) == {u \in mask : u # v /\ ~Near(v, u)}

Decision(mask) ==
  LET pieces == Parts(mask, Adjacent)
      v == Pivot(mask)
  IN IF Len(pieces) > 1 THEN Row(mask, "sum", 0, pieces)
     ELSE Row(mask, "branch", v, <<mask \ {v}, Without(mask, v)>>)

\* A mask is written down when its children are, and asked for on top of them.
ChildrenFirst(ready) == ready

Plan ==
  /\ pc = "plan"
  /\ IF pending = <<>> THEN pc' = "evaluate" /\ UNCHANGED <<states, pending>>
     ELSE LET top == Last(pending)
              row == Decision(top.mask)
              Unknown(child) == child \notin Masks
              children == SelectSeq(Reverse(row.reads), Unknown)
              asked == <<[mask |-> top.mask, ready |-> TRUE]>>
                       \o [i \in DOMAIN children |-> [mask |-> children[i], ready |-> FALSE]]
          IN /\ IF top.mask \in Masks THEN pending' = Front(pending) /\ UNCHANGED states
                ELSE IF ChildrenFirst(top.ready)
                THEN pending' = Front(pending) /\ states' = Append(states, row)
                ELSE pending' = Front(pending) \o asked /\ UNCHANGED states
             /\ UNCHANGED pc
  /\ UNCHANGED <<nodes, edges, todo, shapes, local, scores, chosen>>

---------------------------------------------------------------------------
(* evaluate: the best score of every mask, in the order of plan.           *)

WeightOfRank(v) == 2^K + 2^v                  \* mutant: the rank bits ascend
Weight(v) == 2^K + 2^(K - 1 - v)

Value(row) ==
  CASE row.kind = "zero" -> 0
    [] row.kind = "sum" -> FoldSeq(LAMBDA child, sum : scores[child] + sum, 0, row.reads)
    [] row.kind = "branch" ->
         LET omitted == scores[row.reads[1]]
             taken == Weight(row.vertex) + scores[row.reads[2]]
         IN IF omitted >= taken THEN omitted ELSE taken

Evaluate ==
  /\ pc = "evaluate"
  /\ LET at == Cardinality(DOMAIN scores) + 1
     IN IF at <= Len(states)
        THEN /\ \A i \in DOMAIN states[at].reads : states[at].reads[i] \in DOMAIN scores
             /\ scores' = [m \in DOMAIN scores \union {states[at].mask} |->
                             IF m = states[at].mask THEN Value(states[at]) ELSE scores[m]]
             /\ UNCHANGED <<shapes, pc>>
        ELSE /\ shapes' = [s \in DOMAIN shapes \union {local} |->
                             IF s = local THEN scores[Root] ELSE shapes[s]]
             /\ pc' = "bind" /\ UNCHANGED scores
  /\ UNCHANGED <<nodes, edges, todo, local, states, pending, chosen>>

Done == pc = "bind" /\ todo = <<>> /\ UNCHANGED vars

Next == Bind \/ Plan \/ Evaluate \/ Done

Spec == Init /\ [][Next]_vars

---------------------------------------------------------------------------
(* Properties.                                                             *)

\* The types of the search.
TypeOK ==
  /\ nodes \subseteq Numbers /\ chosen \subseteq nodes
  /\ pc \in {"bind", "plan", "evaluate"}
  /\ \A i \in DOMAIN todo : todo[i] \subseteq nodes
  /\ \A m \in Masks : m \subseteq Root
  /\ \A i \in DOMAIN pending : pending[i].mask \subseteq Root /\ pending[i].ready \in BOOLEAN
  /\ DOMAIN scores \subseteq Masks /\ \A m \in DOMAIN scores : scores[m] \in Nat

\* The number of a mask is the code of its best independent set: cardinality never
\* loses to rank bits, and no sum of components carries into another field (evaluate).
ScoresExact ==
  \A m \in DOMAIN scores :
    LET best == Decode(scores[m], K)
    IN /\ IsMaximumFamily(best, m, Adjacent)
       /\ scores[m] \div 2^K = Cardinality(best)

\* The result is the maximum family of the whole graph with the tie rule of the
\* enumeration, also where components share a shape (maximum_family, compose).
MaximumChosen ==
  pc = "bind" /\ todo = <<>> => IsMaximumFamily(chosen, nodes, Kept)
=============================================================================
