--------------------------- MODULE MCHammerBtree ---------------------------
(* Small trees and programs for HammerBtree.                               *)
EXTENDS HammerBtree

MCNode == 1 .. 9
K(k, t) == [k |-> k, t |-> t]
Rec(k, t, d) == [base |-> K(k, t), dtid |-> d]
Ref(k, t, n, m) == [base |-> K(k, t), sub |-> n, mtid |-> m]
Leaf(par, es) == [type |-> "L", parent |-> par, mtid |-> 3, elms |-> es]
Inner(par, es)  == [type |-> "I", parent |-> par, mtid |-> 3, elms |-> es]
Unused == [type |-> "free", parent |-> NULL, mtid |-> 0, elms |-> <<>>]
Image0(nodes) == [root |-> 1, node |-> [n \in Node |-> IF n <= Len(nodes) THEN nodes[n]
                                                       ELSE Unused]]
Edge == [base |-> RootEnd, sub |-> NULL, mtid |-> 0]

(* A full leaf alone, with two versions of one record.                     *)
Small == Image0(<< Leaf(NULL, <<Rec(1, 2, 0), Rec(3, 2, 3), Rec(3, 3, 0), Rec(5, 2, 3)>>) >>)

(* A leaf with room, and history between two live records.                 *)
Narrow == Image0(<< Leaf(NULL, <<Rec(1, 2, 0), Rec(3, 2, 3), Rec(5, 2, 0)>>) >>)

(* Three levels; the left subtree is one chain with one deleted record.    *)
Deep == Image0(<<
  Inner(NULL, <<Ref(0, 1, 2, 3), Ref(3, 2, 3, 3), Edge>>),
  Inner(1, <<Ref(0, 1, 4, 3), Ref(3, 2, NULL, 0)>>),
  Inner(1, <<Ref(3, 2, 5, 3), Ref(5, 2, 6, 3), Edge>>),
  Leaf(2, <<Rec(1, 2, 3)>>),
  Leaf(3, <<Rec(3, 2, 0)>>),
  Leaf(3, <<Rec(5, 2, 3), Rec(5, 3, 0), Rec(6, 2, 0), Rec(7, 2, 0)>>) >>)

(* A full root, and a full leaf at its right.                              *)
Wide == Image0(<<
  Inner(NULL, <<Ref(0, 1, 2, 3), Ref(3, 2, 3, 3), Ref(5, 2, 4, 3), Edge>>),
  Leaf(1, <<Rec(1, 2, 0)>>),
  Leaf(1, <<Rec(3, 2, 3)>>),
  Leaf(1, <<Rec(5, 2, 3), Rec(5, 3, 0), Rec(6, 2, 0), Rec(7, 2, 0)>>) >>)

Ins(k)      == [op |-> "insert", key |-> K(k, 4)]
AdjAt(k, t, d) == [op |-> "delete", key |-> K(k, t), adj |-> TRUE, des |-> FALSE, tid |-> d]
Adj(k, t)   == AdjAt(k, t, 4)
Des(k, t)   == [op |-> "delete", key |-> K(k, t), adj |-> FALSE, des |-> TRUE, tid |-> 4]
Look(k, a)  == [op |-> "lookup", key |-> K(k, 0), asof |-> a]
Scan(k, a)  == [op |-> "scan", key |-> K(k, 0), asof |-> a]
Prune       == [op |-> "prune", key |-> K(0, 1), all |-> TRUE, elms |-> <<>>]
PruneSome   == [op |-> "prune", key |-> K(0, 1), all |-> FALSE,
                elms |-> <<[beg |-> 2, end |-> 5, mod |-> 2]>>]
Reblock(ns) == [op |-> "reblock", key |-> K(0, 1), sparse |-> ns]
Mirror(t)   == [op |-> "mirror", key |-> K(0, 1), tid |-> t]
Rollback(t) == [op |-> "rollback", key |-> K(0, 1), tid |-> t]

Run(img, a, b, c) ==
  [root |-> img.root, node |-> img.node,
   jobs |-> [p \in Proc |-> CASE p = "a" -> a [] p = "b" -> b [] p = "c" -> c]]

MCScenarios ==
  { Run(Small, << {Ins(4)}, {Look(3, 3)} >>, << {Des(3, 2)} >>, << {Scan(1, 5)} >>),
    Run(Narrow, << {Ins(2), Des(1, 2)} >>, << {Prune} >>, << {Reblock({1})} >>),
    Run(Deep, << {Ins(2), Ins(8), Adj(6, 2)} >>, << {Prune} >>, <<>>),
    Run(Deep, << {Scan(1, 5), Look(5, 2)} >>, << {Prune} >>, << {Look(5, 5)} >>),
    Run(Deep, << {Ins(4), Des(3, 2)}, {Look(7, 5)} >>, << {Reblock({1, 2, 5, 6})} >>, <<>>),
    Run(Deep, <<>>, << {Reblock({2, 3, 6})} >>, << {Prune} >>),
    Run(Wide, << {Ins(8)} >>, << {Scan(2, 5)} >>, << {Des(3, 2)} >>),
    Run(Wide, << {Ins(4), AdjAt(6, 2, 5)} >>, << {PruneSome} >>, <<>>),
    Run(Wide, << {Ins(4), Adj(6, 2)} >>, << {Rollback(4), Mirror(4)} >>, <<>>) }
=============================================================================
