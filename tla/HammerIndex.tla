---------------------------- MODULE HammerIndex ----------------------------
(***************************************************************************)
(* What HAMMER's B-Tree is to the rest of the file system: a set of        *)
(* records with distinct keys, which changes only as someone has asked for *)
(* it.  A record is put in, its delete_tid is changed, or it is taken out; *)
(* nothing else ever changes the set.                                      *)
(***************************************************************************)
EXTENDS Naturals

VARIABLES recs,     \* set of [base, dtid]
          asked     \* the calls in progress

(* hammer_btree_insert *)
Insert ==
  \E j \in asked : \E e \in recs' \ recs :
    /\ j.op = "insert" /\ e.base = j.key /\ e.dtid = 0
    /\ \A f \in recs : f.base # e.base
    /\ recs' = recs \union {e}

(* HAMMER_DELETE_DESTROY: the record that was named, one that is history,  *)
(* or one from after the time to return to.                                *)
MayDestroy(j, e) ==
  CASE j.op = "delete"   -> j.des /\ e.base = j.key
    [] j.op = "prune"    -> e.dtid # 0
    [] j.op = "rollback" -> e.base.t >= j.tid
    [] OTHER             -> FALSE
Destroy == \E j \in asked : \E e \in recs : MayDestroy(j, e) /\ recs' = recs \ {e}

(* HAMMER_DELETE_ADJUST: deletes a record, or undeletes it.                *)
MayAdjust(j, e, dtid) ==
  CASE j.op = "delete"   -> j.adj /\ e.base = j.key /\ dtid = j.tid
    [] j.op = "rollback" -> e.base.t < j.tid /\ e.dtid >= j.tid /\ dtid = 0
    [] OTHER             -> FALSE
Adjust ==
  \E j \in asked : \E e \in recs : \E f \in recs' :
    /\ f.base = e.base /\ MayAdjust(j, e, f.dtid)
    /\ recs' = (recs \ {e}) \union {f}

Init == \A e, f \in recs : e.base = f.base => e = f
Next == Insert \/ Destroy \/ Adjust
Spec == Init /\ [][Next]_recs
=============================================================================
