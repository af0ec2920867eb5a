--------------------------- MODULE MCHammerFlusher ---------------------------
(* HammerFlusher for TLC.  Sequence numbers are only ever compared with    *)
(* each other, modulo SeqSpan: SeqView tells states apart by their         *)
(* distances from flusher.done.  That is a symmetry of the fairness and of *)
(* the liveness properties too, which look at no number.  RelView, for     *)
(* safety alone, names no slave either: those on ready_list are told apart *)
(* by their place there, the others by what they do.                       *)
EXTENDS HammerFlusher, TLC
Symmetry == Permutations(Inode)

Rel(n)  == (n - done) % SeqSpan
Ready   == [k \in DOMAIN ready |-> info[ready[k]]]
Running == {[info |-> info[s], locks |-> lock = s] : s \in run}
Clients == [c \in Client |-> [cl[c] EXCEPT !.seq = Rel(@)]]
SeqView == <<gvars, signal, Rel(act), Rel(next), mst, fin, slv, env, Clients, pend>>
RelView == <<gvars, signal, Rel(act), Rel(next), mst, want, lock = Master, lock = None,
             Ready, Running, Cardinality(run), env, Clients, pend>>
=============================================================================
