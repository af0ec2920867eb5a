--------------------------- MODULE MCHammerBlockmap ---------------------------
(* HammerBlockmap for TLC.  Cycle numbers are only compared with each      *)
(* other, modulo SeqSpan: RelView tells states apart by their distances    *)
(* from flusher.act.                                                       *)
EXTENDS HammerBlockmap, TLC
Symmetry == Permutations(Rec) \union Permutations(Zone) \union Permutations(Block)

Rel(n)  == (n - act) % SeqSpan
RelView == <<meta, delay, rec, alloc, Rel(next), cyc, fifo,
             [b \in Block |-> IF res[b].delayed
                                THEN [res[b] EXCEPT !.flush_group = Rel(@)]
                                ELSE [res[b] EXCEPT !.flush_group = 0]]>>
=============================================================================
