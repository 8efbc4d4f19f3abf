---------------------------- MODULE MCWriteAdapter ----------------------------
(* Bounded instances of WriteAdapter.                                        *)
EXTENDS WriteAdapter, TLC

CONSTANTS n1, n2, b1, b2, t1, t2, old, new

MCNotes == {n1, n2}
MCNotebooks == {b1, b2}
MCTags == {t1, t2}
MCValues == {old, new}
MCShelf == {b1}
MCExisting == {n1}
MCOffered ==
  {p \in [meta : {None, new}, book : {None, b1, b2}, tagged : BOOLEAN,
          tags : SUBSET MCTags, body : {None, new}] : ~p.tagged => p.tags = {}}
MCSymmetry == Permutations(MCTags)
=============================================================================
