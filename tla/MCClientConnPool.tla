------------------------- MODULE MCClientConnPool ---------------------------
EXTENDS ClientConnPool, TLC

CONSTANTS p1, p2, p3

MCProcs2 == {p1, p2}
MCProcs3 == {p1, p2, p3}

(* Goroutines are interchangeable: CallIds and connections carry the name. *)
MCSymmetry == Permutations(MCProcs2)

=============================================================================
