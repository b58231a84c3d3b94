--------------------------- MODULE MCReviewCards ----------------------------
(* Two files, two contents besides the base, two requests at a time. *)
EXTENDS ReviewCards, TLC

CONSTANTS f1, f2, v1, v2, v3, p1, p2

MCFiles == {f1, f2}
MCVersions == {v1, v2, v3}
MCRequests == {p1, p2}

Symmetry == Permutations(MCRequests) \union Permutations(MCVersions \ {v1})
              \union Permutations(MCFiles)
=============================================================================
