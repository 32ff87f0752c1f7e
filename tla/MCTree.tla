------------------------------- MODULE MCTree -------------------------------
(* Module Tree with two directories that may hold a file each, for TLC. *)
EXTENDS Tree, TLC

CONSTANTS d, e, f
MCPaths == {<<>>, <<d>>, <<e>>, <<d, f>>, <<e, f>>}
MCExposed == {<<d>>, <<e>>}
\* bound: a surprise, or a directory renamed above a cached file, not both
NotBoth == stranded => Undisturbed
Symmetry == Permutations({d, e}) \cup Permutations(Opens)
=============================================================================
