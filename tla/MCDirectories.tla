--------------------------- MODULE MCDirectories ---------------------------
(* Directories, with what symlink and the walk along a path do to a link. *)
EXTENDS Directories, TLC

CONSTANTS a, d

SomePaths == {<<a>>, <<d>>, <<d, a>>}
=============================================================================
