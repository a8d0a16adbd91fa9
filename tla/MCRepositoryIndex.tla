------------------------- MODULE MCRepositoryIndex -------------------------
(* Instances of RepositoryIndex for TLC. *)
EXTENDS RepositoryIndex
============================================================================
