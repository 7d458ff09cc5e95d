----------------------------- MODULE MCFilesystem -----------------------------
(* Two sessions on a machine with one directory and one file outside the     *)
(* server root; paths that stay in the root, leave it, leave it and come     *)
(* back, and absolute ones; uploads of different lengths.                    *)
EXTENDS Filesystem

MCServerRoot == <<"srv">>
MCOutsideDirs == {<<>>, <<"etc">>}
MCOutsideFiles == {<<"etc", "a">>}
MCArguments ==
  {Argument(FALSE, <<"a">>), Argument(FALSE, <<"a", "b">>), Argument(FALSE, <<"..">>),
   Argument(FALSE, <<"..", "srv", "b">>), Argument(TRUE, <<"etc", "a">>)}
MCUploads == {<<1, 1>>, <<2>>}

Symmetry == Permutations(Sessions) \cup Permutations(Users)
=============================================================================
