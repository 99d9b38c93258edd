------------------------------ MODULE MCInode -------------------------------
(* Paths and symmetry for model checking Inode. *)
EXTENDS Inode, TLC

\* Two names in the root directory.
FlatPaths == {<<"/", "a">>, <<"/", "b">>}

\* A name in the root directory, and one in a subdirectory of the current one.
DirPaths == {<<"/", "a">>, <<"a", "a">>}

Symmetry == Permutations(Procs)
=============================================================================
