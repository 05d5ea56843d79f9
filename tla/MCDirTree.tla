----------------------------- MODULE MCDirTree -----------------------------
(* Values for model checking DirTree. *)
EXTENDS DirTree

MCEntries == 1 .. 4
MCKinds == {"dirs", "files", "other"}

\* One directory, one and part of it, the same one twice, a file or directory,
\* and more than are taken.
MCArguments == {<<1>>, <<1, 1>>, <<1, 2>>, <<3, 1, 2>>}

=============================================================================
