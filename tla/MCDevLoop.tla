----------------------------- MODULE MCDevLoop -----------------------------
(* A project with one page in the app directory and, to be created while   *)
(* the dev server runs, a subdirectory with a page of its own.             *)
EXTENDS DevLoop

CONSTANTS app, sub, index, about

MCFiles == {index, about}
MCDirs == {app, sub}
MCParent == [p \in {sub, index, about} |-> IF p = about THEN sub ELSE app]
MCInitial == {app, index}
=============================================================================
