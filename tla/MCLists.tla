------------------------------ MODULE MCLists ------------------------------
(***************************************************************************)
(* Events and the Directory on small instances.  The two lists share       *)
(* neither tables nor requests, so each is checked by itself: list says    *)
(* which one runs.                                                         *)
(***************************************************************************)
EXTENDS Events, Directory, TLC

VARIABLE list

ListsInit ==
  /\ list \in {"events", "directory"}
  /\ Init
  /\ DirectoryInit
  /\ list = "events" => browse.sort = "id" /\ ~browse.positioned

ListsNext ==
  \/ list = "events" /\ Next /\ UNCHANGED <<list, directoryVars>>
  \/ list = "directory" /\ DirectoryNext /\ UNCHANGED <<list, vars>>

ListsSpec == ListsInit /\ [][ListsNext]_<<list, vars, directoryVars>>

Symmetry == Permutations(Users) \cup Permutations(Requests)
=============================================================================
