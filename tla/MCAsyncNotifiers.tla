--------------------------- MODULE MCAsyncNotifiers ---------------------------
(***************************************************************************)
(* Small instances of AsyncNotifiers: one Results of one Realm with a      *)
(* callback, while other threads commit too; and the same with a second    *)
(* Realm instance of the file, which has a Results of its own.             *)
(***************************************************************************)
EXTENDS AsyncNotifiers

CONSTANTS r1, n1, c1

MCRealmOf == [n \in Notifiers |-> IF n = n1 THEN r1 ELSE CHOOSE r \in Realms : r # r1]

MCNotifierOf == [c \in Callbacks |-> n1]

\* With two Realms, the behaviours in which nobody turns autorefresh off.
AutorefreshStaysOn == \A r \in Realms : auto[r]
=============================================================================
