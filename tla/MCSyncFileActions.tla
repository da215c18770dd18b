--------------------------- MODULE MCSyncFileActions ---------------------------
(***************************************************************************)
(* A small instance of SyncFileActions: one user with two Realms.          *)
(***************************************************************************)
EXTENDS SyncFileActions

MCOwner == [r \in Realms |-> "u1"]
=============================================================================
