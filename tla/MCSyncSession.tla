---------------------------- MODULE MCSyncSession ----------------------------
(***************************************************************************)
(* A small instance of SyncSession: the default configuration of a synced  *)
(* Realm, and two with the other stop policies and manual client resets.   *)
(***************************************************************************)
EXTENDS SyncSession

CONSTANT u1

MCErrors == Kinds

MCConfigs ==
  {[stopPolicy |-> "AfterChangesUploaded", clientResyncMode |-> "Recover",
    cancelWaits |-> TRUE],
   [stopPolicy |-> "Immediately", clientResyncMode |-> "Manual", cancelWaits |-> FALSE],
   [stopPolicy |-> "LiveIndefinitely", clientResyncMode |-> "Manual",
    cancelWaits |-> FALSE]}
=============================================================================
