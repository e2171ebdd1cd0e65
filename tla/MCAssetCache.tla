---------------------------- MODULE MCAssetCache ----------------------------
(* A small instance of AssetCache: every role's service, two users, two ids. *)
EXTENDS AssetCache
AllKinds == {"dispatcher", "admin", "carrier", "driver"}
=============================================================================
