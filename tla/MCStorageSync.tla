--------------------------- MODULE MCStorageSync ----------------------------
(* StorageSync.tla for TLC.                                                *)
EXTENDS StorageSync
=============================================================================
