----------------------------- MODULE MCUvServer -----------------------------
(* Small instances of UvServer for TLC. *)
EXTENDS UvServer
=============================================================================
