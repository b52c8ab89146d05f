---------------------------- MODULE MCFingerprint ----------------------------
(* Instance of Fingerprint for TLC. *)
EXTENDS Fingerprint

(* codes at the edges of the known and of the vendor range *)
MCMessages ==
  [type : {"error"}, code : {1, 7, 8, 999, 1000, 1001}]
    \cup [type : {"acquired"}, code : {0, 6, 1000}]
    \cup [type : {"enrolling"}, remaining : {0, 1}]
    \cup [type : {"authenticated"}, fid : {0, 1}]
    \cup [type : {"removed", "enumerating"}]

(* success, an error with a name, one without *)
MCDeviceErrors == {0, -5, -38}
=============================================================================
