-------------------------- MODULE MCSchemaInstall ---------------------------
(* Small instances of SchemaInstall: a rolling deployment of two versions.   *)
EXTENDS SchemaInstall, TLC

CONSTANTS s1, s2, s3, old, new

Rolling == s1 :> old @@ s2 :> new @@ s3 :> new
=============================================================================
