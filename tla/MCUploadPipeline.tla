-------------------------- MODULE MCUploadPipeline --------------------------
(***************************************************************************)
(* TLC instances of the upload pipeline: two or three uploads, some of     *)
(* them to one table.                                                      *)
(***************************************************************************)
EXTENDS UploadPipeline, TLC

CONSTANTS u1, u2, u3, t1, t2, t3

OneTable == [u \in Uploads |-> t1]
SharedTable == (u1 :> t1) @@ (u2 :> t1) @@ (u3 :> t2)
=============================================================================
