------------------------ MODULE MCProjectionPipeline ------------------------
(* Instances of ProjectionPipeline for TLC: a post may refer to a photo. *)
EXTENDS ProjectionPipeline

CONSTANTS Post, Photo

MCAssetsOf == [r \in Record |-> IF r = Post THEN {Photo} \cap Record ELSE {}]
=============================================================================
