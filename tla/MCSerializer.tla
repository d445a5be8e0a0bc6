---------------------------- MODULE MCSerializer -----------------------------
(* Serializer on small instances. *)
EXTENDS Serializer

MCAnchorName == <<"a1", "a2">>
=============================================================================
