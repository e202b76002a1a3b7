----------------------------- MODULE MCModelRouter -----------------------------
(* The instance of ModelRouter that TLC checks. *)
EXTENDS ModelRouter

MCModels == <<"a", "b", "c">>
MCCatalogs == {{"a", "c"}, {"b"}}
=============================================================================
