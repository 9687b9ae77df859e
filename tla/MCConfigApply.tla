--------------------------- MODULE MCConfigApply ---------------------------
(* Finite instances of ConfigApply: the values its constants take.         *)
EXTENDS ConfigApply

\* The filters a request may ask for: everything, or all but config.apply.
SomeEvents  == {Kinds, {"other"}}
=============================================================================
