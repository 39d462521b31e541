-------------------------- MODULE MCTypeClassifier --------------------------
(* Annotations over str, int, datetime and a user class, nested twice.    *)
EXTENDS TypeClassifier

MCClasses == {"str", "int", "datetime", "Address"}
MCMaxNesting == 2
=============================================================================
