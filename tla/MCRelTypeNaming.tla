-------------------------- MODULE MCRelTypeNaming --------------------------
(* The code's prefix "__PROPERTY__" and suffix "__" as character           *)
(* sequences; property names of up to three characters over "_", "P" and *)
(* "a", so that names containing the prefix's characters occur, and type  *)
(* names that are short words or the prefix followed by one.               *)
EXTENDS RelTypeNaming

MCChars == {"_", "P", "R", "O", "E", "T", "Y", "a"}
MCPrefix == <<"_", "_", "P", "R", "O", "P", "E", "R", "T", "Y", "_", "_">>
MCSuffix == <<"_", "_">>
Words == UNION {[1..k -> {"_", "P", "a"}] : k \in 0..3}
MCFieldNames == Words
MCTypeNames == Words \cup {MCPrefix \o w : w \in Words}
=============================================================================
