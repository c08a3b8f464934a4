---------------------------- MODULE MCApiSearch -----------------------------
(***************************************************************************)
(* Two symbols and the words "", "get", "state" and "states".  A symbol    *)
(* has a name and a documentation, of up to two words each, or any words   *)
(* in any other field.                                                     *)
(***************************************************************************)
EXTENDS ApiSearch, Naturals

MCWord == {"", "get", "state", "states"}
MCStem == [w \in MCWord |-> IF w = "states" THEN "state" ELSE w]
MCBegins == [w \in MCWord |-> CASE w = "" -> MCWord
                                [] w = "state" -> {"state", "states"}
                                [] OTHER -> {w}]

MCShort == {ws \in SUBSET MCWord : Cardinality(ws) <= 2}
MCTexts ==
    {[f \in Field |-> CASE f = "qualname" -> name [] f = "doc" -> doc [] OTHER -> {}] :
        name \in MCShort, doc \in MCShort}
    \cup {[f \in Field |-> IF f = g THEN ws ELSE {}] :
            g \in Field \ {"qualname", "doc"}, ws \in SUBSET MCWord}
=============================================================================
