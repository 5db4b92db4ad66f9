------------------------- MODULE MCChainstateFlush ---------------------------
(* Two branches above c: a then a2, and b.  The transaction that spends o1 and
   creates o3 is in both a and b; a2 creates and spends o5.  Block d, above b,
   spends o1 again and is never connected.                                  *)
EXTENDS ChainstateFlush

MCBlock == {"g", "c", "a", "a2", "b", "d"}
MCParent == [x \in MCBlock \ {"g"} |->
               CASE x = "c" -> "g" [] x = "a" -> "c" [] x = "a2" -> "a" [] x = "b" -> "c"
                 [] x = "d" -> "b"]
MCHeight == [x \in MCBlock |->
               CASE x = "g" -> 0 [] x = "c" -> 1 [] x \in {"a", "b"} -> 2 [] x \in {"a2", "d"} -> 3]
MCOutpoint == {"o1", "o2", "o3", "o4", "o5"}
MCCreates == [x \in MCBlock |->
               CASE x = "c" -> {"o1", "o2"} [] x = "a" -> {"o3"} [] x = "b" -> {"o3"}
                 [] x = "a2" -> {"o4", "o5"} [] OTHER -> {}]
MCSpends == [x \in MCBlock |->
               CASE x \in {"a", "d"} -> {"o1"} [] x = "b" -> {"o1", "o2"}
                 [] x = "a2" -> {"o3", "o5"} [] OTHER -> {}]
MCAsset == {"A", "B"}
MCIssues == [x \in MCBlock |->
               CASE x = "a" -> {"A"} [] x = "b" -> {"B"} [] OTHER -> {}]
==============================================================================
