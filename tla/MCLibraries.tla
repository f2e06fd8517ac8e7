----------------------------- MODULE MCLibraries -----------------------------
(***************************************************************************)
(* Libraries for TLC: three ids of which each may be registered with no    *)
(* dependency, with one of the wrong type, with any one and with two.      *)
(***************************************************************************)
EXTENDS Libraries

Dep(i, t) == [id |-> i, type |-> t]
MCDeclarations ==
  [type : {"T"},
   deps : {<<>>, <<Dep("c", "U")>>} \cup {<<Dep(i, "T")>> : i \in Ids}
          \cup {<<Dep("b", "T"), Dep(j, "T")>> : j \in {"a", "c"}}]
=============================================================================
