------------------------------ MODULE MCRemoval ------------------------------
(* Two rows of one principal on one topic, whose group needs two roles, and  *)
(* which plan alone as a group of their own.                                 *)
EXTENDS Removal

CONSTANTS alice, devRead, devWrite, read, write

MCRow == {read, write}
MCGrant == {devRead, devWrite}
MCHolder == {alice}
MCHolderOf == [g \in MCGrant |-> alice]
MCOwner == [r \in MCRow |-> alice]
MCCovers == {<<devRead, read>>, <<devWrite, write>>}

Bind(g, rows) == [grant |-> g, source |-> rows]

\* One binding for each role that the operations of the group call for, and every
\* row of the group is behind each of them.
MCPlanOf ==
  [rows \in SUBSET MCRow |->
     {Bind(g, rows) : g \in {h \in MCGrant : \E r \in rows : <<h, r>> \in MCCovers}}]
=============================================================================
