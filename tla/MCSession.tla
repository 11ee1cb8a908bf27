------------------------------ MODULE MCSession ------------------------------
EXTENDS Session
CONSTANTS n1, n2
MCOrder == <<n1, n2>>
MCSources == {n1}
MCRelationOf == [n \in {n1, n2} |-> n]
==============================================================================
