-------------------------- MODULE MCNodeIdentities --------------------------
(***************************************************************************)
(* Two nodes. Node 1 (stable id 1, numeric id 11) is deleted and its       *)
(* address 21 is given to node 2 (ids 2 and 12), or it returns under       *)
(* another address. Flow logs and rows name both by either id.             *)
(***************************************************************************)
EXTENDS ViewerScopes

MCStable == {1, 2}
MCNumeric == {11, 12}
MCAddresses == {21, 22}
MCPseudo == {41}

Device(id, legacy, owner, ips) == [id |-> id, legacy |-> legacy, owner |-> owner, ips |-> ips]
MCLists == {<<Device(1, 11, 0, {21})>>, <<Device(2, 12, 32, {21})>>, <<Device(11, 0, 0, {21})>>}

Node(nodeId, id, owner, ips) == [nodeId |-> nodeId, id |-> id, owner |-> owner, ips |-> ips]
MCContent == 1 :> <<Node(12, 0, 32, {22})>>
          @@ 2 :> <<Node(11, 0, 31, {21, 22}), Node(12, 0, 32, {21})>>
          @@ 3 :> <<Node(2, 12, 32, {21}), Node(1, 11, 31, {21})>>
MCObjects == {1, 2, 3}
MCArrives == 1 :> 0 @@ 2 :> 0 @@ 3 :> 2

\* Traffic of a window under both addresses, of which one passes from node to node, with
\* an id of node 2 and a pseudo endpoint; before it, traffic between numeric ids of both
\* nodes. The scope has the owner of node 1.
Row(src, dst, tx, rx) == [src |-> src, dst |-> dst, tx |-> tx, rx |-> rx, flows |-> 1]
MCBefore == {Row(11, 12, 4, 8)}
MCWindow == {Row(22, 12, 1, 2), Row(41, 21, 64, 128)}
MCViews == {[rows |-> MCWindow, window |-> MCWindow, prior |-> MCBefore]}
MCScopes == {Tools!ScopeOf({31})}

\* A log whose objects keep coming, all of them written by node 2, while node 1 is
\* listed and silent.
MCBusyLists == {<<Device(1, 11, 31, {21}), Device(2, 12, 32, {22})>>}
MCBusyObjects == 1 .. 6
MCBusyContent == [k \in MCBusyObjects |-> <<Node(2, 12, 32, {22})>>]
MCBusyArrives == [k \in MCBusyObjects |-> k + 1]
=============================================================================
