------------------------------- MODULE KVRows -------------------------------
(***************************************************************************)
(* What a KV store promises its callers: every request has, for each       *)
(* layer, an array of its own that only its own calls touch.  A token adds *)
(* one row to every layer (of unknown content until it is written), a      *)
(* write changes one row, and a free empties the arrays of one request.    *)
(***************************************************************************)
EXTENDS Integers, Sequences

CONSTANTS Requests, Layers, Vals, Zero

VARIABLE rows  \* rows[r][layer] is a sequence of stored rows

LayerIds == 0 .. Layers - 1
Content == Vals \cup {Zero}

Init == rows = [r \in Requests |-> [layer \in LayerIds |-> <<>>]]

AddRow(r) ==
    \E fresh \in [LayerIds -> Content] :
        rows' = [rows EXCEPT ![r] =
                   [layer \in LayerIds |-> Append(rows[r][layer], fresh[layer])]]

WriteRow(r) ==
    \E layer \in LayerIds, v \in Vals : \E i \in DOMAIN rows[r][layer] :
        rows' = [rows EXCEPT ![r][layer][i] = v]

Clear(r) == rows' = [rows EXCEPT ![r] = [layer \in LayerIds |-> <<>>]]

Next == \E r \in Requests : AddRow(r) \/ WriteRow(r) \/ Clear(r)

Spec == Init /\ [][Next]_rows
=============================================================================
