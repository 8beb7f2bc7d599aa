----------------------------- MODULE DeviceTree -----------------------------
(***************************************************************************)
(* DeviceTree (device/devicetree.hpp, main_board/devicetree.cpp): which    *)
(* device hangs below which, and a callback per device for the case that   *)
(* its parent is removed.                                                  *)
(*                                                                         *)
(* nodes_ is a vector, and the callbacks are run by the destructor of its  *)
(* elements; which ones run is decided by what std::erase_if moves where.  *)
(***************************************************************************)
EXTENDS Integers, Sequences, SequencesExt, FiniteSets

CONSTANT Ids   \* device ids

VARIABLES
    nodes,   \* nodes_, each node with the flag whether it has a callback
    called,  \* history: devices whose callback has been run
    owed     \* history: devices with a callback whose parent was removed

vars == <<nodes, called, owed>>

Node == [parent : Ids, id : Ids, func : BOOLEAN]

Has(d) == \E i \in DOMAIN nodes : nodes[i].id = d

TypeOK ==
    /\ nodes \in Seq(Node)
    /\ called \subseteq owed
    /\ owed \subseteq Ids

Init == nodes = <<>> /\ called = {} /\ owed = {}

(* Mutant: only a node with the same parent counts as a duplicate. *)
add_child_OtherParent(p, d, func) ==
    /\ nodes' = IF \E i \in DOMAIN nodes : nodes[i].id = d /\ nodes[i].parent = p THEN nodes
                ELSE Append(nodes, [parent |-> p, id |-> d, func |-> func])
    /\ UNCHANGED <<called, owed>>

(* A device that is in the tree stays where it is, and the new callback is  *)
(* dropped; the result tells whether it is below that parent.               *)
add_child(p, d, func) ==
    IF Has(d) THEN UNCHANGED vars
    ELSE /\ nodes' = Append(nodes, [parent |-> p, id |-> d, func |-> func])
         /\ called' = called \ {d}
         /\ owed' = owed \ {d}

(* Mutant: the callback is not disarmed before the node is destroyed, which *)
(* happens to the last element of the vector.                               *)
remove_child_Armed(p, d) ==
    \E i \in DOMAIN nodes :
        /\ nodes[i].parent = p /\ nodes[i].id = d
        /\ nodes' = RemoveAt(nodes, i)
        /\ called' = IF i = Len(nodes) /\ nodes[i].func THEN called \cup {d} ELSE called
        /\ owed' = owed \cup called'

(* The callback of the node is disarmed, then the node is erased. *)
remove_child(p, d) ==
    \E i \in DOMAIN nodes :
        /\ nodes[i].parent = p /\ nodes[i].id = d
        /\ nodes' = RemoveAt(nodes, i)
        /\ UNCHANGED <<called, owed>>

(* Mutant: the nodes are copied where they should be moved, so that a node  *)
(* that stays is destroyed at its old place with its callback.              *)
remove_Copies(p) ==
    LET kept == SelectSeq(nodes, LAMBDA n : n.parent # p) IN
    /\ nodes' = kept
    /\ called' = called \cup {nodes[i].id : i \in {j \in DOMAIN nodes : nodes[j].func /\ j > Len(kept)}}
    /\ owed' = owed \cup {nodes[i].id : i \in {j \in DOMAIN nodes : nodes[j].parent = p /\ nodes[j].func}}

(* Mutant: the nodes are disarmed before they are erased, as in             *)
(* remove_child.                                                            *)
remove_Disarmed(p) ==
    /\ nodes' = SelectSeq(nodes, LAMBDA n : n.parent # p)
    /\ owed' = owed \cup {nodes[i].id : i \in {j \in DOMAIN nodes : nodes[j].parent = p /\ nodes[j].func}}
    /\ UNCHANGED called

(* erase_if moves the nodes that stay to the front in their order, by move  *)
(* assignment over what is there, and destroys the rest of the vector.  A   *)
(* removed node that was assigned over has lost its callback without a      *)
(* call; the callbacks that run are those of removed nodes beyond the new   *)
(* end.                                                                     *)
remove(p) ==
    LET staying == {i \in DOMAIN nodes : nodes[i].parent # p}
        removed == {i \in DOMAIN nodes : nodes[i].parent = p /\ nodes[i].func}
    IN
    \E from \in [1..Cardinality(staying) -> staying] :
        /\ \A i, j \in DOMAIN from : i < j => from[i] < from[j]
        /\ nodes' = [i \in DOMAIN from |-> nodes[from[i]]]
        /\ called' = called \cup {nodes[i].id : i \in {j \in removed : j > Len(nodes')}}
        /\ owed' = owed \cup {nodes[i].id : i \in removed}

(* The queries. *)
parent(d) == {nodes[i].parent : i \in {j \in DOMAIN nodes :
                  nodes[j].id = d /\ \A k \in 1..(j - 1) : nodes[k].id # d}}

all_children(p) == {nodes[i].id : i \in {j \in DOMAIN nodes : nodes[j].parent = p}}

Next ==
    \E p \in Ids :
        \/ \E d \in Ids : (\E func \in BOOLEAN : add_child(p, d, func)) \/ remove_child(p, d)
        \/ remove(p)

Spec == Init /\ [][Next]_vars

-----------------------------------------------------------------------------
(* Properties.                                                              *)

(* The two queries agree: parent(d) is the one device that has d among its  *)
(* children, so a device is never below two parents.                        *)
QueriesAgree == \A p, d \in Ids : d \in all_children(p) <=> parent(d) = {p}

(* A callback that runs tells the truth: the parent of its device has just  *)
(* been removed, and all its children with it.  remove_child on a single    *)
(* device runs no callback, wherever the node is in the vector.             *)
CallbackMeansParentRemoved ==
    [][\A d \in called' \ called :
         \E p \in parent(d) :
             /\ all_children(p)' = {}
             /\ Cardinality(all_children(p)) = Len(nodes) - Len(nodes')]_vars

(* Whether a removed child is told that its parent has gone depends on who  *)
(* is behind it in the vector, which is the order of all additions: its     *)
(* callback is lost only under a node that stays and moves to the front.    *)
LostOnlyUnderKept ==
    [][\A d \in (owed' \ owed) \ called' :
         \E i, j \in DOMAIN nodes : i < j /\ nodes[i].id = d /\ Contains(nodes', nodes[j])]_vars

=============================================================================
