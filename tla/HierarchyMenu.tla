----------------------------- MODULE HierarchyMenu -----------------------------
(***************************************************************************)
(* Call and type hierarchies: the two half trees that share a root         *)
(* (hierarchy_tree.py), their refinement by requests to ycmd               *)
(* (YouCompleteMe.UpdateCurrentHierarchy), and the menu that shows them as *)
(* lines and finds a node again by the handle of its line                  *)
(* (autoload/youcompleteme/hierarchy.vim).  The requests block Vim, so each*)
(* key is one step; what ycmd answers is external.                         *)
(***************************************************************************)
EXTENDS Integers, SequencesExt, FiniteSetsExt

CONSTANTS
  Symbols,       \* items of the hierarchy
  LocationsOf,   \* number of locations of each
  MaxHandlesPerIndex,  \* MAX_HANDLES_PER_INDEX, 1000000 in the source
  Unresolved,    \* Python's None, as _references
  MaxNodes,      \* bound: nodes of a half tree
  MaxAnswer      \* bound: items in an answer

ASSUME HandlesAssumption == MaxHandlesPerIndex \in Nat \ {0}
ASSUME SymbolsAssumption == LocationsOf \in [Symbols -> 0..MaxHandlesPerIndex]
ASSUME NodesAssumption == MaxNodes \in Nat \ {0} /\ MaxAnswer \in Nat
ASSUME UnresolvedAssumption == Unresolved \notin Seq(Nat)

VARIABLES
  menu,      \* the popup is open
  nodes,     \* _down_nodes and _up_nodes
  lines,     \* s:lines_and_handles
  select,    \* s:select
  emptied    \* the tree was reset and could not be rooted anew

hierarchy == <<menu, nodes, lines, select, emptied>>

-----------------------------------------------------------------------------
Directions == {"down", "up"}

(* HierarchyNode.  Lists are numbered from 1 here; indices of Python, and  *)
(* with them handles, from 0.                                              *)
Node(symbol, distance, locations) ==
  [symbol |-> symbol, distance |-> distance, locations |-> locations,
   references |-> Unresolved]


MakeHandle(index, location) == index * MaxHandlesPerIndex + location
HandleToIndex(handle) == (IF handle < 0 THEN -handle ELSE handle) \div MaxHandlesPerIndex

NodeOf(handle) ==
  nodes[IF handle >= 0 THEN "down" ELSE "up"][HandleToIndex(handle) + 1]

-----------------------------------------------------------------------------
(* _HierarchyToLinesHelper: a node's locations, then what it refers to.    *)
Sign(direction) == IF direction = "down" THEN 1 ELSE -1

LinesOf(tree, direction) ==
  LET half == tree[direction]
      Own(i) == [l \in 1..half[i].locations |->
                   [symbol |-> half[i].symbol, indent |-> 2 * half[i].distance,
                    handle |-> Sign(direction) * MakeHandle(i - 1, l - 1)]]
      below[i \in DOMAIN half] ==
        Own(i) \o (IF half[i].references = Unresolved THEN <<>>
                   ELSE FlattenSeq([j \in DOMAIN half[i].references |->
                                      below[half[i].references[j]]]))
  IN below[1]

HierarchyToLines(tree) == Reverse(LinesOf(tree, "up")) \o Tail(LinesOf(tree, "down"))

(* SetRootNode: the root has one line. *)
RootTree(symbol) == [d \in Directions |-> <<Node(symbol, 0, 1)>>]

(* UpdateHierarchy; a request that failed is an answer without items.      *)
UpdateHierarchy(tree, index, items, direction) ==
  LET half == tree[direction]
      new == [i \in DOMAIN items |->
                Node(items[i], half[index].distance + 1, LocationsOf[items[i]])]
  IN [tree EXCEPT ![direction] =
        [half EXCEPT ![index].references = [i \in DOMAIN items |-> Len(half) + i]] \o new]

(* Mutant: an item counts once, however many locations it has. *)
OffsetOfItems(items, direction) == IF direction = "up" THEN Len(items) ELSE 0

Offset(items, direction) ==
  IF direction = "up"
  THEN FoldLeft(LAMBDA count, item : count + LocationsOf[item], 0, items) ELSE 0

Answers == UNION {[1..n -> Symbols] : n \in 0..MaxAnswer}

Fits(tree, direction, items) == Len(tree[direction]) + Len(items) <= MaxNodes

-----------------------------------------------------------------------------
(* youcompleteme#hierarchy#StartRequest *)
StartRequest(symbol) ==
  /\ ~menu /\ menu' = TRUE
  /\ nodes' = RootTree(symbol)
  /\ lines' = HierarchyToLines(nodes') /\ select' = 1
  /\ emptied' = FALSE

(* Mutant: the selection may leave the lines. *)
MoveUnclamped ==
  /\ menu /\ select' \in {select - 1, select + 1}
  /\ UNCHANGED <<menu, nodes, lines, emptied>>

(* <Up>, <Down> and their like in s:MenuFilter. *)
MoveSelection ==
  /\ menu
  /\ select' \in {select - 1, select + 1} \intersect 1..Len(lines)
  /\ UNCHANGED <<menu, nodes, lines, emptied>>

SelectedHandle == lines[select].handle

(* HierarchyTree.UpdateChangesRoot *)
UpdateChangesRoot(handle, direction) ==
  (handle < 0 /\ direction = "down") \/ (handle > 0 /\ direction = "up")

(* ShouldResolveItem, which also holds when the root will change.  Unless  *)
(* it will, the node is in the half of that direction: the root is in both.*)
ShouldResolveItem(handle, direction) ==
  nodes[direction][HandleToIndex(handle) + 1].references = Unresolved

(* <Tab> and <S-Tab> on a line of the same half: s:ResolveItem,            *)
(* UpdateCurrentHierarchy, and the selection stays on its line.            *)
Expand(direction) ==
  /\ menu /\ ~emptied
  /\ LET handle == SelectedHandle
         index == HandleToIndex(handle) + 1
     IN /\ ~UpdateChangesRoot(handle, direction)
        /\ ShouldResolveItem(handle, direction)
        /\ \E items \in Answers :
             /\ Fits(nodes, direction, items)
             /\ nodes' = UpdateHierarchy(nodes, index, items, direction)
             /\ lines' = HierarchyToLines(nodes')
             /\ select' = select + Offset(items, direction)
  /\ UNCHANGED <<menu, emptied>>

(* The first line without indent, s:ResolveItem. *)
RootLine(ls) == Min({i \in DOMAIN ls : ls[i].indent = 0})

(* The same keys on a line of the other half: the tree is rooted anew at   *)
(* the item, and the new root is expanded.                                 *)
ChangeRoot(direction) ==
  /\ menu /\ ~emptied
  /\ UpdateChangesRoot(SelectedHandle, direction)
  /\ LET tree == RootTree(NodeOf(SelectedHandle).symbol) IN
     \E items \in Answers :
       /\ Fits(tree, direction, items)
       /\ nodes' = UpdateHierarchy(tree, 1, items, direction)
       /\ lines' = HierarchyToLines(nodes')
       /\ select' = RootLine(lines')
  /\ UNCHANGED <<menu, emptied>>

(* ycmd has no item for the new root: the tree was reset, taking its first *)
(* line raises, and the menu shows the lines it had.                       *)
FailToChangeRoot(direction) ==
  /\ menu /\ ~emptied
  /\ UpdateChangesRoot(SelectedHandle, direction)
  /\ nodes' = [d \in Directions |-> <<>>] /\ emptied' = TRUE
  /\ UNCHANGED <<menu, lines, select>>

(* <CR>, or any other key: s:MenuCallback resets the tree.  <CR> raises if *)
(* it is empty.                                                            *)
CloseMenu ==
  /\ menu /\ menu' = FALSE
  /\ nodes' = [d \in Directions |-> <<>>]
  /\ select' = 1 \/ (emptied /\ UNCHANGED select)
  /\ UNCHANGED <<lines, emptied>>

-----------------------------------------------------------------------------
InitHierarchy ==
  /\ menu = FALSE /\ nodes = [d \in Directions |-> <<>>]
  /\ lines = <<>> /\ select = 1 /\ emptied = FALSE

NextHierarchy ==
  \/ \E symbol \in Symbols : StartRequest(symbol)
  \/ MoveSelection
  \/ \E direction \in Directions :
       Expand(direction) \/ ChangeRoot(direction) \/ FailToChangeRoot(direction)
  \/ CloseMenu

HierarchyTypeOK ==
  /\ menu \in BOOLEAN /\ emptied \in BOOLEAN
  /\ \A d \in Directions, i \in 1..MaxNodes : i \in DOMAIN nodes[d] =>
       /\ nodes[d][i].symbol \in Symbols
       /\ nodes[d][i].references # Unresolved =>
            Range(nodes[d][i].references) \subseteq (i + 1)..Len(nodes[d])
  /\ menu => select \in DOMAIN lines

(* hierarchy.vim, youcompleteme.py: whatever is expanded in whichever      *)
(* direction, and when the tree is rooted anew, the selection stays on the *)
(* item it was on, although lines are added above and below; and it finds  *)
(* that item's node by its handle.                                         *)
SelectionFollows ==
  [][menu /\ menu' /\ ~emptied' =>
       /\ lines' # lines => lines'[select'].symbol = lines[select].symbol
       /\ (NodeOf(SelectedHandle).symbol = lines[select].symbol)']_hierarchy
=============================================================================
