-------------------------- MODULE GeneratedParser --------------------------
(***************************************************************************)
(* The parsers that c_generator.c prints (kscope.c is one): the machine of *)
(* PackratParser with the syntax trees themselves.  PackratParser knows a  *)
(* node by its extent; here nodes are allocated, given to the action that  *)
(* dispatch[] holds for their type, copied into and out of the memo map    *)
(* and destroyed, and a failing parsing function drops its child_stack     *)
(* without destroying anything.                                            *)
(*                                                                         *)
(* A tree is the sequence of its nodes, each after those below it; `child' *)
(* says how many places before a node its children stand, so that trees    *)
(* are put together by appending.  The trees of all running functions are  *)
(* one such sequence, the ones of the caller first: what a function that   *)
(* succeeds has built stays where it is, and is the caller's then.         *)
(*                                                                         *)
(* Every step is a step of PackratParser and what it does to the trees.    *)
(***************************************************************************)
EXTENDS PackratParser

VARIABLES
  phase,      \* of X_parse: "start", "parsing" or "returned"
  nodes,      \* the trees under the running functions, then `root' of X_parse
  forest,     \* the child_stack of each activation record, see Height
  kept,       \* parse_tree of each memo record
  live,       \* the addresses allocated and not freed
  allocated,  \* how many addresses have been allocated
  fired,      \* the calls of actions, in order
  outputs     \* the out parameters that have been assigned

treeVars == <<phase, nodes, forest, kept, live, allocated, fired, outputs>>
gvars    == <<vars, treeVars>>

NoTree == <<>>

(* syntax_node_create.  `acted' stands for node->data: it is what the      *)
(* action stored there, null until it has run.                             *)
syntax_node_create(type, begin, end, child, at) ==
  [type |-> type, begin |-> begin, end |-> end, child |-> child, acted |-> FALSE, at |-> at]

syntax_node_copy_Shallow(t, n) ==
  IF t = NoTree THEN NoTree
  ELSE LET node == t[Len(t)]
       IN  <<syntax_node_create(node.type, node.begin, node.end, <<>>, n + 1)>>

(* syntax_node_copy: a deep copy, of everything but data, to the addresses *)
(* behind n.                                                               *)
syntax_node_copy(t, n) ==
  [i \in 1..Len(t) |->
     syntax_node_create(t[i].type, t[i].begin, t[i].end, t[i].child, n + i)]

Addresses(t) == {t[i].at : i \in 1..Len(t)}

(* syntax_node_destroy, of all the trees in a sequence. *)
syntax_node_destroy(t) == live' = live \ Addresses(t)

MemoTree(type, start) ==
  kept[type][CHOOSE i \in 1..Len(memo[type]) :
               /\ memo[type][i].start = start
               /\ \A j \in 1..(i - 1) : memo[type][j].start # start]

-----------------------------------------------------------------------------
InParser == phase = "parsing"

(* A child_stack: its trees begin behind `base' and end at `roots'. *)
ChildStack(base)  == [base |-> base, roots |-> <<>>]
Height(f, n)      == IF n = 0 THEN f.base ELSE f.roots[n]
own               == forest[Len(forest)]
PushTree(f, last) == [f EXCEPT !.roots = Append(@, last)]

(* delete_children in a macro: the trees beyond the height are destroyed.  *)
CutOwn ==
  LET height == Len(stack'[Len(stack')].children)
      left   == Height(own, height)
  IN  /\ forest' = [forest EXCEPT ![Len(forest)].roots = SubSeq(@, 1, height)]
      /\ nodes' = SubSeq(nodes, 1, left)
      /\ syntax_node_destroy(SubSeq(nodes, left + 1, Len(nodes)))

RunMacro ==
  /\ InParser /\ Macro
  /\ CutOwn
  /\ UNCHANGED <<phase, kept, allocated, fired, outputs>>

RunMatch ==
  /\ InParser /\ Match
  /\ UNCHANGED treeVars

(* Memory for the next n nodes. *)
Allocate(n) ==
  /\ allocated' = allocated + n
  /\ live' = live \cup (allocated + 1)..(allocated + n)

(* T, when PEG_PARSE returns at once: is_memoized has copied the tree. *)
Recall ==
  /\ InParser /\ CallMemoized
  /\ LET found == syntax_node_copy(MemoTree(exp.func, top.curStart), allocated)
     IN  /\ nodes' = nodes \o found
         /\ forest' = IF found = NoTree THEN forest
                      ELSE [forest EXCEPT ![Len(forest)] =
                              PushTree(@, Len(nodes) + Len(found))]
         /\ Allocate(Len(found))
  /\ UNCHANGED <<phase, kept, fired, outputs>>

Call ==
  /\ InParser /\ CallFunction
  /\ forest' = Append(forest, ChildStack(Len(nodes)))
  /\ UNCHANGED <<phase, nodes, kept, live, allocated, fired, outputs>>

GiveUp ==
  /\ InParser /\ Exhaust
  /\ UNCHANGED treeVars

(* PEG_PARSE after its expression: node, action, memo record, caller. *)
Built ==
  LET above == Len(nodes) + 1
      child == [i \in 1..Len(own.roots) |-> above - own.roots[i]]
  IN  [syntax_node_create(top.rule, top.start, top.curEnd, child, allocated + 1)
         EXCEPT !.acted = TRUE]

BuiltTree == Append(SubSeq(nodes, own.base + 1, Len(nodes)), Built)

ToCaller ==
  LET n == Len(forest) - 1
  IN  forest' = IF n = 0 THEN <<>>
                ELSE [SubSeq(forest, 1, n) EXCEPT ![n] = PushTree(@, Len(nodes) + 1)]

Build_SharesNode ==
  /\ InParser /\ Succeed
  /\ nodes' = Append(nodes, Built)
  /\ kept' = [kept EXCEPT ![top.rule] = Append(@, BuiltTree)]
  /\ Allocate(1)
  /\ fired' = Append(fired, <<top.rule, top.start>>)
  /\ ToCaller
  /\ UNCHANGED <<phase, outputs>>

Build ==
  /\ InParser /\ Succeed
  /\ nodes' = Append(nodes, Built)
  /\ fired' = Append(fired, <<top.rule, top.start>>)
  /\ LET copy == syntax_node_copy(BuiltTree, allocated + 1)
     IN  /\ kept' = [kept EXCEPT ![top.rule] = Append(@, copy)]
         /\ Allocate(1 + Len(copy))
  /\ ToCaller
  /\ UNCHANGED <<phase, outputs>>

(* The hand-written PEG_PARSE deletes the children here; this one does not *)
(* and forgets the array.                                                  *)
Drop ==
  /\ InParser /\ Fail
  /\ nodes' = SubSeq(nodes, 1, own.base)
  /\ kept' = [kept EXCEPT ![top.rule] = Append(@, NoTree)]
  /\ forest' = SubSeq(forest, 1, Len(forest) - 1)
  /\ UNCHANGED <<phase, live, allocated, fired, outputs>>

-----------------------------------------------------------------------------
(* X_parse around the first call. *)
OpenFile ==
  /\ phase = "start"
  /\ phase' = "parsing"
  /\ outputs' = {"input_buf", "error_list"}
  /\ UNCHANGED <<vars, nodes, forest, kept, live, allocated, fired>>

NoFile ==
  /\ phase = "start"
  /\ phase' = "returned"
  /\ UNCHANGED <<vars, nodes, forest, kept, live, allocated, fired, outputs>>

(* memo_map_destroy. *)
AddressesKept == UNION {UNION {Addresses(kept[r][i]) : i \in 1..Len(kept[r])} : r \in Rule}

ReturnTree_KeepsMemo ==
  /\ InParser /\ status = "done"
  /\ phase' = "returned"
  /\ kept' = [type \in Rule |-> <<>>]
  /\ outputs' = outputs \cup {"parse_tree"}
  /\ UNCHANGED <<vars, nodes, forest, live, allocated, fired>>

ReturnTree ==
  /\ InParser /\ status = "done"
  /\ phase' = "returned"
  /\ live' = live \ AddressesKept
  /\ kept' = [type \in Rule |-> <<>>]
  /\ outputs' = outputs \cup {"parse_tree"}
  /\ UNCHANGED <<vars, nodes, forest, allocated, fired>>

GInit ==
  /\ Init
  /\ phase = "start"
  /\ nodes = <<>>
  /\ forest = <<ChildStack(0)>>
  /\ kept = [type \in Rule |-> <<>>]
  /\ live = {}
  /\ allocated = 0
  /\ fired = <<>>
  /\ outputs = {}

GNext ==
  \/ OpenFile \/ NoFile \/ ReturnTree
  \/ RunMacro \/ RunMatch \/ Recall \/ Call \/ GiveUp \/ Build \/ Drop

GSpec == GInit /\ [][GNext]_gvars

-----------------------------------------------------------------------------
(* Properties *)

(* Every node that was allocated and not freed is in exactly one place:    *)
(* under a running function, under a memo record or in the tree that is    *)
(* returned.  Nothing is freed that is still in use, or twice, and nothing *)
(* is lost, although PEG_PARSE destroys no children when it fails; once    *)
(* X_parse has returned, destroying the tree leaves no node behind.        *)
Once(t) == \A i, j \in 1..Len(t) : t[i].at = t[j].at => i = j

Apart(s, t) == Addresses(s) \cap Addresses(t) = {}

NodesAccounted ==
  /\ live = Addresses(nodes) \cup AddressesKept
  /\ Once(nodes)
  /\ \A r \in Rule : \A i \in 1..Len(kept[r]) :
       /\ Once(kept[r][i]) /\ Apart(kept[r][i], nodes)
       /\ \A q \in Rule : \A j \in 1..Len(kept[q]) :
            r # q \/ i # j => Apart(kept[r][i], kept[q][j])

(* A tree is what the memo records of its nodes say, at every depth: trees *)
(* built, copied into the map and copied out again never differ, so a node *)
(* may be known by its type and extent, as PackratParser does.             *)
Extent(node) == Node(node.type, node.begin, node.end)

AsRecorded(t, i) ==
  /\ is_memoized(t[i].type, t[i].begin)
  /\ LET rec == MemoRecord(t[i].type, t[i].begin)
     IN  /\ rec.ok /\ rec.end = t[i].end
         /\ Len(rec.children) = Len(t[i].child)
         /\ \A c \in 1..Len(t[i].child) :
              /\ 0 < t[i].child[c] /\ t[i].child[c] < i
              /\ rec.children[c] = Extent(t[i - t[i].child[c]])

TreesAsRecorded ==
  /\ \A i \in 1..Len(nodes) : AsRecorded(nodes, i)
  /\ \A r \in Rule : \A n \in 1..Len(kept[r]) :
       \A i \in 1..Len(kept[r][n]) : AsRecorded(kept[r][n], i)

(* The actions see a tree from the leaves up and each node of it once: the *)
(* action of a node has run for every node below it before, also for those *)
(* that came out of the memo map, and it does not run again when the node  *)
(* is recalled in another alternative.                                     *)
FiredAt(node) == {i \in 1..Len(fired) : fired[i] = <<node.type, node.begin>>}

BottomUp(t, n) ==
  \E i \in 1..Len(fired) :
    /\ FiredAt(t[n]) = {i}
    /\ \A c \in 1..Len(t[n].child) :
         LET under == FiredAt(t[n - t[n].child[c]])
         IN  under # {} /\ \A j \in under : j < i

ActionsBottomUp == \A n \in 1..Len(nodes) : BottomUp(nodes, n)

(* X_parse answers through its parameters only when it could open the      *)
(* file, and never with half of a tree: the caller may use the tree if and *)
(* only if the start rule matched.                                         *)
AnswerComplete ==
  phase = "returned" =>
    \/ outputs = {} /\ nodes = NoTree /\ live = {}
    \/ /\ outputs = {"input_buf", "error_list", "parse_tree"}
       /\ live = Addresses(nodes)
       /\ IF root = NoNode THEN nodes = NoTree
          ELSE /\ nodes # NoTree
               /\ Extent(nodes[Len(nodes)]) = Node(grammar.start, 0, root.end)
               /\ nodes[Len(nodes)].acted
=============================================================================
