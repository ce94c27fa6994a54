----------------------- MODULE GeneratedParserProofs -----------------------
(***************************************************************************)
(* GeneratedParser is PackratParser with trees: every behaviour of it is   *)
(* one of PackratParser.  Then who owns the nodes, and what is in them,    *)
(* proved for every grammar, every text and every bound; and what the      *)
(* parser generated from kscope.peg answers, for every text.               *)
(***************************************************************************)
EXTENDS GeneratedParser, KscopeParser, PackratGrammarProofs

TreeNode == [type : Rule, begin : Nat, end : Nat, child : Seq(Nat), acted : BOOLEAN, at : Nat]
Tree     == Seq(TreeNode)
Shelf    == [base : Nat, roots : Seq(Nat)]

-----------------------------------------------------------------------------
(* Every step is one of PackratParser's or changes none of its variables.  *)
LEMMA ParserStep == [GNext]_gvars => [Next]_vars
  <1>1. ASSUME OpenFile \/ NoFile \/ ReturnTree \/ UNCHANGED gvars PROVE UNCHANGED vars
    BY <1>1 DEF OpenFile, NoFile, ReturnTree, gvars
  <1>2. ASSUME RunMacro \/ RunMatch \/ Recall \/ Call \/ GiveUp \/ Build \/ Drop PROVE Next
    BY <1>2 DEF RunMacro, RunMatch, Recall, Call, GiveUp, Build, Drop, Next, Step, Function
  <1> QED
    BY <1>1, <1>2 DEF GNext

(* The generated parser is the packrat parser, so all that is proved of    *)
(* that one holds here.                                                    *)
THEOREM GeneratedIsParser == GSpec => Spec
  <1>1. GInit => Init
    BY DEF GInit
  <1> QED
    BY <1>1, ParserStep, PTL DEF GSpec, Spec

-----------------------------------------------------------------------------
(* The shelves.  Those of the running functions lie one behind the other   *)
(* in `no', the nodes; the last tree of a shelf ends where the next shelf  *)
(* begins, and the trees of a shelf are the children of its function.      *)
Highest(f) == Height(f, Len(f.roots))

Rising(f) ==
  /\ \A i \in 1..Len(f.roots) : f.base < f.roots[i]
  /\ \A i \in 1..Len(f.roots) : \A j \in 1..(i - 1) : f.roots[j] < f.roots[i]

Holds(no, f, children) ==
  /\ Len(f.roots) = Len(children)
  /\ \A i \in 1..Len(f.roots) : Extent(no[f.roots[i]]) = children[i]

Standing(fo, st, no) ==
  /\ Len(fo) = Len(st)
  /\ \A k \in 1..Len(fo) : Rising(fo[k]) /\ Holds(no, fo[k], st[k].children)
  /\ \A k \in 1..Len(fo) : \A j \in 1..(k - 1) : Highest(fo[j]) <= fo[k].base
  /\ \A k \in 1..Len(fo) : k > 1 => fo[k].base = Highest(fo[k - 1])
  /\ fo # <<>> => fo[1].base = 0 /\ Len(no) = Highest(fo[Len(fo)])

LEMMA Heights ==
  ASSUME NEW f \in Shelf, Rising(f)
  PROVE  /\ \A n \in 0..Len(f.roots) : /\ Height(f, n) \in Nat
                                       /\ f.base <= Height(f, n) /\ Height(f, n) <= Highest(f)
         /\ Highest(f) \in Nat /\ f.base <= Highest(f)
         /\ \A n \in 0..Len(f.roots) : \A i \in 1..n :
              /\ f.roots[i] \in Nat /\ 0 < f.roots[i] /\ f.roots[i] <= Height(f, n)
  <1> DEFINE r == f.roots
             l == Len(f.roots)
  <1>1. r \in Seq(Nat) /\ f.base \in Nat /\ l \in Nat
    BY DEF Shelf
  <1>2. \A i \in 1..l : r[i] \in Nat /\ f.base < r[i] /\ 0 < r[i]
    BY <1>1 DEF Rising
  <1>3. ASSUME NEW n \in 0..l, NEW i \in 1..n PROVE r[i] <= Height(f, n)
    <2>1. n # 0 /\ Height(f, n) = r[n] /\ n \in 1..l /\ i \in 1..l
      BY <1>1 DEF Height
    <2>2. i = n \/ i \in 1..(n - 1)
      BY <1>1
    <2>3. i # n => r[i] < r[n]
      BY <2>1, <2>2 DEF Rising
    <2> QED
      BY <1>2, <2>1, <2>3
  <1>4. ASSUME NEW n \in 0..l PROVE Height(f, n) \in Nat /\ f.base <= Height(f, n)
    <2>1. CASE n = 0
      BY <1>1, <2>1 DEF Height
    <2>2. CASE n # 0
      BY <1>1, <1>2, <2>2 DEF Height
    <2> QED
      BY <2>1, <2>2
  <1>5. l \in 0..l
    BY <1>1
  <1>6. Highest(f) \in Nat /\ f.base <= Highest(f)
    BY <1>4, <1>5 DEF Highest
  <1>7. ASSUME NEW n \in 0..l PROVE Height(f, n) <= Highest(f)
    <2>1. CASE n = 0
      BY <1>6, <2>1 DEF Height
    <2>2. CASE n # 0
      BY <1>1, <1>3, <1>5, <2>2 DEF Height, Highest
    <2> QED
      BY <2>1, <2>2
  <1> QED
    BY <1>1, <1>2, <1>3, <1>4, <1>6, <1>7

(* The trees of the callers lie before those of the running function.      *)
LEMMA CallersBelow ==
  ASSUME NEW fo \in Seq(Shelf), NEW st, NEW no \in Tree, Standing(fo, st, no), fo # <<>>
  PROVE  LET last == fo[Len(fo)]
         IN  /\ last \in Shelf /\ Rising(last) /\ Holds(no, last, st[Len(fo)].children)
             /\ last.base \in Nat /\ last.base <= Len(no) /\ Len(no) = Highest(last)
             /\ \A k \in 1..(Len(fo) - 1) :
                  /\ Rising(fo[k]) /\ Holds(no, fo[k], st[k].children)
                  /\ \A i \in 1..Len(fo[k].roots) : fo[k].roots[i] \in 1..last.base
  <1> DEFINE l == Len(fo)
             last == fo[l]
  <1>1. l \in Nat \ {0} /\ l \in 1..l /\ last \in Shelf
    OBVIOUS
  <1>2. Rising(last) /\ Holds(no, last, st[l].children) /\ Len(no) = Highest(last)
    BY <1>1 DEF Standing
  <1>3. last.base \in Nat /\ last.base <= Len(no)
    <2>1. last.base <= Highest(last)
      BY <1>1, <1>2, Heights
    <2> QED
      BY <1>1, <1>2, <2>1 DEF Shelf
  <1>4. ASSUME NEW k \in 1..(l - 1)
        PROVE  /\ Rising(fo[k]) /\ Holds(no, fo[k], st[k].children)
               /\ \A i \in 1..Len(fo[k].roots) : fo[k].roots[i] \in 1..last.base
    <2>1. k \in 1..l /\ fo[k] \in Shelf
      BY <1>1
    <2>2. Rising(fo[k]) /\ Holds(no, fo[k], st[k].children)
      BY <2>1 DEF Standing
    <2>3. Highest(fo[k]) <= last.base /\ Highest(fo[k]) \in Nat
      BY <1>1, <2>1, <2>2, Heights DEF Standing
    <2>4. ASSUME NEW i \in 1..Len(fo[k].roots) PROVE fo[k].roots[i] \in 1..last.base
      <3>1. Len(fo[k].roots) \in 0..Len(fo[k].roots)
        BY <2>1 DEF Shelf
      <3>2. fo[k].roots[i] \in Nat /\ 0 < fo[k].roots[i] /\ fo[k].roots[i] <= Highest(fo[k])
        BY <2>1, <2>2, <3>1, Heights DEF Highest
      <3> QED
        BY <1>3, <2>3, <3>2
    <2> QED
      BY <2>2, <2>4
  <1> QED
    BY <1>1, <1>2, <1>3, <1>4

(* Another shelf for the running function. *)
LEMMA TopStands ==
  ASSUME NEW fo \in Seq(Shelf), NEW st, NEW no \in Tree, Standing(fo, st, no), fo # <<>>,
         NEW su, Len(su) = Len(st),
         \A k \in 1..(Len(fo) - 1) : su[k].children = st[k].children,
         NEW g \in Shelf, g.base = fo[Len(fo)].base, Rising(g),
         NEW nu \in Tree, Holds(nu, g, su[Len(fo)].children), Len(nu) = Highest(g),
         \A i \in 1..g.base : nu[i] = no[i]
  PROVE  LET fp == [fo EXCEPT ![Len(fo)] = g]
         IN  fp \in Seq(Shelf) /\ Standing(fp, su, nu)
  <1> DEFINE l == Len(fo)
             fp == [fo EXCEPT ![Len(fo)] = g]
  <1>1. /\ fp \in Seq(Shelf) /\ Len(fp) = l /\ fp # <<>> /\ fp[l] = g
        /\ \A k \in 1..l : k # l => fp[k] = fo[k]
    BY ReplaceLast
  <1>2. l \in Nat \ {0} /\ l \in 1..l /\ Len(st) = l
    BY DEF Standing
  <1> HIDE DEF fp
  <1>3. ASSUME NEW k \in 1..l PROVE Rising(fp[k]) /\ Holds(nu, fp[k], su[k].children)
    <2>1. CASE k = l
      BY <1>1, <2>1
    <2>2. CASE k # l
      <3>1. k \in 1..(l - 1) /\ fp[k] = fo[k]
        BY <1>1, <1>2, <2>2
      <3>2. /\ Rising(fo[k]) /\ Holds(no, fo[k], su[k].children)
            /\ \A i \in 1..Len(fo[k].roots) : fo[k].roots[i] \in 1..g.base
        BY <3>1, CallersBelow
      <3>3. \A i \in 1..Len(fo[k].roots) : nu[fo[k].roots[i]] = no[fo[k].roots[i]]
        BY <3>2
      <3>4. Holds(nu, fo[k], su[k].children)
        BY <3>2, <3>3 DEF Holds
      <3> QED
        BY <3>1, <3>2, <3>4
    <2> QED
      BY <2>1, <2>2
  <1>4. \A k \in 1..l : fp[k].base = fo[k].base
    BY <1>1
  <1>5. ASSUME NEW k \in 1..l, NEW j \in 1..(k - 1) PROVE Highest(fp[j]) <= fp[k].base
    <2>1. j \in 1..l /\ fp[j] = fo[j]
      BY <1>1, <1>2
    <2> QED
      BY <1>4, <2>1 DEF Standing
  <1>6. ASSUME NEW k \in 1..l, k > 1 PROVE fp[k].base = Highest(fp[k - 1])
    <2>1. k - 1 \in 1..l /\ k - 1 # l
      BY <1>2, <1>6
    <2>2. fp[k - 1] = fo[k - 1]
      BY <1>1, <2>1
    <2> QED
      BY <1>4, <1>6, <2>2 DEF Standing
  <1>7. fp[1].base = 0
    <2>1. 1 \in 1..l
      BY <1>2
    <2> QED
      BY <1>4, <2>1 DEF Standing
  <1>8. Standing(fp, su, nu)
    BY <1>1, <1>2, <1>3, <1>5, <1>6, <1>7 DEF Standing
  <1> QED
    BY <1>1, <1>8 DEF fp

(* What steps do to the shelves, and how many nodes they leave.            *)
CutTo(fo, n)  == [fo EXCEPT ![Len(fo)].roots = SubSeq(@, 1, n)]
LeftAt(fo, n) == Height(fo[Len(fo)], n)
PushTo(fo, m) == [fo EXCEPT ![Len(fo)] = PushTree(@, m)]

(* Macros cut the child_stack back to n trees. *)
LEMMA CutStands ==
  ASSUME NEW fo \in Seq(Shelf), NEW st, NEW no \in Tree, Standing(fo, st, no), fo # <<>>,
         NEW su, Len(su) = Len(st),
         \A k \in 1..(Len(fo) - 1) : su[k].children = st[k].children,
         NEW n \in 0..Len(st[Len(fo)].children), Len(su[Len(fo)].children) = n,
         \A i \in 1..n : su[Len(fo)].children[i] = st[Len(fo)].children[i]
  PROVE  /\ LeftAt(fo, n) \in Nat /\ LeftAt(fo, n) <= Len(no)
         /\ CutTo(fo, n) \in Seq(Shelf)
         /\ Standing(CutTo(fo, n), su, SubSeq(no, 1, LeftAt(fo, n)))
  <1> DEFINE l    == Len(fo)
             f    == fo[l]
             left == Height(f, n)
             r    == SubSeq(f.roots, 1, n)
             g    == [f EXCEPT !.roots = r]
             nu   == SubSeq(no, 1, left)
  <1>1. /\ f \in Shelf /\ Rising(f) /\ Holds(no, f, st[l].children)
        /\ f.base \in Nat /\ Len(no) = Highest(f)
    BY CallersBelow
  <1>2. Len(f.roots) \in Nat /\ n \in 0..Len(f.roots) /\ f.roots \in Seq(Nat)
    BY <1>1 DEF Holds, Shelf
  <1>3. /\ left \in Nat /\ f.base <= left /\ left <= Len(no)
        /\ \A i \in 1..n : f.roots[i] \in Nat /\ 0 < f.roots[i] /\ f.roots[i] <= left
    BY <1>1, <1>2, Heights
  <1>4. r \in Seq(Nat) /\ Len(r) = n /\ \A i \in 1..n : r[i] = f.roots[i]
    BY <1>2, Prefix
  <1>5. nu \in Tree /\ Len(nu) = left /\ \A i \in 1..left : nu[i] = no[i]
    BY <1>3, Prefix DEF Tree
  <1> HIDE DEF r, nu, left
  <1>6. g \in Shelf /\ g.base = f.base /\ g.roots = r
    BY <1>1, <1>4 DEF Shelf
  <1>7. Rising(g)
    <2>1. \A i \in 1..n : i \in 1..Len(f.roots) /\ \A j \in 1..(i - 1) : j \in 1..n
      BY <1>2
    <2> QED
      BY <1>1, <1>4, <1>6, <2>1 DEF Rising
  <1>8. Len(nu) = Highest(g)
    <2>1. CASE n = 0
      BY <1>4, <1>5, <1>6, <2>1 DEF Highest, Height, left
    <2>2. CASE n # 0
      <3>1. n \in 1..n
        BY <1>2, <2>2
      <3> QED
        BY <1>4, <1>5, <1>6, <2>2, <3>1 DEF Highest, Height, left
    <2> QED
      BY <2>1, <2>2
  <1>9. Holds(nu, g, su[l].children)
    <2>1. ASSUME NEW i \in 1..n PROVE Extent(nu[r[i]]) = su[l].children[i]
      <3>1. r[i] = f.roots[i] /\ nu[f.roots[i]] = no[f.roots[i]]
        BY <1>3, <1>4, <1>5
      <3>2. i \in 1..Len(f.roots)
        BY <1>2
      <3> QED
        BY <1>1, <3>1, <3>2 DEF Holds
    <2> QED
      BY <1>4, <1>6, <2>1 DEF Holds
  <1>10. \A i \in 1..g.base : nu[i] = no[i]
    BY <1>1, <1>3, <1>5, <1>6
  <1>11. CutTo(fo, n) = [fo EXCEPT ![Len(fo)] = g] /\ LeftAt(fo, n) = left
    BY DEF r, CutTo, LeftAt, left
  <1> HIDE DEF g
  <1>12. [fo EXCEPT ![Len(fo)] = g] \in Seq(Shelf) /\ Standing([fo EXCEPT ![Len(fo)] = g], su, nu)
    BY <1>5, <1>6, <1>7, <1>8, <1>9, <1>10, TopStands
  <1> QED
    BY <1>3, <1>11, <1>12 DEF nu, left

(* A tree is built or recalled, and becomes the last of the child_stack.   *)
LEMMA PushStands ==
  ASSUME NEW fo \in Seq(Shelf), NEW st, NEW no \in Tree, Standing(fo, st, no), fo # <<>>,
         NEW t \in Tree, t # <<>>,
         NEW su, Len(su) = Len(st),
         \A k \in 1..(Len(fo) - 1) : su[k].children = st[k].children,
         LET old == st[Len(fo)].children
             new == su[Len(fo)].children
         IN  /\ Len(new) = Len(old) + 1 /\ new[Len(old) + 1] = Extent(t[Len(t)])
             /\ \A i \in 1..Len(old) : new[i] = old[i]
  PROVE  LET fp == PushTo(fo, Len(no) + Len(t))
         IN  /\ fp \in Seq(Shelf) /\ Standing(fp, su, no \o t)
  <1> DEFINE l   == Len(fo)
             f   == fo[l]
             old == st[l].children
             new == su[l].children
             m   == Len(no) + Len(t)
             r   == Append(f.roots, m)
             g   == [f EXCEPT !.roots = r]
             nu  == no \o t
             n   == Len(f.roots)
  <1>1. /\ f \in Shelf /\ Rising(f) /\ Holds(no, f, old)
        /\ f.base \in Nat /\ Len(no) = Highest(f) /\ f.base <= Len(no)
    BY CallersBelow
  <1>2. n \in Nat /\ n = Len(old) /\ f.roots \in Seq(Nat) /\ n \in 0..n
    BY <1>1 DEF Holds, Shelf
  <1>3. Len(no) \in Nat /\ Len(t) \in Nat \ {0} /\ m \in Nat /\ Len(no) < m
    BY DEF Tree
  <1>4. /\ \A i \in 1..n : f.roots[i] \in Nat /\ 0 < f.roots[i] /\ f.roots[i] <= Len(no)
    BY <1>1, <1>2, Heights DEF Highest
  <1>5. r \in Seq(Nat) /\ Len(r) = n + 1 /\ r[n + 1] = m /\ \A i \in 1..n : r[i] = f.roots[i]
    <2> HIDE DEF m
    <2>1. f.roots \in Seq(Nat) /\ m \in Nat
      BY <1>2, <1>3
    <2> HIDE DEF f
    <2> QED
      BY <2>1, AddLast
  <1>6. /\ nu \in Tree /\ Len(nu) = m /\ nu[m] = t[Len(t)]
        /\ \A i \in 1..Len(no) : nu[i] = no[i]
    <2>1. nu \in Tree /\ Len(nu) = m
      BY DEF Tree
    <2>2. /\ \A i \in 1..Len(no) : nu[i] = no[i]
          /\ \A i \in 1..Len(t) : nu[Len(no) + i] = t[i]
      BY DEF Tree
    <2>3. Len(t) \in 1..Len(t)
      BY <1>3
    <2> QED
      BY <2>1, <2>2, <2>3
  <1>60. f.base < m /\ \A i \in 1..n : f.roots[i] < m
    BY <1>1, <1>3, <1>4
  <1> HIDE DEF r, nu, m
  <1>7. g \in Shelf /\ g.base = f.base /\ g.roots = r
    BY <1>1, <1>5 DEF Shelf
  <1>8. PushTree(f, m) = g
    BY DEF PushTree, r
  <1> HIDE DEF g
  <1>9. \A i \in 1..(n + 1) : i = n + 1 \/ i \in 1..n
    BY <1>2
  <1>10. Rising(g)
    <2>1. ASSUME NEW i \in 1..(n + 1) PROVE f.base < r[i]
      <3>1. CASE i = n + 1
        BY <1>5, <1>60, <3>1
      <3>2. CASE i \in 1..n
        BY <1>1, <1>5, <3>2 DEF Rising
      <3> QED
        BY <1>9, <3>1, <3>2
    <2>2. ASSUME NEW i \in 1..(n + 1), NEW j \in 1..(i - 1) PROVE r[j] < r[i]
      <3>1. j \in 1..n
        BY <1>2
      <3>2. CASE i = n + 1
        BY <1>5, <1>60, <3>1, <3>2
      <3>3. CASE i \in 1..n
        BY <1>1, <1>5, <3>1, <3>3 DEF Rising
      <3> QED
        BY <1>9, <3>2, <3>3
    <2> QED
      BY <1>5, <1>7, <2>1, <2>2 DEF Rising
  <1>11. Len(nu) = Highest(g)
    BY <1>2, <1>5, <1>6, <1>7 DEF Highest, Height
  <1>12. Holds(nu, g, new)
    <2>1. ASSUME NEW i \in 1..(n + 1) PROVE Extent(nu[r[i]]) = new[i]
      <3>1. CASE i = n + 1
        BY <1>2, <1>5, <1>6, <3>1
      <3>2. CASE i \in 1..n
        <4>1. /\ f.roots[i] \in Nat /\ 0 < f.roots[i] /\ f.roots[i] <= Len(no)
              /\ r[i] = f.roots[i]
          BY <1>4, <1>5, <3>2
        <4>3. f.roots[i] \in 1..Len(no)
          BY <1>3, <4>1
        <4>2. nu[r[i]] = no[f.roots[i]]
          BY <1>6, <4>1, <4>3
        <4> QED
          BY <1>1, <1>2, <3>2, <4>2 DEF Holds
      <3> QED
        BY <1>9, <3>1, <3>2
    <2> QED
      BY <1>2, <1>5, <1>7, <2>1 DEF Holds
  <1>13. \A i \in 1..g.base : nu[i] = no[i]
    BY <1>1, <1>3, <1>6, <1>7
  <1>14. PushTo(fo, Len(no) + Len(t)) = [fo EXCEPT ![Len(fo)] = g]
    BY <1>8 DEF m, PushTo
  <1>15. [fo EXCEPT ![Len(fo)] = g] \in Seq(Shelf) /\ Standing([fo EXCEPT ![Len(fo)] = g], su, nu)
    BY <1>6, <1>7, <1>10, <1>11, <1>12, <1>13, TopStands
  <1> QED
    BY <1>14, <1>15 DEF nu

(* A function is called. *)
LEMMA CallStands ==
  ASSUME NEW fo \in Seq(Shelf), NEW st, NEW no \in Tree, Standing(fo, st, no), fo # <<>>,
         NEW su, Len(su) = Len(st) + 1,
         \A k \in 1..Len(st) : su[k].children = st[k].children,
         su[Len(st) + 1].children = <<>>
  PROVE  LET fp == Append(fo, ChildStack(Len(no)))
         IN  fp \in Seq(Shelf) /\ Standing(fp, su, no)
  <1> DEFINE l  == Len(fo)
             g  == ChildStack(Len(no))
             fp == Append(fo, g)
  <1>1. Len(no) \in Nat /\ l \in Nat \ {0} /\ Len(st) = l /\ l \in 1..l
    BY DEF Tree, Standing
  <1>2. g \in Shelf /\ g.base = Len(no) /\ g.roots = <<>>
    BY <1>1 DEF ChildStack, Shelf
  <1>3. Rising(g) /\ Holds(no, g, su[l + 1].children) /\ Highest(g) = Len(no)
    BY <1>1, <1>2 DEF Rising, Holds, Highest, Height
  <1> HIDE DEF g
  <1>4. /\ fp \in Seq(Shelf) /\ Len(fp) = l + 1 /\ fp # <<>> /\ fp[l + 1] = g
        /\ \A k \in 1..l : fp[k] = fo[k]
    BY <1>2, AddLast
  <1> HIDE DEF fp
  <1>5. \A k \in 1..(l + 1) : k = l + 1 \/ k \in 1..l
    BY <1>1
  <1>6. ASSUME NEW k \in 1..l
        PROVE  /\ fo[k] \in Shelf /\ Rising(fo[k]) /\ Holds(no, fo[k], su[k].children)
               /\ fo[k].base <= Len(no) /\ Highest(fo[k]) <= Len(no)
    <2>1. /\ fo[k] \in Shelf /\ Rising(fo[k]) /\ Holds(no, fo[k], su[k].children)
          /\ Len(no) = Highest(fo[l])
      BY <1>1 DEF Standing
    <2>2. /\ fo[k].base <= Highest(fo[k]) /\ Highest(fo[k]) \in Nat /\ fo[k].base \in Nat
      BY <2>1, Heights DEF Shelf
    <2>3. Highest(fo[k]) <= Len(no)
      <3>1. CASE k = l
        BY <2>1, <2>2, <3>1
      <3>2. CASE k # l
        <4>1. k \in 1..(l - 1)
          BY <1>1, <3>2
        <4>2. Highest(fo[k]) <= fo[l].base
          BY <1>1, <4>1 DEF Standing
        <4>3. fo[l].base \in Nat /\ fo[l].base <= Len(no)
          BY CallersBelow
        <4> QED
          BY <1>1, <2>2, <4>2, <4>3
      <3> QED
        BY <3>1, <3>2
    <2> QED
      BY <1>1, <2>1, <2>2, <2>3
  <1>7. ASSUME NEW k \in 1..(l + 1) PROVE Rising(fp[k]) /\ Holds(no, fp[k], su[k].children)
    BY <1>3, <1>4, <1>5, <1>6
  <1>8. ASSUME NEW k \in 1..(l + 1), NEW j \in 1..(k - 1) PROVE Highest(fp[j]) <= fp[k].base
    <2>1. j \in 1..l
      BY <1>1
    <2>2. CASE k = l + 1
      BY <1>2, <1>4, <1>6, <2>1, <2>2
    <2>3. CASE k \in 1..l
      BY <1>4, <2>1, <2>3 DEF Standing
    <2> QED
      BY <1>5, <2>2, <2>3
  <1>9. ASSUME NEW k \in 1..(l + 1), k > 1 PROVE fp[k].base = Highest(fp[k - 1])
    <2>1. k - 1 \in 1..l
      BY <1>1, <1>9
    <2>2. CASE k = l + 1
      <3>1. k - 1 = l
        BY <1>1, <2>2
      <3> QED
        BY <1>1, <1>2, <1>4, <2>2, <3>1 DEF Standing
    <2>3. CASE k \in 1..l
      BY <1>4, <1>9, <2>1, <2>3 DEF Standing
    <2> QED
      BY <1>5, <2>2, <2>3
  <1>10. fp[1].base = 0 /\ Len(no) = Highest(fp[l + 1])
    <2>1. 1 \in 1..l
      BY <1>1
    <2> QED
      BY <1>3, <1>4, <2>1 DEF Standing
  <1>11. Len(su) = l + 1
    BY <1>1
  <1>12. Standing(fp, su, no)
    BY <1>4, <1>7, <1>8, <1>9, <1>10, <1>11 DEF Standing
  <1> QED
    BY <1>4, <1>12 DEF fp, g

(* A function has returned, and the trees it has built are gone.           *)
LEMMA ReturnStands ==
  ASSUME NEW fo \in Seq(Shelf), NEW st, NEW no \in Tree, Standing(fo, st, no), Len(fo) > 1,
         NEW su, Len(su) = Len(st) - 1,
         \A k \in 1..(Len(st) - 1) : su[k].children = st[k].children
  PROVE  LET fp == SubSeq(fo, 1, Len(fo) - 1)
             nu == SubSeq(no, 1, fo[Len(fo)].base)
         IN  /\ fp \in Seq(Shelf) /\ Len(fp) = Len(fo) - 1 /\ fp # <<>>
             /\ Standing(fp, su, nu)
  <1> DEFINE l  == Len(fo)
             n  == Len(fo) - 1
             b  == fo[l].base
             fp == SubSeq(fo, 1, n)
             nu == SubSeq(no, 1, b)
  <1>1. n \in Nat \ {0} /\ l = n + 1 /\ l \in 1..l /\ n \in 1..n /\ Len(st) = l /\ fo # <<>>
    BY DEF Standing
  <1>2. /\ fp \in Seq(Shelf) /\ Len(fp) = n /\ fp # <<>> /\ \A k \in 1..n : fp[k] = fo[k]
    BY <1>1, AllButLast
  <1>3. b \in Nat /\ b <= Len(no)
    BY <1>1, CallersBelow
  <1>4. nu \in Tree /\ Len(nu) = b /\ \A i \in 1..b : nu[i] = no[i]
    BY <1>3, Prefix DEF Tree
  <1> HIDE DEF fp, nu
  <1>5. ASSUME NEW k \in 1..n PROVE Rising(fp[k]) /\ Holds(nu, fp[k], su[k].children)
    <2>1. /\ Rising(fo[k]) /\ Holds(no, fo[k], su[k].children)
          /\ \A i \in 1..Len(fo[k].roots) : fo[k].roots[i] \in 1..b
      BY <1>1, CallersBelow
    <2>2. \A i \in 1..Len(fo[k].roots) : nu[fo[k].roots[i]] = no[fo[k].roots[i]]
      BY <1>4, <2>1
    <2> QED
      BY <1>2, <2>1, <2>2 DEF Holds
  <1>6. ASSUME NEW k \in 1..n, NEW j \in 1..(k - 1) PROVE Highest(fp[j]) <= fp[k].base
    <2>1. j \in 1..n /\ k \in 1..l
      BY <1>1
    <2> QED
      BY <1>2, <2>1 DEF Standing
  <1>7. ASSUME NEW k \in 1..n, k > 1 PROVE fp[k].base = Highest(fp[k - 1])
    <2>1. k - 1 \in 1..n /\ k \in 1..l
      BY <1>1, <1>7
    <2> QED
      BY <1>2, <1>7, <2>1 DEF Standing
  <1>8. fp[1].base = 0 /\ Len(nu) = Highest(fp[n])
    <2>1. 1 \in 1..n /\ l > 1 /\ l - 1 = n
      BY <1>1
    <2>2. b = Highest(fo[n])
      BY <1>1, <2>1 DEF Standing
    <2> QED
      BY <1>1, <1>2, <1>4, <2>1, <2>2 DEF Standing
  <1>9. Len(su) = n
    BY <1>1
  <1>10. Standing(fp, su, nu)
    BY <1>2, <1>5, <1>6, <1>7, <1>8, <1>9 DEF Standing
  <1> QED
    BY <1>2, <1>10 DEF fp, nu

-----------------------------------------------------------------------------
(* The owners.  Every live node is among `no' or in one tree of `ke', the  *)
(* trees kept.                                                             *)
KeptAddresses(ke) ==
  UNION {UNION {Addresses(ke[r][i]) : i \in 1..Len(ke[r])} : r \in Rule}

Owns(no, ke, li) ==
  /\ li = Addresses(no) \cup KeptAddresses(ke)
  /\ Once(no)
  /\ \A r \in Rule : \A i \in 1..Len(ke[r]) :
       /\ Once(ke[r][i]) /\ Apart(ke[r][i], no)
       /\ \A q \in Rule : \A j \in 1..Len(ke[q]) :
            r # q \/ i # j => Apart(ke[r][i], ke[q][j])

LEMMA AccountedIsOwns == NodesAccounted <=> Owns(nodes, kept, live)
  BY DEF NodesAccounted, Owns, AddressesKept, KeptAddresses

LEMMA KeptMember ==
  ASSUME NEW ke, NEW a
  PROVE  a \in KeptAddresses(ke) <=> \E r \in Rule : \E i \in 1..Len(ke[r]) : a \in Addresses(ke[r][i])
  BY DEF KeptAddresses

(* A tree that is cut in two. *)
LEMMA TreeCut ==
  ASSUME NEW no \in Tree, Once(no), NEW left \in Nat, left <= Len(no)
  PROVE  LET lower == SubSeq(no, 1, left)
             upper == SubSeq(no, left + 1, Len(no))
         IN  /\ Once(lower) /\ Addresses(lower) \subseteq Addresses(no)
             /\ Addresses(lower) = Addresses(no) \ Addresses(upper)
             /\ Addresses(upper) \subseteq Addresses(no)
  <1> DEFINE lower == SubSeq(no, 1, left)
             upper == SubSeq(no, left + 1, Len(no))
             n     == Len(no)
             m     == n - left
  <1>1. n \in Nat /\ m \in Nat /\ n = left + m
    BY DEF Tree
  <1>2. Len(lower) = left /\ \A i \in 1..left : lower[i] = no[i]
    BY Prefix DEF Tree
  <1>3. Len(upper) = m /\ \A i \in 1..m : upper[i] = no[left + i]
    BY DEF Tree
  <1> HIDE DEF lower, upper, m
  <1>4. /\ \A i \in 1..left : i \in 1..n
        /\ \A i \in 1..m : left + i \in 1..n /\ left + i \notin 1..left
        /\ \A i \in 1..n : i \in 1..left \/ \E j \in 1..m : i = left + j
    <2>1. ASSUME NEW i \in 1..n, i \notin 1..left PROVE \E j \in 1..m : i = left + j
      <3>1. i - left \in 1..m /\ i = left + (i - left)
        BY <1>1, <2>1
      <3> QED
        BY <3>1
    <2> QED
      BY <1>1, <2>1
  <1> HIDE DEF n
  <1>5. Once(lower)
    BY <1>2, <1>4 DEF Once, n
  <1>6. Addresses(lower) = {no[i].at : i \in 1..left}
    BY <1>2 DEF Addresses
  <1>7. Addresses(upper) = {no[left + i].at : i \in 1..m}
    BY <1>3 DEF Addresses
  <1>8. Addresses(no) = {no[i].at : i \in 1..n}
    BY DEF Addresses, n
  <1>9. \A i, j \in 1..n : no[i].at = no[j].at => i = j
    BY DEF Once, n
  <1>10. ASSUME NEW a PROVE a \in Addresses(lower) <=> a \in Addresses(no) /\ a \notin Addresses(upper)
    <2>1. ASSUME a \in Addresses(lower) PROVE a \in Addresses(no) /\ a \notin Addresses(upper)
      <3>1. PICK i \in 1..left : a = no[i].at
        BY <1>6, <2>1
      <3>2. ASSUME NEW j \in 1..m, a = no[left + j].at PROVE FALSE
        <4>1. left + j \in 1..n /\ i \in 1..n
          BY <1>4
        <4>2. i = left + j
          BY <1>9, <3>1, <3>2, <4>1
        <4> QED
          BY <1>4, <4>2
      <3> QED
        BY <1>4, <1>7, <1>8, <3>1, <3>2
    <2>2. ASSUME a \in Addresses(no), a \notin Addresses(upper) PROVE a \in Addresses(lower)
      <3>1. PICK i \in 1..n : a = no[i].at
        BY <1>8, <2>2
      <3>2. ASSUME NEW j \in 1..m, i = left + j PROVE FALSE
        BY <1>7, <2>2, <3>1, <3>2
      <3> QED
        BY <1>4, <1>6, <3>1, <3>2
    <2> QED
      BY <2>1, <2>2
  <1>11. Addresses(upper) \subseteq Addresses(no)
    BY <1>4, <1>7, <1>8
  <1> QED
    BY <1>5, <1>10, <1>11 DEF lower, upper

(* Two trees that are put together. *)
LEMMA TreeJoin ==
  ASSUME NEW no \in Tree, NEW t \in Tree
  PROVE  /\ Addresses(no \o t) = Addresses(no) \cup Addresses(t)
         /\ Once(no) /\ Once(t) /\ Apart(no, t) => Once(no \o t)
  <1> DEFINE nu == no \o t
             n  == Len(no)
             m  == Len(t)
  <1>1. n \in Nat /\ m \in Nat /\ nu \in Tree /\ Len(nu) = n + m
    BY DEF Tree
  <1>2. /\ \A i \in 1..n : nu[i] = no[i]
        /\ \A i \in 1..m : nu[n + i] = t[i]
    BY DEF Tree
  <1>3. /\ \A i \in 1..n : i \in 1..(n + m)
        /\ \A i \in 1..m : n + i \in 1..(n + m)
        /\ \A i \in 1..(n + m) : i \in 1..n \/ \E j \in 1..m : i = n + j
    <2>1. ASSUME NEW i \in 1..(n + m), i \notin 1..n PROVE \E j \in 1..m : i = n + j
      <3>1. i - n \in 1..m /\ i = n + (i - n)
        BY <1>1, <2>1
      <3> QED
        BY <3>1
    <2> QED
      BY <1>1, <2>1
  <1> HIDE DEF nu
  <1>4. /\ Addresses(no) = {no[i].at : i \in 1..n} /\ Addresses(t) = {t[i].at : i \in 1..m}
        /\ Addresses(nu) = {nu[i].at : i \in 1..(n + m)}
    BY <1>1 DEF Addresses
  <1> HIDE DEF n, m
  <1>5. ASSUME NEW a PROVE a \in Addresses(nu) <=> a \in Addresses(no) \/ a \in Addresses(t)
    <2>1. ASSUME a \in Addresses(nu) PROVE a \in Addresses(no) \/ a \in Addresses(t)
      <3>1. PICK i \in 1..(n + m) : a = nu[i].at
        BY <1>4, <2>1
      <3>2. CASE i \in 1..n
        BY <1>2, <1>4, <3>1, <3>2
      <3>3. ASSUME NEW j \in 1..m, i = n + j PROVE a \in Addresses(t)
        BY <1>2, <1>4, <3>1, <3>3
      <3> QED
        BY <1>3, <3>2, <3>3
    <2>2. ASSUME a \in Addresses(no) PROVE a \in Addresses(nu)
      BY <1>2, <1>3, <1>4, <2>2
    <2>3. ASSUME a \in Addresses(t) PROVE a \in Addresses(nu)
      BY <1>2, <1>3, <1>4, <2>3
    <2> QED
      BY <2>1, <2>2, <2>3
  <1>6. ASSUME Once(no), Once(t), Apart(no, t) PROVE Once(nu)
    <2>1. ASSUME NEW i \in 1..n, NEW j \in 1..m PROVE nu[i].at # nu[n + j].at
      <3>1. nu[i].at \in Addresses(no) /\ nu[n + j].at \in Addresses(t)
        BY <1>2, <1>4
      <3> QED
        BY <1>6, <3>1 DEF Apart
    <2>2. ASSUME NEW i \in 1..n, NEW j \in 1..n, nu[i].at = nu[j].at PROVE i = j
      BY <1>2, <1>6, <2>2 DEF Once, n
    <2>3. ASSUME NEW i \in 1..m, NEW j \in 1..m, nu[n + i].at = nu[n + j].at PROVE i = j
      BY <1>2, <1>6, <2>3 DEF Once, m
    <2>4. ASSUME NEW i \in 1..(n + m), NEW j \in 1..(n + m), nu[i].at = nu[j].at PROVE i = j
      <3>1. CASE i \in 1..n /\ j \in 1..n
        BY <2>2, <2>4, <3>1
      <3>2. ASSUME NEW k \in 1..m, i = n + k, j \in 1..n PROVE FALSE
        BY <2>1, <2>4, <3>2
      <3>3. ASSUME NEW k \in 1..m, j = n + k, i \in 1..n PROVE FALSE
        BY <2>1, <2>4, <3>3
      <3>4. ASSUME NEW k \in 1..m, i = n + k, NEW h \in 1..m, j = n + h PROVE i = j
        <4>1. k = h
          BY <2>3, <2>4, <3>4
        <4> QED
          BY <3>4, <4>1
      <3> QED
        BY <1>3, <3>1, <3>2, <3>3, <3>4
    <2> QED
      BY <1>1, <2>4 DEF Once
  <1> QED
    BY <1>5, <1>6 DEF nu

(* The trees a macro cuts off are destroyed, and nothing else is. *)
LEMMA OwnsCut ==
  ASSUME NEW no \in Tree, NEW ke, NEW li, Owns(no, ke, li),
         NEW left \in Nat, left <= Len(no)
  PROVE  Owns(SubSeq(no, 1, left), ke, li \ Addresses(SubSeq(no, left + 1, Len(no))))
  <1> DEFINE lower == SubSeq(no, 1, left)
             upper == SubSeq(no, left + 1, Len(no))
  <1>1. Once(no)
    BY DEF Owns
  <1>2. /\ Once(lower) /\ Addresses(lower) \subseteq Addresses(no)
        /\ Addresses(lower) = Addresses(no) \ Addresses(upper)
        /\ Addresses(upper) \subseteq Addresses(no)
    BY <1>1, TreeCut
  <1> HIDE DEF lower, upper
  <1>3. ASSUME NEW r \in Rule, NEW i \in 1..Len(ke[r]) PROVE Apart(ke[r][i], lower)
    BY <1>2 DEF Owns, Apart
  <1>4. ASSUME NEW a \in KeptAddresses(ke) PROVE a \notin Addresses(upper)
    <2>1. PICK r \in Rule : \E i \in 1..Len(ke[r]) : a \in Addresses(ke[r][i])
      BY <1>4, KeptMember
    <2>2. PICK i \in 1..Len(ke[r]) : a \in Addresses(ke[r][i])
      BY <2>1
    <2> QED
      BY <1>2, <2>2 DEF Owns, Apart
  <1>5. li \ Addresses(upper) = Addresses(lower) \cup KeptAddresses(ke)
    BY <1>2, <1>4 DEF Owns
  <1> QED
    BY <1>2, <1>3, <1>5 DEF Owns, lower, upper

(* A tree at new addresses comes to the running functions. *)
LEMMA OwnsMore ==
  ASSUME NEW no \in Tree, NEW ke, NEW li, Owns(no, ke, li),
         NEW t \in Tree, Once(t), Addresses(t) \cap li = {}
  PROVE  Owns(no \o t, ke, li \cup Addresses(t))
  <1> DEFINE nu == no \o t
  <1>1. Addresses(no) \subseteq li /\ Once(no)
    BY DEF Owns
  <1>2. Addresses(nu) = Addresses(no) \cup Addresses(t) /\ Once(nu)
    BY <1>1, TreeJoin DEF Apart
  <1> HIDE DEF nu
  <1>3. ASSUME NEW r \in Rule, NEW i \in 1..Len(ke[r]) PROVE Apart(ke[r][i], nu)
    <2>1. Addresses(ke[r][i]) \subseteq li
      BY KeptMember DEF Owns
    <2> QED
      BY <1>2, <2>1 DEF Owns, Apart
  <1>4. li \cup Addresses(t) = Addresses(nu) \cup KeptAddresses(ke)
    BY <1>2 DEF Owns
  <1> QED
    BY <1>2, <1>3, <1>4 DEF Owns, nu

(* A tree at new addresses comes into the memo map. *)
LEMMA OwnsKept ==
  ASSUME NEW no \in Tree, NEW ke \in [Rule -> Seq(Tree)], NEW li, Owns(no, ke, li),
         NEW t \in Tree, Once(t), Addresses(t) \cap li = {}, NEW type \in Rule
  PROVE  LET kw == [ke EXCEPT ![type] = Append(@, t)]
         IN  kw \in [Rule -> Seq(Tree)] /\ Owns(no, kw, li \cup Addresses(t))
  <1> DEFINE c  == Append(ke[type], t)
             n  == Len(ke[type])
             kw == [ke EXCEPT ![type] = c]
  <1>1. /\ c \in Seq(Tree) /\ Len(c) = n + 1 /\ c[n + 1] = t
        /\ \A i \in 1..n : c[i] = ke[type][i]
    <2>1. ke[type] \in Seq(Tree)
      OBVIOUS
    <2> QED
      BY <2>1, AddLast
  <1>2. n \in Nat
    OBVIOUS
  <1> HIDE DEF c
  <1>3. kw \in [Rule -> Seq(Tree)] /\ kw[type] = c /\ \A r \in Rule : r # type => kw[r] = ke[r]
    BY <1>1
  <1> HIDE DEF kw, n
  <1>4. ASSUME NEW r \in Rule, NEW i \in 1..Len(kw[r])
        PROVE  \/ r = type /\ i = n + 1 /\ kw[r][i] = t
               \/ i \in 1..Len(ke[r]) /\ kw[r][i] = ke[r][i]
    <2>1. CASE r = type
      <3>1. i = n + 1 \/ i \in 1..n
        BY <1>1, <1>2, <1>3, <2>1
      <3> QED
        BY <1>1, <1>3, <2>1, <3>1 DEF n
    <2>2. CASE r # type
      BY <1>3, <2>2
    <2> QED
      BY <2>1, <2>2
  <1>5. ASSUME NEW r \in Rule, NEW i \in 1..Len(ke[r])
        PROVE  i \in 1..Len(kw[r]) /\ kw[r][i] = ke[r][i]
    <2>1. CASE r = type
      BY <1>1, <1>2, <1>3, <2>1 DEF n
    <2>2. CASE r # type
      BY <1>3, <2>2
    <2> QED
      BY <2>1, <2>2
  <1>6. n + 1 \in 1..Len(kw[type]) /\ kw[type][n + 1] = t
    BY <1>1, <1>2, <1>3
  <1>7. ASSUME NEW a PROVE a \in KeptAddresses(kw) <=> a \in KeptAddresses(ke) \/ a \in Addresses(t)
    <2>1. ASSUME a \in KeptAddresses(kw) PROVE a \in KeptAddresses(ke) \/ a \in Addresses(t)
      <3>1. PICK r \in Rule : \E i \in 1..Len(kw[r]) : a \in Addresses(kw[r][i])
        BY <2>1, KeptMember
      <3>2. PICK i \in 1..Len(kw[r]) : a \in Addresses(kw[r][i])
        BY <3>1
      <3> QED
        BY <1>4, <3>2, KeptMember
    <2>2. ASSUME a \in KeptAddresses(ke) PROVE a \in KeptAddresses(kw)
      <3>1. PICK r \in Rule : \E i \in 1..Len(ke[r]) : a \in Addresses(ke[r][i])
        BY <2>2, KeptMember
      <3>2. PICK i \in 1..Len(ke[r]) : a \in Addresses(ke[r][i])
        BY <3>1
      <3>3. i \in 1..Len(kw[r]) /\ a \in Addresses(kw[r][i])
        BY <1>5, <3>2
      <3> QED
        BY <3>3, KeptMember
    <2>3. ASSUME a \in Addresses(t) PROVE a \in KeptAddresses(kw)
      BY <1>6, <2>3, KeptMember
    <2> QED
      BY <2>1, <2>2, <2>3
  <1>8. ASSUME NEW r \in Rule, NEW i \in 1..Len(ke[r])
        PROVE  Apart(ke[r][i], t) /\ Apart(t, ke[r][i])
    <2>1. Addresses(ke[r][i]) \subseteq li
      BY KeptMember DEF Owns
    <2> QED
      BY <2>1 DEF Apart
  <1>9. ASSUME NEW r \in Rule, NEW i \in 1..Len(kw[r])
        PROVE  Once(kw[r][i]) /\ Apart(kw[r][i], no)
    <2>1. Apart(t, no)
      BY DEF Owns, Apart
    <2> QED
      BY <1>4, <2>1 DEF Owns
  <1>10. ASSUME NEW r \in Rule, NEW i \in 1..Len(kw[r]),
                NEW q \in Rule, NEW j \in 1..Len(kw[q]), r # q \/ i # j
         PROVE  Apart(kw[r][i], kw[q][j])
    <2>1. CASE i \in 1..Len(ke[r]) /\ kw[r][i] = ke[r][i]
      <3>1. CASE j \in 1..Len(ke[q]) /\ kw[q][j] = ke[q][j]
        BY <1>10, <2>1, <3>1 DEF Owns
      <3>2. CASE kw[q][j] = t
        BY <1>8, <2>1, <3>2
      <3> QED
        BY <1>4, <3>1, <3>2
    <2>2. CASE r = type /\ i = n + 1 /\ kw[r][i] = t
      <3>1. CASE j \in 1..Len(ke[q]) /\ kw[q][j] = ke[q][j]
        BY <1>8, <2>2, <3>1
      <3>2. CASE q = type /\ j = n + 1
        BY <1>10, <2>2, <3>2
      <3> QED
        BY <1>4, <3>1, <3>2
    <2> QED
      BY <1>4, <2>1, <2>2
  <1>11. li \cup Addresses(t) = Addresses(no) \cup KeptAddresses(kw)
    BY <1>7 DEF Owns
  <1>12. Owns(no, kw, li \cup Addresses(t))
    BY <1>9, <1>10, <1>11 DEF Owns
  <1> QED
    BY <1>3, <1>12 DEF kw, c

(* The memo map is destroyed. *)
LEMMA OwnsAlone ==
  ASSUME NEW no, NEW ke, NEW li, Owns(no, ke, li)
  PROVE  Owns(no, [type \in Rule |-> <<>>], li \ KeptAddresses(ke))
  <1> DEFINE kw == [type \in Rule |-> <<>>]
  <1>1. \A r \in Rule : kw[r] = <<>> /\ \A i : i \notin 1..Len(kw[r])
    OBVIOUS
  <1> HIDE DEF kw
  <1>2. \A a : a \notin KeptAddresses(kw)
    BY <1>1, KeptMember
  <1>3. ASSUME NEW a \in KeptAddresses(ke) PROVE a \notin Addresses(no)
    <2>1. PICK r \in Rule : \E i \in 1..Len(ke[r]) : a \in Addresses(ke[r][i])
      BY <1>3, KeptMember
    <2>2. PICK i \in 1..Len(ke[r]) : a \in Addresses(ke[r][i])
      BY <2>1
    <2> QED
      BY <2>2 DEF Owns, Apart
  <1>4. li \ KeptAddresses(ke) = Addresses(no) \cup KeptAddresses(kw)
    BY <1>2, <1>3 DEF Owns
  <1>5. Owns(no, kw, li \ KeptAddresses(ke))
    BY <1>1, <1>4 DEF Owns
  <1> QED
    BY <1>5 DEF kw

(* A copy of a tree, and where it is. *)
LEMMA Copied ==
  ASSUME NEW t \in Tree, NEW n \in Nat
  PROVE  LET c == syntax_node_copy(t, n)
         IN  /\ c \in Tree /\ Len(c) = Len(t) /\ (c = NoTree <=> t = NoTree)
             /\ \A i \in 1..Len(t) : Extent(c[i]) = Extent(t[i]) /\ c[i].child = t[i].child
             /\ \A i \in 1..Len(t) : c[i].type = t[i].type /\ c[i].begin = t[i].begin
             /\ Once(c) /\ Addresses(c) = (n + 1)..(n + Len(t))
  <1> DEFINE F(i) == syntax_node_create(t[i].type, t[i].begin, t[i].end, t[i].child, n + i)
             m    == Len(t)
             c    == [i \in 1..m |-> F(i)]
  <1>1. m \in Nat
    BY DEF Tree
  <1>2. ASSUME NEW i \in 1..m
        PROVE  /\ F(i) \in TreeNode /\ F(i).at = n + i
               /\ Extent(F(i)) = Extent(t[i]) /\ F(i).child = t[i].child
               /\ F(i).type = t[i].type /\ F(i).begin = t[i].begin
    <2>1. t[i] \in TreeNode
      BY DEF Tree
    <2> QED
      BY <2>1 DEF syntax_node_create, TreeNode, Extent, Node
  <1> HIDE DEF F
  <1>3. c \in Seq(TreeNode) /\ Len(c) = m /\ \A i \in 1..m : c[i] = F(i)
    BY <1>1, <1>2
  <1>4. syntax_node_copy(t, n) = c
    BY DEF syntax_node_copy, F
  <1> HIDE DEF c
  <1>5. c = NoTree <=> t = NoTree
    <2>1. c = <<>> <=> m = 0
      BY <1>1, <1>3
    <2>2. t = <<>> <=> m = 0
      BY DEF Tree
    <2> QED
      BY <2>1, <2>2 DEF NoTree
  <1>6. \A i \in 1..m : c[i].at = n + i
    BY <1>2, <1>3
  <1>7. Once(c)
    BY <1>1, <1>3, <1>6 DEF Once
  <1>8. Addresses(c) = (n + 1)..(n + m)
    <2>1. Addresses(c) = {n + i : i \in 1..m}
      BY <1>3, <1>6 DEF Addresses
    <2>2. ASSUME NEW a \in (n + 1)..(n + m) PROVE \E i \in 1..m : a = n + i
      <3>1. a - n \in 1..m /\ a = n + (a - n)
        BY <1>1, <2>2
      <3> QED
        BY <3>1
    <2>3. \A i \in 1..m : n + i \in (n + 1)..(n + m)
      BY <1>1
    <2> QED
      BY <2>1, <2>2, <2>3
  <1> QED
    BY <1>2, <1>3, <1>4, <1>5, <1>7, <1>8 DEF Tree

-----------------------------------------------------------------------------
(* The invariant.  The shelves stand under the activation records, every   *)
(* tree kept is the answer of its memo record, and every node has its      *)
(* owner.                                                                  *)
Answer(type, rec, t) ==
  /\ rec.ok <=> t # NoTree
  /\ rec.ok => Extent(t[Len(t)]) = Node(type, rec.start, rec.end)

Answers(me, ke) ==
  \A r \in Rule : /\ Len(ke[r]) = Len(me[r])
                  /\ \A i \in 1..Len(ke[r]) : Answer(r, me[r][i], ke[r][i])

TreeTypes ==
  /\ phase \in {"start", "parsing", "returned"}
  /\ nodes \in Tree
  /\ forest \in Seq(Shelf)
  /\ kept \in [Rule -> Seq(Tree)]
  /\ allocated \in Nat
  /\ live \subseteq 1..allocated

HeapInv ==
  /\ TreeTypes
  /\ Standing(forest, stack, nodes)
  /\ phase # "returned" => Answers(memo, kept)
  /\ Owns(nodes, kept, live)

-----------------------------------------------------------------------------
(* What the steps of PackratParser do to child_stack. *)
LEMMA TopOnly ==
  ASSUME BasicInv, Running, NEW f \in Frame, stack' = WithTop(f)
  PROVE  /\ Len(stack') = Len(stack) /\ stack'[Len(stack)] = f
         /\ \A k \in 1..(Len(stack) - 1) : stack'[k] = stack[k]
  <1>1. stack \in Seq(Frame) /\ stack # <<>> /\ Len(stack) \in Nat
    BY TopGood DEF BasicInv, TypeOK
  <1>2. /\ Len(stack') = Len(stack) /\ stack'[Len(stack)] = f
        /\ \A k \in 1..Len(stack) : k # Len(stack) => stack'[k] = stack[k]
    BY <1>1, ReplaceLast DEF WithTop
  <1>3. \A k \in 1..(Len(stack) - 1) : k \in 1..Len(stack) /\ k # Len(stack)
    BY <1>1
  <1> QED
    BY <1>2, <1>3

(* Macros add no child, and drop only the last ones. *)
LEMMA MacroChildren ==
  ASSUME BasicInv, Running, Macro
  PROVE  /\ Len(stack') = Len(stack)
         /\ \A k \in 1..(Len(stack) - 1) : stack'[k] = stack[k]
         /\ LET new == stack'[Len(stack)].children
            IN  /\ Len(new) \in 0..Len(top.children)
                /\ \A i \in 1..Len(new) : new[i] = top.children[i]
         /\ stack'[Len(stack)].rule = top.rule /\ stack'[Len(stack)].start = top.start
         /\ UNCHANGED <<grammar, memo, root, status>>
  <1> DEFINE Keeps0(f) == /\ f \in Frame /\ f.rule = top.rule /\ f.start = top.start
                          /\ Len(f.children) \in 0..Len(top.children)
                          /\ \A i \in 1..Len(f.children) : f.children[i] = top.children[i]
  <1>1. top \in Frame /\ top.children \in Seq(Span) /\ Len(top.children) \in Nat
    BY TopGood DEF Good, Frame
  <1>2. Keeps0(top)
    BY <1>1
  <1>3. ASSUME NEW f, Keeps0(f)
        PROVE  Keeps0(PopCtl(f))
    <2> DEFINE d == SubSeq(f.ctl, 1, Len(f.ctl) - 1)
    <2>1. d \in Seq(Ctx)
      <3>1. f.ctl \in Seq(Ctx)
        BY <1>3 DEF Frame
      <3> QED
        BY <3>1
    <2>2. PopCtl(f) = [f EXCEPT !.ctl = d]
      BY DEF PopCtl
    <2> HIDE DEF d
    <2>3. /\ PopCtl(f) \in Frame /\ PopCtl(f).rule = f.rule /\ PopCtl(f).start = f.start
          /\ PopCtl(f).children = f.children
      BY <1>3, <2>1, <2>2 DEF Frame
    <2> QED
      BY <1>3, <2>3
  <1>4. UNCHANGED <<grammar, memo, root, status>>
    BY DEF Macro, EnterMacro, SeqRight, SeqEnd, DisjRight, DisjEnd, StarAgain, StarEnd,
           PlusAgain, PlusEnd, QuesEnd, BangEnd, HideEnd, AmpEnd, Continue, Finish
  <1>5. ASSUME top.ctl # <<>>
        PROVE  \A g \in {top, Advance(top), AtSecond(top), AtSecond(GoBack(top)),
                          Counted(Advance(top)), DropChildren(top), GoBackBoth(top),
                          DropChildren(GoBackBoth(top)), Advance(DropChildren(top))} : Keeps0(g)
    <2>1. ctx.pos \in Nat /\ ctx.size \in Nat /\ ctx.size <= Len(top.children)
      BY <1>5, CtxFacts
    <2>2. ASSUME NEW f, Keeps0(f), f.ctl # <<>>
          PROVE  /\ Keeps0(Advance(f)) /\ Keeps0(GoBack(f)) /\ Keeps0(GoBackBoth(f))
                 /\ Keeps0(AtSecond(f)) /\ Keeps0(Counted(f))
                 /\ Advance(f).ctl = f.ctl /\ GoBack(f).ctl = f.ctl
      <3>1. \A g \in {Advance(f), GoBack(f), GoBackBoth(f)} :
              /\ g \in Frame /\ g.rule = f.rule /\ g.start = f.start /\ g.ctl = f.ctl
              /\ g.children = f.children
        <4>1. f \in Frame
          BY <2>2
        <4> HIDE DEF Keeps0
        <4>2. \A g \in {f, Advance(f), GoBack(f), GoBackBoth(f)} :
                /\ g \in Frame /\ g.rule = f.rule /\ g.start = f.start /\ g.ctl = f.ctl
                /\ g.children = f.children
          BY <2>1, <4>1, Moved
        <4> QED
          BY <4>2
      <3>2. \A g \in {AtSecond(f), Counted(f)} :
              /\ g \in Frame /\ g.rule = f.rule /\ g.start = f.start
              /\ g.children = f.children
        <4>1. f \in Frame
          BY <2>2
        <4> HIDE DEF Keeps0
        <4>2. \A g \in {AtSecond(f), Counted(f)} :
                /\ g \in Frame /\ g.rule = f.rule /\ g.start = f.start
                /\ g.curStart = f.curStart /\ g.children = f.children
                /\ Len(g.ctl) = Len(f.ctl) /\ g.ctl # <<>>
                /\ \A i \in 1..Len(f.ctl) : i # Len(f.ctl) => g.ctl[i] = f.ctl[i]
                /\ LastCtx(g).exp = LastCtx(f).exp /\ LastCtx(g).pos = LastCtx(f).pos
                /\ LastCtx(g).size = LastCtx(f).size
          BY <2>2, <4>1, Marked
        <4> QED
          BY <4>2
      <3> QED
        BY <2>2, <3>1, <3>2
    <2>3. ASSUME NEW f, Keeps0(f), f.children = top.children
          PROVE  Keeps0(DropChildren(f)) /\ DropChildren(f).ctl = f.ctl
      <3>1. /\ DropChildren(f) \in Frame /\ DropChildren(f).rule = f.rule
            /\ DropChildren(f).start = f.start /\ DropChildren(f).ctl = f.ctl
            /\ Len(DropChildren(f).children) = ctx.size
            /\ \A i \in 1..ctx.size : DropChildren(f).children[i] = f.children[i]
        BY <2>1, <2>3, Dropped
      <3> QED
        BY <1>1, <2>1, <2>3, <3>1
    <2>4. GoBackBoth(top).children = top.children
      BY <1>1, <2>1, Moved
    <2> HIDE DEF Keeps0
    <2> QED
      BY <1>2, <1>5, <2>2, <2>3, <2>4
  <1>6. ASSUME NEW f, Keeps0(f), stack' = WithTop(f)
        PROVE  /\ Len(stack') = Len(stack) /\ stack'[Len(stack)] = f
               /\ \A k \in 1..(Len(stack) - 1) : stack'[k] = stack[k]
    BY <1>6, TopOnly
  <1>7. \E f : Keeps0(f) /\ stack' = WithTop(f)
    <2>1. CASE EnterMacro
      <3> DEFINE c == [exp |-> exp, second |-> FALSE, count |-> FALSE,
                       size |-> Len(top.children), pos |-> top.curStart,
                       errs |-> errors.num]
                 g == [top EXCEPT !.ctl = Append(@, c)]
      <3>1. stack' = WithTop(g)
        BY <2>1 DEF EnterMacro, Continue
      <3>2. c \in Ctx
        BY <1>1, ErrorsType DEF Ctx, ErrorList, Frame
      <3> HIDE DEF c
      <3> DEFINE d == Append(top.ctl, c)
      <3>4. d \in Seq(Ctx)
        BY <1>1, <3>2 DEF Frame
      <3> HIDE DEF d
      <3>5. /\ g \in Frame /\ g.rule = top.rule /\ g.start = top.start
            /\ g.children = top.children
        BY <1>1, <3>4 DEF Frame, d
      <3> HIDE DEF g
      <3>3. Keeps0(g)
        BY <1>2, <3>5
      <3> HIDE DEF Keeps0
      <3> QED
        BY <3>1, <3>3
    <2>2. CASE ~EnterMacro
      <3>1. top.ctl # <<>>
        BY <2>2 DEF Macro, SeqRight, SeqEnd, DisjRight, DisjEnd, StarAgain, StarEnd,
               PlusAgain, PlusEnd, QuesEnd, BangEnd, HideEnd, AmpEnd, Leaving
      <3> DEFINE G == {top, Advance(top), AtSecond(top), AtSecond(GoBack(top)),
                       Counted(Advance(top)), DropChildren(top), GoBackBoth(top),
                       DropChildren(GoBackBoth(top)), Advance(DropChildren(top))}
      <3>2. \A g \in G : Keeps0(g) /\ Keeps0(PopCtl(g))
        <4>1. \A g \in G : Keeps0(g)
          BY <1>5, <3>1
        <4> HIDE DEF G, Keeps0
        <4> QED
          BY <1>3, <4>1
      <3>3. \E g \in G : stack' = WithTop(g) \/ stack' = WithTop(PopCtl(g))
        BY <2>2 DEF Macro, SeqRight, SeqEnd, DisjRight, DisjEnd, StarAgain, StarEnd,
               PlusAgain, PlusEnd, QuesEnd, BangEnd, HideEnd, AmpEnd, Continue, Finish,
               EndOfPair
      <3> HIDE DEF G, Keeps0
      <3> QED
        BY <3>2, <3>3
    <2> QED
      BY <2>1, <2>2
  <1> QED
    BY <1>4, <1>6, <1>7

-----------------------------------------------------------------------------
LEMMA HeapTop ==
  ASSUME BasicInv, HeapInv, Running
  PROVE  /\ Len(stack) \in Nat \ {0} /\ Len(forest) = Len(stack)
         /\ stack \in Seq(Frame) /\ top = stack[Len(stack)] /\ top \in Frame
         /\ forest \in Seq(Shelf) /\ forest # <<>> /\ own = forest[Len(forest)]
         /\ nodes \in Tree /\ allocated \in Nat /\ live \subseteq 1..allocated
         /\ kept \in [Rule -> Seq(Tree)]
         /\ Standing(forest, stack, nodes) /\ Owns(nodes, kept, live)
  <1>1. Len(stack) \in Nat \ {0} /\ stack \in Seq(Frame) /\ top \in Frame
    BY TopGood DEF BasicInv, TypeOK, Good
  <1>2. /\ forest \in Seq(Shelf) /\ nodes \in Tree /\ allocated \in Nat
        /\ live \subseteq 1..allocated /\ kept \in [Rule -> Seq(Tree)]
        /\ Standing(forest, stack, nodes) /\ Owns(nodes, kept, live)
    BY DEF HeapInv, TreeTypes
  <1>3. Len(forest) = Len(stack)
    BY <1>2 DEF Standing
  <1>4. forest # <<>>
    BY <1>1, <1>2, <1>3
  <1> QED
    BY <1>1, <1>2, <1>3, <1>4 DEF top, own

LEMMA MacroCut ==
  ASSUME BasicInv, HeapInv, Running, RunMacro
  PROVE  LET n    == Len(stack'[Len(forest)].children)
             left == LeftAt(forest, n)
         IN  /\ forest' = CutTo(forest, n) /\ forest' \in Seq(Shelf)
             /\ nodes' = SubSeq(nodes, 1, left) /\ left \in Nat /\ left <= Len(nodes)
             /\ live' = live \ Addresses(SubSeq(nodes, left + 1, Len(nodes)))
             /\ UNCHANGED <<phase, kept, allocated, memo, fired>>
             /\ Standing(forest', stack', nodes')
  <1> DEFINE l    == Len(forest)
             n    == Len(stack'[l].children)
             left == LeftAt(forest, n)
  <1>1. /\ l \in Nat \ {0} /\ Len(stack) = l /\ top = stack[l]
        /\ forest \in Seq(Shelf) /\ forest # <<>> /\ own = forest[l]
        /\ nodes \in Tree /\ Standing(forest, stack, nodes)
    BY HeapTop
  <1>2. /\ Len(stack') = Len(stack)
        /\ \A k \in 1..(l - 1) : stack'[k].children = stack[k].children
        /\ n \in 0..Len(stack[l].children)
        /\ \A i \in 1..n : stack'[l].children[i] = stack[l].children[i]
        /\ UNCHANGED memo
    BY <1>1, MacroChildren DEF RunMacro
  <1>3. /\ forest' = CutTo(forest, n)
        /\ nodes' = SubSeq(nodes, 1, left)
        /\ live' = live \ Addresses(SubSeq(nodes, left + 1, Len(nodes)))
        /\ UNCHANGED <<phase, kept, allocated, fired>>
    BY <1>1, <1>2 DEF RunMacro, CutOwn, syntax_node_destroy, CutTo, LeftAt
  <1>4. /\ left \in Nat /\ left <= Len(nodes)
        /\ CutTo(forest, n) \in Seq(Shelf)
        /\ Standing(CutTo(forest, n), stack', SubSeq(nodes, 1, left))
    BY <1>1, <1>2, CutStands
  <1> HIDE DEF left
  <1> QED
    BY <1>2, <1>3, <1>4 DEF left

LEMMA HeapMacro ==
  ASSUME BasicInv, HeapInv, Running, RunMacro
  PROVE  HeapInv'
  <1> DEFINE n    == Len(stack'[Len(forest)].children)
             left == LeftAt(forest, n)
  <1>1. /\ nodes \in Tree /\ live \subseteq 1..allocated /\ Owns(nodes, kept, live)
    BY HeapTop
  <1>2. /\ forest' \in Seq(Shelf)
        /\ nodes' = SubSeq(nodes, 1, left) /\ left \in Nat /\ left <= Len(nodes)
        /\ live' = live \ Addresses(SubSeq(nodes, left + 1, Len(nodes)))
        /\ UNCHANGED <<phase, kept, allocated, memo>>
        /\ Standing(forest', stack', nodes')
    BY MacroCut
  <1> HIDE DEF left, n
  <1>3. Owns(SubSeq(nodes, 1, left), kept, live \ Addresses(SubSeq(nodes, left + 1, Len(nodes))))
    BY <1>1, <1>2, OwnsCut
  <1>4. nodes' \in Tree
    BY <1>1, <1>2, Prefix DEF Tree
  <1>5. TreeTypes'
    BY <1>1, <1>2, <1>4 DEF HeapInv, TreeTypes
  <1> QED
    BY <1>2, <1>3, <1>5 DEF HeapInv

(* The child_stacks are the same. *)
LEMMA SameStands ==
  ASSUME NEW fo, NEW st, NEW no, Standing(fo, st, no), NEW su, Len(su) = Len(st),
         \A k \in 1..Len(st) : su[k].children = st[k].children
  PROVE  Standing(fo, su, no)
  BY DEF Standing

LEMMA HeapMatch ==
  ASSUME BasicInv, HeapInv, Running, RunMatch
  PROVE  HeapInv'
  <1>1. /\ Len(stack) \in Nat \ {0} /\ top = stack[Len(stack)] /\ top \in Frame
        /\ top.curStart \in Nat
        /\ Standing(forest, stack, nodes)
    BY HeapTop DEF Frame
  <1>2. ASSUME NEW m, NEW n \in Nat, Terminal(m, n)
        PROVE  /\ Len(stack') = Len(stack) /\ UNCHANGED memo
               /\ \A k \in 1..Len(stack) : stack'[k].children = stack[k].children
    <2> DEFINE p == top.curStart + n
               f == [top EXCEPT !.curStart = p, !.curEnd = p]
    <2>0. stack' = WithTop(f) \/ stack' = stack
      BY <1>2 DEF Terminal
    <2>1. p \in Nat
      BY <1>1
    <2> HIDE DEF p
    <2>2. f \in Frame /\ f.children = top.children
      BY <1>1, <2>1 DEF Frame
    <2> HIDE DEF f
    <2>3. CASE stack' = WithTop(f)
      <3>1. /\ Len(stack') = Len(stack) /\ stack'[Len(stack)] = f
            /\ \A k \in 1..(Len(stack) - 1) : stack'[k] = stack[k]
        BY <2>2, <2>3, TopOnly
      <3>2. \A k \in 1..Len(stack) : k = Len(stack) \/ k \in 1..(Len(stack) - 1)
        BY <1>1
      <3>3. ASSUME NEW k \in 1..Len(stack) PROVE stack'[k].children = stack[k].children
        BY <1>1, <2>2, <3>1, <3>2
      <3> QED
        BY <1>2, <3>1, <3>3 DEF Terminal
    <2> QED
      BY <1>2, <2>0, <2>3 DEF Terminal
  <1>3. /\ Len(stack') = Len(stack) /\ UNCHANGED memo
        /\ \A k \in 1..Len(stack) : stack'[k].children = stack[k].children
    <2>1. CASE MatchString
      <3>1. Len(exp.str) \in Nat
        BY <2>1, ErrorsType, Operands DEF MatchString, Entering
      <3> QED
        BY <1>2, <2>1, <3>1 DEF MatchString
    <2>2. CASE MatchClass
      BY <1>2, <2>2 DEF MatchClass
    <2>3. CASE MatchDot
      BY <1>2, <2>3 DEF MatchDot
    <2> QED
      BY <2>1, <2>2, <2>3 DEF RunMatch, Match
  <1>4. Standing(forest, stack', nodes)
    BY <1>1, <1>3, SameStands
  <1>5. UNCHANGED <<phase, nodes, forest, kept, live, allocated>>
    BY DEF RunMatch, treeVars
  <1> QED
    BY <1>3, <1>4, <1>5 DEF HeapInv, TreeTypes

-----------------------------------------------------------------------------
(* The memo record is_memoized finds, and the tree beside it. *)
LEMMA FirstRecord ==
  ASSUME TypeOK, NEW type \in Rule, NEW start \in Nat, NEW i \in 1..Len(memo[type]),
         memo[type][i].start = start, \A j \in 1..(i - 1) : memo[type][j].start # start
  PROVE  /\ is_memoized(type, start)
         /\ MemoRecord(type, start) = memo[type][i]
         /\ MemoTree(type, start) = kept[type][i]
  <1> DEFINE M    == memo[type]
             P(k) == M[k].start = start /\ \A j \in 1..(k - 1) : M[j].start # start
             c    == CHOOSE k \in 1..Len(M) : P(k)
  <1>1. Len(M) \in Nat /\ P(i)
    BY DEF TypeOK
  <1>2. c \in 1..Len(M) /\ P(c)
    <2> HIDE DEF P
    <2> QED
      BY <1>1
  <1>3. MemoRecord(type, start) = M[c] /\ MemoTree(type, start) = kept[type][c]
    BY DEF MemoRecord, MemoTree
  <1> HIDE DEF c
  <1>4. c = i
    <2>1. ASSUME c < i PROVE FALSE
      <3>1. c \in 1..(i - 1)
        BY <1>1, <1>2, <2>1
      <3> QED
        BY <1>1, <1>2, <3>1
    <2>2. ASSUME i < c PROVE FALSE
      <3>1. i \in 1..(c - 1)
        BY <1>1, <1>2, <2>2
      <3> QED
        BY <1>1, <1>2, <3>1
    <2>3. c \in Nat /\ i \in Nat
      BY <1>1, <1>2
    <2> HIDE DEF P
    <2> QED
      BY <2>1, <2>2, <2>3
  <1> QED
    BY <1>3, <1>4 DEF is_memoized

(* The tree that is_memoized copies is the answer on record. *)
LEMMA Recalled ==
  ASSUME BasicInv, HeapInv, phase # "returned",
         NEW type \in Rule, NEW start \in Nat, is_memoized(type, start)
  PROVE  LET rec == MemoRecord(type, start)
             t   == MemoTree(type, start)
         IN  /\ rec \in Record /\ rec.start = start /\ rec.start <= rec.end
             /\ t \in Tree /\ Answer(type, rec, t)
             /\ \E i \in 1..Len(memo[type]) : rec = memo[type][i] /\ t = kept[type][i]
  <1>1. TypeOK /\ memo \in [Rule -> Seq(Record)] /\ kept \in [Rule -> Seq(Tree)]
    BY DEF BasicInv, TypeOK, HeapInv, TreeTypes
  <1>2. PICK i \in 1..Len(memo[type]) : /\ MemoRecord(type, start) = memo[type][i]
                                        /\ memo[type][i].start = start
                                        /\ \A j \in 1..(i - 1) : memo[type][j].start # start
    BY <1>1, MemoRecordFound
  <1>3. MemoTree(type, start) = kept[type][i]
    BY <1>1, <1>2, FirstRecord
  <1>4. Len(kept[type]) = Len(memo[type]) /\ Answer(type, memo[type][i], kept[type][i])
    BY <1>2 DEF HeapInv, Answers
  <1>5. memo[type][i] \in Record /\ kept[type][i] \in Tree
    BY <1>1, <1>4
  <1>6. memo[type][i].start <= memo[type][i].end
    BY DEF BasicInv, MemoInText
  <1> QED
    BY <1>2, <1>3, <1>4, <1>5, <1>6

LEMMA HeapRecall ==
  ASSUME BasicInv, HeapInv, Running, Recall
  PROVE  HeapInv'
  <1> DEFINE l     == Len(forest)
             func  == exp.func
             rec   == MemoRecord(func, top.curStart)
             t     == MemoTree(func, top.curStart)
             found == syntax_node_copy(t, allocated)
             node  == Node(func, rec.start, rec.end)
  <1>1. /\ l \in Nat \ {0} /\ Len(stack) = l /\ top = stack[l] /\ top \in Frame
        /\ forest \in Seq(Shelf) /\ forest # <<>> /\ own = forest[l]
        /\ nodes \in Tree /\ live \subseteq 1..allocated /\ allocated \in Nat
        /\ Standing(forest, stack, nodes) /\ Owns(nodes, kept, live)
    BY HeapTop
  <1>2. /\ func \in Rule /\ top.curStart \in Nat /\ is_memoized(func, top.curStart)
        /\ phase = "parsing"
    BY <1>1, ErrorsType, Operands DEF Recall, CallMemoized, Entering, Frame, InParser
  <1>3. /\ rec \in Record /\ t \in Tree /\ Answer(func, rec, t)
    BY <1>2, Recalled
  <1>4. /\ stack' = WithTop(IF rec.ok THEN AddChild(top, node) ELSE [top EXCEPT !.curEnd = rec.end])
        /\ UNCHANGED <<memo, phase, kept>>
        /\ nodes' = nodes \o found
        /\ forest' = IF found = NoTree THEN forest ELSE PushTo(forest, Len(nodes) + Len(found))
        /\ allocated' = allocated + Len(found)
        /\ live' = live \cup (allocated + 1)..(allocated + Len(found))
    BY DEF Recall, CallMemoized, Allocate, PushTo
  <1> HIDE DEF func, rec, t
  <1>5. /\ found \in Tree /\ Len(found) = Len(t) /\ (found = NoTree <=> t = NoTree)
        /\ \A i \in 1..Len(t) : Extent(found[i]) = Extent(t[i])
        /\ Once(found) /\ Addresses(found) = (allocated + 1)..(allocated + Len(t))
    BY <1>1, <1>3, Copied
  <1> HIDE DEF found
  <1>6. Len(found) \in Nat /\ Len(t) \in Nat
    BY <1>5
  <1>7. /\ Addresses(found) \cap live = {}
        /\ live' = live \cup Addresses(found) /\ live' \subseteq 1..allocated'
        /\ allocated' \in Nat
    BY <1>1, <1>4, <1>5, <1>6
  <1>8. nodes' \in Tree /\ Owns(nodes', kept, live')
    <2>1. Owns(nodes \o found, kept, live \cup Addresses(found))
      BY <1>1, <1>5, <1>7, OwnsMore
    <2>2. nodes \o found \in Tree
      BY <1>1, <1>5 DEF Tree
    <2> QED
      BY <1>4, <1>7, <2>1, <2>2
  <1>9. forest' \in Seq(Shelf) /\ Standing(forest', stack', nodes')
    <2>1. CASE rec.ok
      <3> DEFINE f == AddChild(top, node)
      <3>1. node \in Span /\ node = Extent(found[Len(found)]) /\ found # <<>>
        <4>1. node \in Span
          BY <1>2, <1>3 DEF Node, Span, Record
        <4>2. t # NoTree /\ Extent(t[Len(t)]) = node
          BY <1>3, <2>1 DEF Answer
        <4>3. Len(t) \in 1..Len(t)
          BY <1>3, <4>2 DEF Tree, NoTree
        <4> QED
          BY <1>5, <4>1, <4>2, <4>3 DEF NoTree
      <3> HIDE DEF node
      <3>2. /\ f \in Frame /\ Len(f.children) = Len(top.children) + 1
            /\ f.children[Len(top.children) + 1] = node
            /\ \A i \in 1..Len(top.children) : f.children[i] = top.children[i]
        BY <1>1, <3>1, Added
      <3>3. stack' = WithTop(f)
        BY <1>4, <2>1
      <3> HIDE DEF f
      <3>4. /\ Len(stack') = Len(stack) /\ stack'[Len(stack)] = f
            /\ \A k \in 1..(Len(stack) - 1) : stack'[k] = stack[k]
        BY <3>2, <3>3, TopOnly
      <3>5. /\ Len(stack') = Len(stack)
            /\ \A k \in 1..(Len(forest) - 1) : stack'[k].children = stack[k].children
            /\ Len(stack'[Len(forest)].children) = Len(stack[Len(forest)].children) + 1
            /\ stack'[Len(forest)].children[Len(stack[Len(forest)].children) + 1] = Extent(found[Len(found)])
            /\ \A i \in 1..Len(stack[Len(forest)].children) :
                 stack'[Len(forest)].children[i] = stack[Len(forest)].children[i]
        BY <1>1, <3>1, <3>2, <3>4
      <3>6. /\ PushTo(forest, Len(nodes) + Len(found)) \in Seq(Shelf)
            /\ Standing(PushTo(forest, Len(nodes) + Len(found)), stack', nodes \o found)
        BY <1>1, <1>5, <3>1, <3>5, PushStands
      <3>7. found # NoTree
        BY <3>1 DEF NoTree
      <3> QED
        BY <1>4, <3>6, <3>7
    <2>2. CASE ~rec.ok
      <3> DEFINE f == [top EXCEPT !.curEnd = rec.end]
      <3>1. f \in Frame /\ f.children = top.children
        BY <1>1, <1>3 DEF Frame, Record
      <3>2. stack' = WithTop(f)
        BY <1>4, <2>2
      <3> HIDE DEF f
      <3>3. /\ Len(stack') = Len(stack) /\ stack'[Len(stack)] = f
            /\ \A k \in 1..(Len(stack) - 1) : stack'[k] = stack[k]
        BY <3>1, <3>2, TopOnly
      <3>4. \A k \in 1..Len(stack) : k = Len(stack) \/ k \in 1..(Len(stack) - 1)
        BY <1>1
      <3>5. \A k \in 1..Len(stack) : stack'[k].children = stack[k].children
        BY <1>1, <3>1, <3>3, <3>4
      <3>6. found = NoTree
        BY <1>3, <1>5, <2>2 DEF Answer
      <3>7. nodes' = nodes
        BY <1>1, <1>4, <3>6 DEF NoTree, Tree
      <3>8. Standing(forest, stack', nodes)
        BY <1>1, <3>3, <3>5, SameStands
      <3> QED
        BY <1>1, <1>4, <3>6, <3>7, <3>8
    <2> QED
      BY <2>1, <2>2
  <1>10. TreeTypes'
    BY <1>4, <1>7, <1>8, <1>9 DEF HeapInv, TreeTypes
  <1> QED
    BY <1>4, <1>8, <1>9, <1>10 DEF HeapInv

LEMMA HeapCall ==
  ASSUME BasicInv, HeapInv, Running, Call
  PROVE  HeapInv'
  <1> DEFINE f == Activation(exp.func, top.curStart)
  <1>1. /\ forest \in Seq(Shelf) /\ forest # <<>> /\ stack \in Seq(Frame)
        /\ nodes \in Tree /\ top \in Frame
        /\ Standing(forest, stack, nodes)
    BY HeapTop
  <1>2. /\ stack' = Append(stack, f) /\ exp.func \in Rule /\ UNCHANGED memo
        /\ forest' = Append(forest, ChildStack(Len(nodes)))
        /\ UNCHANGED <<phase, nodes, kept, live, allocated>>
    BY ErrorsType, Operands DEF Call, CallFunction, Entering
  <1>3. f \in Frame /\ f.children = <<>>
    BY <1>1, <1>2 DEF Activation, Frame
  <1> HIDE DEF f
  <1>4. /\ Len(stack') = Len(stack) + 1 /\ stack'[Len(stack) + 1].children = <<>>
        /\ \A k \in 1..Len(stack) : stack'[k].children = stack[k].children
    BY <1>1, <1>2, <1>3, AddLast
  <1>5. forest' \in Seq(Shelf) /\ Standing(forest', stack', nodes)
    BY <1>1, <1>2, <1>4, CallStands
  <1>6. TreeTypes'
    BY <1>2, <1>5 DEF HeapInv, TreeTypes
  <1> QED
    BY <1>2, <1>5, <1>6 DEF HeapInv

-----------------------------------------------------------------------------
(* A memo map with one more record, and its tree. *)
LEMMA AnswersMore ==
  ASSUME NEW me \in [Rule -> Seq(Record)], NEW ke \in [Rule -> Seq(Tree)], Answers(me, ke),
         NEW type \in Rule, NEW rec \in Record, NEW t \in Tree, Answer(type, rec, t)
  PROVE  Answers(WithRecord(me, type, rec), [ke EXCEPT ![type] = Append(@, t)])
  <1> DEFINE w  == WithRecord(me, type, rec)
             kw == [ke EXCEPT ![type] = Append(@, t)]
             n  == Len(me[type])
  <1>1. /\ me[type] \in Seq(Record) /\ ke[type] \in Seq(Tree) /\ n \in Nat
        /\ Len(ke[type]) = n
    BY DEF Answers
  <1>2. /\ Len(Append(me[type], rec)) = n + 1 /\ Append(me[type], rec)[n + 1] = rec
        /\ \A i \in 1..n : Append(me[type], rec)[i] = me[type][i]
    BY <1>1, AddLast
  <1>3. /\ Len(Append(ke[type], t)) = n + 1 /\ Append(ke[type], t)[n + 1] = t
        /\ \A i \in 1..n : Append(ke[type], t)[i] = ke[type][i]
    BY <1>1, AddLast
  <1>4. /\ w[type] = Append(me[type], rec) /\ kw[type] = Append(ke[type], t)
        /\ \A r \in Rule : r # type => w[r] = me[r] /\ kw[r] = ke[r]
    BY DEF WithRecord
  <1> HIDE DEF w, kw
  <1>5. ASSUME NEW r \in Rule
        PROVE  /\ Len(kw[r]) = Len(w[r])
               /\ \A i \in 1..Len(kw[r]) : Answer(r, w[r][i], kw[r][i])
    <2>1. CASE r = type
      <3>1. \A i \in 1..(n + 1) : i = n + 1 \/ i \in 1..n
        BY <1>1
      <3>2. ASSUME NEW i \in 1..(n + 1) PROVE Answer(r, w[r][i], kw[r][i])
        <4>1. CASE i = n + 1
          BY <1>2, <1>3, <1>4, <2>1, <4>1
        <4>2. CASE i \in 1..n
          BY <1>1, <1>2, <1>3, <1>4, <2>1, <4>2 DEF Answers
        <4> QED
          BY <3>1, <4>1, <4>2
      <3> QED
        BY <1>2, <1>3, <1>4, <2>1, <3>2
    <2>2. CASE r # type
      BY <1>4, <2>2 DEF Answers
    <2> QED
      BY <2>1, <2>2
  <1> QED
    BY <1>5 DEF Answers, w, kw

(* The node PEG_PARSE makes, and its tree. *)
LEMMA BuiltFacts ==
  ASSUME BasicInv, HeapInv, Running
  PROVE  /\ Built \in TreeNode /\ Built.at = allocated + 1 /\ Built.acted
         /\ Built.type = top.rule /\ Built.begin = top.start /\ Built.end = top.curEnd
         /\ Extent(Built) = Node(top.rule, top.start, top.curEnd)
         /\ Len(Built.child) = Len(own.roots)
         /\ \A i \in 1..Len(own.roots) :
              /\ Built.child[i] = (Len(nodes) + 1) - own.roots[i]
              /\ own.roots[i] \in Nat /\ own.base < own.roots[i] /\ own.roots[i] <= Len(nodes)
         /\ own.base \in Nat /\ own.base <= Len(nodes) /\ Len(nodes) \in Nat
         /\ BuiltTree \in Tree /\ Len(BuiltTree) = Len(nodes) - own.base + 1
         /\ BuiltTree[Len(BuiltTree)] = Built
         /\ \A i \in 1..(Len(nodes) - own.base) : BuiltTree[i] = nodes[own.base + i]
         /\ SubSeq(nodes, 1, own.base) \o BuiltTree = Append(nodes, Built)
  <1> DEFINE h == Len(nodes)
             b == own.base
             r == own.roots
             above == h + 1
             child == [i \in 1..Len(r) |-> above - r[i]]
             low  == SubSeq(nodes, 1, b)
             high == SubSeq(nodes, b + 1, h)
  <1>1. /\ forest \in Seq(Shelf) /\ forest # <<>> /\ own = forest[Len(forest)]
        /\ nodes \in Tree /\ allocated \in Nat /\ Standing(forest, stack, nodes)
        /\ top \in Frame
    BY HeapTop
  <1>2. own \in Shelf /\ Rising(own) /\ b \in Nat /\ b <= h /\ h = Highest(own)
    BY <1>1, CallersBelow
  <1>3. h \in Nat /\ r \in Seq(Nat) /\ Len(r) \in Nat
    BY <1>1, <1>2 DEF Tree, Shelf
  <1>4. \A i \in 1..Len(r) : r[i] \in Nat /\ b < r[i] /\ r[i] <= h
    <2>1. Len(r) \in 0..Len(r)
      BY <1>3
    <2>2. \A i \in 1..Len(r) : r[i] \in Nat /\ r[i] <= h
      BY <1>2, <2>1, Heights DEF Highest
    <2> QED
      BY <1>2, <2>2 DEF Rising
  <1> HIDE DEF h, b, r
  <1>5. ASSUME NEW i \in 1..Len(r) PROVE above - r[i] \in Nat
    BY <1>3, <1>4
  <1>6. child \in Seq(Nat) /\ Len(child) = Len(r) /\ \A i \in 1..Len(r) : child[i] = above - r[i]
    <2> HIDE DEF above
    <2> QED
      BY <1>3, <1>5
  <1>7. Built = [syntax_node_create(top.rule, top.start, top.curEnd, child, allocated + 1)
                   EXCEPT !.acted = TRUE]
    BY DEF Built, h, r
  <1> HIDE DEF child
  <1>8. top.rule \in Rule /\ top.start \in Nat /\ top.curEnd \in Nat /\ allocated + 1 \in Nat
    BY <1>1 DEF Frame
  <1>9. /\ Built \in TreeNode /\ Built.at = allocated + 1 /\ Built.acted
        /\ Built.type = top.rule /\ Built.begin = top.start /\ Built.end = top.curEnd
        /\ Built.child = child
    BY <1>6, <1>7, <1>8 DEF syntax_node_create, TreeNode
  <1>10. Extent(Built) = Node(top.rule, top.start, top.curEnd)
    BY <1>9 DEF Extent
  <1>11. low \in Tree /\ Len(low) = b /\ \A i \in 1..b : low[i] = nodes[i]
    BY <1>1, <1>2, Prefix DEF Tree, h
  <1>12. high \in Tree /\ Len(high) = h - b /\ \A i \in 1..(h - b) : high[i] = nodes[b + i]
    BY <1>1, <1>2, <1>3 DEF Tree, h
  <1>13. BuiltTree = Append(high, Built)
    BY DEF BuiltTree, b, h
  <1> HIDE DEF low, high
  <1>14. /\ BuiltTree \in Tree /\ Len(BuiltTree) = h - b + 1 /\ BuiltTree[Len(BuiltTree)] = Built
         /\ \A i \in 1..(h - b) : BuiltTree[i] = nodes[b + i]
    BY <1>9, <1>12, <1>13, AddLast DEF Tree
  <1> HIDE DEF above
  <1>15. low \o BuiltTree = Append(nodes, Built)
    <2> DEFINE x == low \o BuiltTree
               y == Append(nodes, Built)
    <2>0. /\ nodes \in Seq(TreeNode) /\ Len(nodes) = h /\ Built \in TreeNode
          /\ low \in Seq(TreeNode) /\ BuiltTree \in Seq(TreeNode)
      BY <1>1, <1>9, <1>11, <1>14 DEF Tree, h
    <2>1. /\ x \in Seq(TreeNode) /\ Len(x) = b + (h - b + 1)
          /\ \A i \in 1..b : x[i] = low[i]
          /\ \A i \in 1..(h - b + 1) : x[b + i] = BuiltTree[i]
      <3>1. /\ x \in Seq(TreeNode) /\ Len(x) = Len(low) + Len(BuiltTree)
            /\ \A i \in 1..Len(low) : x[i] = low[i]
            /\ \A i \in 1..Len(BuiltTree) : x[Len(low) + i] = BuiltTree[i]
        BY <2>0
      <3> HIDE DEF x
      <3> QED
        BY <1>11, <1>14, <3>1
    <2>2. y \in Seq(TreeNode) /\ Len(y) = h + 1 /\ y[h + 1] = Built /\ \A i \in 1..h : y[i] = nodes[i]
      BY <2>0, AddLast
    <2> HIDE DEF x, y
    <2>3. Len(x) = h + 1
      BY <1>2, <1>3, <2>1
    <2>4. ASSUME NEW i \in 1..(h + 1) PROVE x[i] = y[i]
      <3>1. CASE i \in 1..b
        <4>1. i \in 1..h
          BY <1>2, <1>3, <3>1
        <4> QED
          BY <1>11, <2>1, <2>2, <3>1, <4>1
      <3>2. CASE i \in (b + 1)..h
        <4>1. i - b \in 1..(h - b) /\ i - b \in 1..(h - b + 1) /\ b + (i - b) = i /\ i \in 1..h
          BY <1>2, <1>3, <3>2
        <4> QED
          BY <1>14, <2>1, <2>2, <4>1
      <3>3. CASE i = h + 1
        <4>1. h - b + 1 \in 1..(h - b + 1) /\ b + (h - b + 1) = i
          BY <1>2, <1>3, <3>3
        <4> QED
          BY <1>14, <2>1, <2>2, <3>3, <4>1
      <3> QED
        BY <1>2, <1>3, <3>1, <3>2, <3>3
    <2>5. x = y
      BY <2>1, <2>2, <2>3, <2>4
    <2> QED
      BY <2>5 DEF x, y
  <1>16. /\ Len(Built.child) = Len(r)
         /\ \A i \in 1..Len(r) :
              Built.child[i] = (h + 1) - r[i] /\ r[i] \in Nat /\ b < r[i] /\ r[i] <= h
    <2>1. /\ Len(child) = Len(r)
          /\ \A i \in 1..Len(r) :
               child[i] = (h + 1) - r[i] /\ r[i] \in Nat /\ b < r[i] /\ r[i] <= h
      BY <1>4, <1>6 DEF above
    <2>2. Built.child = child
      BY <1>9
    <2> QED
      BY <2>1, <2>2, Zenon
  <1> QED
    BY <1>2, <1>3, <1>9, <1>10, <1>14, <1>15, <1>16 DEF h, b, r, low

(* The activation records after a return. *)
LEMMA ReturnedStack ==
  ASSUME BasicInv, Running, Len(stack) > 1, NEW f \in Frame, stack' = ReturnTo(f)
  PROVE  LET n == Len(stack) - 1
         IN  /\ n \in Nat \ {0} /\ Len(stack) = n + 1
             /\ Len(stack') = n /\ stack'[n] = f
             /\ \A k \in 1..(n - 1) : stack'[k] = stack[k]
             /\ caller = stack[n] /\ caller \in Frame
             /\ SubSeq(stack, 1, n) \in Seq(Frame) /\ Len(SubSeq(stack, 1, n)) = n
             /\ \A k \in 1..n : SubSeq(stack, 1, n)[k] = stack[k]
  <1> DEFINE n     == Len(stack) - 1
             below == SubSeq(stack, 1, n)
             t     == [below EXCEPT ![Len(below)] = f]
  <1>1. stack \in Seq(Frame)
    BY DEF BasicInv, TypeOK
  <1>2. /\ n \in Nat \ {0} /\ Len(stack) = n + 1
        /\ below \in Seq(Frame) /\ Len(below) = n /\ below # <<>>
        /\ \A k \in 1..n : below[k] = stack[k]
    BY <1>1, AllButLast
  <1>3. stack' = t
    BY <1>2 DEF ReturnTo
  <1> HIDE DEF below
  <1>4. /\ t \in Seq(Frame) /\ Len(t) = Len(below) /\ t[Len(below)] = f
        /\ \A k \in 1..Len(below) : k # Len(below) => t[k] = below[k]
    <2>1. below \in Seq(Frame) /\ below # <<>> /\ f \in Frame
      BY <1>2
    <2> QED
      BY ONLY <2>1, ReplaceLast
  <1> HIDE DEF t, n
  <1>5. ASSUME NEW k \in 1..(n - 1) PROVE stack'[k] = stack[k]
    <2>1. k \in 1..n /\ k # n
      BY <1>2
    <2> QED
      BY <1>2, <1>3, <1>4, <2>1
  <1>6. caller = stack[n] /\ caller \in Frame
    <2>1. n \in 1..Len(stack)
      BY <1>2
    <2> QED
      BY <1>1, <2>1 DEF caller, n
  <1> QED
    BY <1>2, <1>3, <1>4, <1>5, <1>6 DEF below, n

(* The memo record of a function that succeeds, and its tree. *)
LEMMA BuildKept ==
  ASSUME BasicInv, HeapInv, Running, Build
  PROVE  /\ Answers(memo', kept') /\ Owns(nodes', kept', live')
         /\ nodes' \in Tree /\ kept' \in [Rule -> Seq(Tree)] /\ nodes' = Append(nodes, Built)
         /\ allocated' \in Nat /\ live' \subseteq 1..allocated'
  <1> DEFINE copy == syntax_node_copy(BuiltTree, allocated + 1)
             m    == Len(copy)
             rec  == [start |-> top.start, end |-> top.curEnd, ok |-> TRUE,
                      children |-> top.children]
             more == live \cup {allocated + 1}
             type == top.rule
  <1>1. /\ top \in Frame /\ nodes \in Tree /\ live \subseteq 1..allocated /\ allocated \in Nat
        /\ kept \in [Rule -> Seq(Tree)] /\ Owns(nodes, kept, live)
    BY HeapTop
  <1>2. /\ Built \in TreeNode /\ Built.at = allocated + 1
        /\ Extent(Built) = Node(top.rule, top.start, top.curEnd)
        /\ BuiltTree \in Tree /\ BuiltTree # NoTree /\ BuiltTree[Len(BuiltTree)] = Built
        /\ Len(BuiltTree) \in 1..Len(BuiltTree)
    <2>1. /\ BuiltTree \in Tree /\ Len(BuiltTree) = Len(nodes) - own.base + 1
          /\ own.base \in Nat /\ own.base <= Len(nodes) /\ Len(nodes) \in Nat
      BY BuiltFacts
    <2>2. Len(BuiltTree) \in Nat /\ 0 < Len(BuiltTree)
      BY <2>1
    <2>3. BuiltTree # NoTree /\ Len(BuiltTree) \in 1..Len(BuiltTree)
      BY <2>2 DEF NoTree
    <2> QED
      BY <2>3, BuiltFacts
  <1>3. /\ memo' = WithRecord(memo, type, rec)
        /\ nodes' = Append(nodes, Built)
        /\ kept' = [kept EXCEPT ![type] = Append(@, copy)]
        /\ allocated' = allocated + (1 + m)
        /\ live' = live \cup (allocated + 1)..(allocated + (1 + m))
        /\ phase = "parsing"
    BY DEF Build, Succeed, memoize, WithRecord, Allocate, InParser
  <1>4. type \in Rule /\ rec \in Record /\ rec.ok /\ rec.start = top.start /\ rec.end = top.curEnd
    BY <1>1 DEF Frame, Record
  <1> HIDE DEF rec, type
  <1>5. /\ copy \in Tree /\ m = Len(BuiltTree) /\ copy # NoTree /\ m \in Nat
        /\ Extent(copy[m]) = Extent(Built)
        /\ Once(copy) /\ Addresses(copy) = ((allocated + 1) + 1)..((allocated + 1) + m)
    <2>1. allocated + 1 \in Nat
      BY <1>1
    <2>2. /\ copy \in Tree /\ m = Len(BuiltTree) /\ (copy = NoTree <=> BuiltTree = NoTree)
          /\ \A i \in 1..Len(BuiltTree) : Extent(copy[i]) = Extent(BuiltTree[i])
          /\ Once(copy)
          /\ Addresses(copy) = ((allocated + 1) + 1)..((allocated + 1) + Len(BuiltTree))
      BY <1>2, <2>1, Copied
    <2> HIDE DEF copy
    <2> QED
      BY <1>2, <2>2
  <1> HIDE DEF copy, m
  <1>6. /\ <<Built>> \in Tree /\ Once(<<Built>>) /\ Addresses(<<Built>>) = {allocated + 1}
        /\ nodes \o <<Built>> = Append(nodes, Built)
    BY <1>1, <1>2 DEF Tree, Once, Addresses
  <1>7. Addresses(<<Built>>) \cap live = {}
    BY <1>1, <1>6
  <1>8. nodes' \in Tree /\ Owns(nodes', kept, more)
    <2>1. Owns(nodes \o <<Built>>, kept, live \cup Addresses(<<Built>>))
      BY <1>1, <1>6, <1>7, OwnsMore
    <2>2. Append(nodes, Built) \in Tree
      BY <1>1, <1>2, AddLast DEF Tree
    <2> QED
      BY <1>3, <1>6, <2>1, <2>2
  <1>9. /\ Addresses(copy) \cap more = {}
        /\ live' = more \cup Addresses(copy)
        /\ live' \subseteq 1..allocated' /\ allocated' \in Nat
    <2> DEFINE ac == allocated
               aw == allocated'
               lw == live'
               ad == Addresses(copy)
    <2>1. /\ ac \in Nat /\ m \in Nat /\ aw = ac + (1 + m) /\ live \subseteq 1..ac
          /\ lw = live \cup (ac + 1)..(ac + (1 + m))
          /\ ad = ((ac + 1) + 1)..((ac + 1) + m)
      BY <1>1, <1>3, <1>5
    <2> HIDE DEF ac, aw, lw, ad
    <2>2. more = live \cup {ac + 1}
      BY DEF ac
    <2> HIDE DEF more
    <2>3. aw \in Nat /\ lw \subseteq 1..aw
      BY <2>1
    <2>4. ad \cap more = {}
      BY <2>1, <2>2
    <2>5. (ac + 1)..(ac + (1 + m)) = {ac + 1} \cup ad
      BY <2>1
    <2>6. lw = more \cup ad
      BY <2>1, <2>2, <2>5
    <2> QED
      BY <2>3, <2>4, <2>6 DEF ac, aw, lw, ad
  <1> HIDE DEF more
  <1>10. kept' \in [Rule -> Seq(Tree)] /\ Owns(nodes', kept', live')
    <2> DEFINE kw == [kept EXCEPT ![type] = Append(@, copy)]
    <2>1. kw \in [Rule -> Seq(Tree)] /\ Owns(nodes', kw, more \cup Addresses(copy))
      BY <1>1, <1>4, <1>5, <1>8, <1>9, OwnsKept
    <2>2. kept' = kw
      BY <1>3
    <2> HIDE DEF kw
    <2> QED
      BY <1>9, <2>1, <2>2
  <1>11. Answers(memo', kept')
    <2>1. memo \in [Rule -> Seq(Record)] /\ Answers(memo, kept)
      BY <1>3 DEF BasicInv, TypeOK, HeapInv
    <2>2. Answer(type, rec, copy)
      BY <1>2, <1>4, <1>5 DEF Answer, m, type
    <2>3. Answers(WithRecord(memo, type, rec), [kept EXCEPT ![type] = Append(@, copy)])
      BY <1>1, <1>4, <1>5, <2>1, <2>2, AnswersMore
    <2> QED
      BY <1>3, <2>3
  <1> QED
    BY <1>3, <1>8, <1>9, <1>10, <1>11 DEF m, copy

(* The new tree is the last one of the caller. *)
LEMMA BuildStands ==
  ASSUME BasicInv, HeapInv, Running, Build
  PROVE  forest' \in Seq(Shelf) /\ Standing(forest', stack', nodes')
  <1> DEFINE n    == Len(forest) - 1
             fo   == SubSeq(forest, 1, n)
             st   == SubSeq(stack, 1, n)
             no   == SubSeq(nodes, 1, own.base)
             node == Node(top.rule, top.start, top.curEnd)
  <1>1. /\ Len(stack) \in Nat \ {0} /\ Len(forest) = Len(stack)
        /\ forest \in Seq(Shelf) /\ own = forest[Len(forest)] /\ top \in Frame
        /\ nodes \in Tree /\ Standing(forest, stack, nodes)
    BY HeapTop
  <1>2. CASE Len(stack) > 1
    <2> DEFINE f == AddChild(caller, node)
    <2>1. /\ stack' = ReturnTo(f)
          /\ forest' = [fo EXCEPT ![n] = PushTree(@, Len(nodes) + 1)]
          /\ nodes' = Append(nodes, Built)
      <3>1. n # 0
        <4>1. Len(forest) \in Nat /\ Len(forest) > 1
          BY <1>1, <1>2
        <4> QED
          BY <4>1, OneLess
      <3> QED
        BY <1>2, <3>1 DEF Build, Succeed, ToCaller
    <2>2. node \in Span
      BY <1>1 DEF Node, Span, Frame
    <2>3. caller \in Frame
      BY <1>1, <1>2 DEF caller, BasicInv, TypeOK
    <2> HIDE DEF node
    <2>4. /\ f \in Frame /\ Len(f.children) = Len(caller.children) + 1
          /\ f.children[Len(caller.children) + 1] = node
          /\ \A i \in 1..Len(caller.children) : f.children[i] = caller.children[i]
      BY <2>2, <2>3, Added
    <2> HIDE DEF f
    <2>5. /\ n \in Nat \ {0} /\ Len(stack) = n + 1
          /\ Len(stack') = n /\ stack'[n] = f
          /\ \A k \in 1..(n - 1) : stack'[k] = stack[k]
          /\ caller = stack[n]
          /\ Len(st) = n /\ \A k \in 1..n : st[k] = stack[k]
      BY <1>1, <1>2, <2>1, <2>4, ReturnedStack
    <2>6. fo \in Seq(Shelf) /\ Len(fo) = n /\ fo # <<>> /\ Standing(fo, st, no)
      <3>1. Len(forest) > 1 /\ Len(st) = Len(stack) - 1
        BY <1>1, <1>2, <2>5
      <3>2. \A k \in 1..(Len(stack) - 1) : st[k].children = stack[k].children
        BY <2>5
      <3> HIDE DEF st
      <3>3. /\ SubSeq(forest, 1, Len(forest) - 1) \in Seq(Shelf)
            /\ Len(SubSeq(forest, 1, Len(forest) - 1)) = Len(forest) - 1
            /\ SubSeq(forest, 1, Len(forest) - 1) # <<>>
            /\ Standing(SubSeq(forest, 1, Len(forest) - 1), st,
                         SubSeq(nodes, 1, forest[Len(forest)].base))
        BY <1>1, <3>1, <3>2, ReturnStands
      <3> QED
        BY <1>1, <3>3
    <2>7. /\ Extent(Built) = node /\ BuiltTree \in Tree
          /\ Len(BuiltTree) = Len(nodes) - own.base + 1
          /\ BuiltTree[Len(BuiltTree)] = Built
          /\ own.base \in Nat /\ own.base <= Len(nodes) /\ Len(nodes) \in Nat
          /\ no \o BuiltTree = Append(nodes, Built)
      BY BuiltFacts DEF node
    <2>8. no \in Tree /\ Len(no) = own.base
      BY <1>1, <2>7, Prefix DEF Tree
    <2> HIDE DEF no
    <2>9. BuiltTree # <<>> /\ Len(no) + Len(BuiltTree) = Len(nodes) + 1
      BY <2>7, <2>8
    <2>10. st[n] = caller /\ n \in 1..n
      BY <2>5
    <2> HIDE DEF fo, st, n
    <2>11. /\ Len(stack') = Len(st)
           /\ \A k \in 1..(Len(fo) - 1) : stack'[k].children = st[k].children
           /\ Len(stack'[Len(fo)].children) = Len(st[Len(fo)].children) + 1
           /\ stack'[Len(fo)].children[Len(st[Len(fo)].children) + 1] = Extent(BuiltTree[Len(BuiltTree)])
           /\ \A i \in 1..Len(st[Len(fo)].children) :
                stack'[Len(fo)].children[i] = st[Len(fo)].children[i]
      <3>1. \A k \in 1..(n - 1) : k \in 1..n
        BY <2>5
      <3> QED
        BY <2>4, <2>5, <2>6, <2>7, <2>10, <3>1
    <2>12. /\ PushTo(fo, Len(no) + Len(BuiltTree)) \in Seq(Shelf)
           /\ Standing(PushTo(fo, Len(no) + Len(BuiltTree)), stack', no \o BuiltTree)
      BY <2>6, <2>7, <2>8, <2>9, <2>11, PushStands
    <2>13. forest' = PushTo(fo, Len(no) + Len(BuiltTree))
      BY <2>1, <2>6, <2>9 DEF PushTo
    <2> QED
      BY <2>1, <2>7, <2>12, <2>13
  <1>3. CASE Len(stack) = 1
    <2>1. stack' = <<>> /\ forest' = <<>>
      BY <1>1, <1>3 DEF Build, Succeed, ToCaller
    <2> QED
      BY <2>1 DEF Standing
  <1> QED
    BY <1>1, <1>2, <1>3

LEMMA HeapBuild ==
  ASSUME BasicInv, HeapInv, Running, Build
  PROVE  HeapInv'
  <1>1. /\ Answers(memo', kept') /\ Owns(nodes', kept', live')
        /\ nodes' \in Tree /\ kept' \in [Rule -> Seq(Tree)]
        /\ allocated' \in Nat /\ live' \subseteq 1..allocated'
    BY BuildKept
  <1>2. forest' \in Seq(Shelf) /\ Standing(forest', stack', nodes')
    BY BuildStands
  <1>3. phase' = "parsing"
    BY DEF Build, InParser
  <1> QED
    BY <1>1, <1>2, <1>3 DEF HeapInv, TreeTypes

(* A function that fails has no children, so there is nothing to lose.     *)
LEMMA FailedAlone ==
  ASSUME BasicInv, TreeInv, HeapInv, Running, Fail
  PROVE  own.roots = <<>> /\ own.base = Len(nodes) /\ SubSeq(nodes, 1, own.base) = nodes
  <1>1. /\ Len(stack) \in Nat \ {0} /\ Len(forest) = Len(stack) /\ top = stack[Len(stack)]
        /\ forest \in Seq(Shelf) /\ forest # <<>> /\ own = forest[Len(forest)]
        /\ nodes \in Tree /\ Standing(forest, stack, nodes)
    BY HeapTop
  <1>2. own \in Shelf /\ Holds(nodes, own, top.children) /\ Len(nodes) = Highest(own)
    BY <1>1, CallersBelow
  <1>3. Len(top.children) = 0
    <2>1. ~res /\ top.ctl = <<>> /\ Settled(top)
      BY DEF Fail, Returning, TreeInv, SettledInv
    <2> QED
      BY <2>1 DEF Settled
  <1>4. own.roots = <<>> /\ Len(own.roots) = 0
    <2>1. Len(own.roots) = 0 /\ own.roots \in Seq(Nat)
      BY <1>2, <1>3 DEF Holds, Shelf
    <2> QED
      BY <2>1
  <1>5. own.base = Len(nodes)
    BY <1>2, <1>4 DEF Highest, Height
  <1>6. SubSeq(nodes, 1, Len(nodes)) = nodes
    BY <1>1 DEF Tree
  <1> QED
    BY <1>4, <1>5, <1>6

LEMMA HeapDrop ==
  ASSUME BasicInv, TreeInv, HeapInv, Running, Drop
  PROVE  HeapInv'
  <1> DEFINE rec  == [start |-> top.start, end |-> top.start, ok |-> FALSE, children |-> <<>>]
             type == top.rule
             n    == Len(stack) - 1
  <1>1. /\ Len(stack) \in Nat \ {0} /\ Len(forest) = Len(stack) /\ top \in Frame
        /\ forest \in Seq(Shelf) /\ forest # <<>> /\ own = forest[Len(forest)]
        /\ nodes \in Tree /\ kept \in [Rule -> Seq(Tree)]
        /\ Standing(forest, stack, nodes) /\ Owns(nodes, kept, live)
    BY HeapTop
  <1>2. Fail
    BY DEF Drop
  <1>3. SubSeq(nodes, 1, own.base) = nodes
    BY <1>2, FailedAlone
  <1>4. /\ memo' = WithRecord(memo, type, rec)
        /\ nodes' = nodes
        /\ kept' = [kept EXCEPT ![type] = Append(@, NoTree)]
        /\ forest' = SubSeq(forest, 1, Len(forest) - 1)
        /\ phase = "parsing" /\ UNCHANGED <<phase, live, allocated>>
    BY <1>3 DEF Drop, Fail, memoize, WithRecord, InParser
  <1>5. type \in Rule /\ rec \in Record /\ ~rec.ok
    BY <1>1 DEF Frame, Record
  <1> HIDE DEF rec, type
  <1>6. NoTree \in Tree /\ Once(NoTree) /\ Addresses(NoTree) = {}
    BY DEF NoTree, Tree, Once, Addresses
  <1>7. kept' \in [Rule -> Seq(Tree)] /\ Owns(nodes', kept', live')
    <2> DEFINE kw == [kept EXCEPT ![type] = Append(@, NoTree)]
    <2>1. Addresses(NoTree) \cap live = {} /\ live \cup Addresses(NoTree) = live
      BY <1>6
    <2>2. kw \in [Rule -> Seq(Tree)] /\ Owns(nodes, kw, live \cup Addresses(NoTree))
      BY <1>1, <1>5, <1>6, <2>1, OwnsKept
    <2>3. kept' = kw
      BY <1>4
    <2> HIDE DEF kw
    <2> QED
      BY <1>4, <2>1, <2>2, <2>3
  <1>8. Answers(memo', kept')
    <2>1. memo \in [Rule -> Seq(Record)] /\ Answers(memo, kept)
      BY <1>4 DEF BasicInv, TypeOK, HeapInv
    <2>2. Answer(type, rec, NoTree)
      BY <1>5 DEF Answer
    <2>3. Answers(WithRecord(memo, type, rec), [kept EXCEPT ![type] = Append(@, NoTree)])
      BY <1>1, <1>5, <1>6, <2>1, <2>2, AnswersMore
    <2> QED
      BY <1>4, <2>3
  <1>9. forest' \in Seq(Shelf) /\ Standing(forest', stack', nodes')
    <2>1. CASE Len(stack) > 1
      <3>1. stack' = ReturnTo(caller)
        BY <1>2, <2>1 DEF Fail
      <3>2. caller \in Frame
        BY <1>1, <2>1 DEF caller, BasicInv, TypeOK
      <3>3. /\ n \in Nat \ {0} /\ Len(stack) = n + 1
            /\ Len(stack') = n /\ stack'[n] = caller
            /\ \A k \in 1..(n - 1) : stack'[k] = stack[k]
            /\ caller = stack[n]
        BY <2>1, <3>1, <3>2, ReturnedStack
      <3>4. n \in Nat
        BY <3>3
      <3> HIDE DEF n
      <3>5. \A k \in 1..n : k = n \/ k \in 1..(n - 1)
        BY <3>4
      <3>6. \A k \in 1..n : stack'[k].children = stack[k].children
        BY <3>3, <3>5
      <3>7. Len(forest) > 1 /\ Len(stack') = Len(stack) - 1 /\ n = Len(stack) - 1
        BY <1>1, <2>1, <3>3 DEF n
      <3>8. /\ SubSeq(forest, 1, Len(forest) - 1) \in Seq(Shelf)
            /\ Standing(SubSeq(forest, 1, Len(forest) - 1), stack',
                         SubSeq(nodes, 1, forest[Len(forest)].base))
        BY <1>1, <3>6, <3>7, ReturnStands
      <3> QED
        BY <1>1, <1>3, <1>4, <3>8
    <2>2. CASE Len(stack) = 1
      <3>1. stack' = <<>>
        BY <1>2, <2>2 DEF Fail
      <3>2. forest' = <<>>
        BY <1>1, <1>4, <2>2
      <3> QED
        BY <3>1, <3>2 DEF Standing
    <2> QED
      BY <1>1, <2>1, <2>2
  <1>10. TreeTypes'
    BY <1>1, <1>4, <1>7, <1>9 DEF HeapInv, TreeTypes
  <1> QED
    BY <1>7, <1>8, <1>9, <1>10 DEF HeapInv

(* X_parse before and after. *)
LEMMA HeapOpen ==
  ASSUME HeapInv, OpenFile \/ NoFile
  PROVE  HeapInv'
  <1>1. UNCHANGED <<vars, nodes, forest, kept, live, allocated>> /\ phase = "start"
    BY DEF OpenFile, NoFile
  <1>2. phase' \in {"start", "parsing", "returned"}
    BY DEF OpenFile, NoFile
  <1> QED
    BY <1>1, <1>2 DEF HeapInv, TreeTypes, vars

LEMMA HeapReturn ==
  ASSUME HeapInv, ReturnTree
  PROVE  HeapInv'
  <1> DEFINE none == [type \in Rule |-> <<>>]
  <1>1. /\ UNCHANGED <<vars, nodes, forest, allocated>> /\ phase' = "returned"
        /\ kept' = none /\ live' = live \ KeptAddresses(kept)
    BY DEF ReturnTree, AddressesKept, KeptAddresses
  <1>2. Owns(nodes, kept, live)
    BY DEF HeapInv
  <1>3. Owns(nodes, none, live \ KeptAddresses(kept))
    BY <1>2, OwnsAlone
  <1>4. none \in [Rule -> Seq(Tree)]
    OBVIOUS
  <1> HIDE DEF none
  <1>5. TreeTypes'
    BY <1>1, <1>4 DEF HeapInv, TreeTypes
  <1> QED
    BY <1>1, <1>3, <1>5 DEF HeapInv, vars

LEMMA HeapStutter ==
  ASSUME HeapInv, UNCHANGED <<stack, memo, treeVars>>
  PROVE  HeapInv'
  BY DEF HeapInv, TreeTypes, treeVars

LEMMA HeapInit == GInit => HeapInv
  <1> SUFFICES ASSUME GInit PROVE HeapInv
    OBVIOUS
  <1> DEFINE f == ChildStack(0)
             a == Activation(grammar.start, 0)
  <1>1. /\ phase = "start" /\ nodes = <<>> /\ forest = <<f>> /\ stack = <<a>>
        /\ kept = [type \in Rule |-> <<>>] /\ memo = [type \in Rule |-> <<>>]
        /\ live = {} /\ allocated = 0
    BY DEF GInit, Init
  <1>2. f \in Shelf /\ f.base = 0 /\ f.roots = <<>>
    BY DEF ChildStack, Shelf
  <1>3. a.children = <<>>
    BY DEF Activation
  <1> HIDE DEF f, a
  <1>4. TreeTypes
    BY <1>1, <1>2 DEF TreeTypes, Tree
  <1>5. Highest(f) = 0 /\ Rising(f) /\ Holds(nodes, f, a.children)
    BY <1>2, <1>3 DEF Highest, Height, Rising, Holds
  <1>6. /\ Len(forest) = 1 /\ Len(stack) = 1 /\ forest[1] = f /\ stack[1] = a /\ Len(nodes) = 0
    BY <1>1
  <1>7. Standing(forest, stack, nodes)
    <2>1. \A k \in 1..1 : k = 1 /\ ~(k > 1) /\ \A j \in 1..(k - 1) : FALSE
      OBVIOUS
    <2> QED
      BY <1>2, <1>5, <1>6, <2>1 DEF Standing
  <1>8. Answers(memo, kept)
    BY <1>1 DEF Answers
  <1>9. Owns(nodes, kept, live)
    <2>1. \A r \in Rule : Len(kept[r]) = 0 /\ \A i : i \notin 1..Len(kept[r])
      BY <1>1
    <2>2. \A x : x \notin KeptAddresses(kept)
      BY <2>1, KeptMember
    <2>3. Addresses(nodes) = {} /\ Once(nodes)
      BY <1>1 DEF Addresses, Once
    <2> QED
      BY <1>1, <2>1, <2>2, <2>3 DEF Owns
  <1> QED
    BY <1>4, <1>7, <1>8, <1>9 DEF HeapInv

LEMMA StepRunning ==
  RunMacro \/ RunMatch \/ Recall \/ Call \/ GiveUp \/ Build \/ Drop => Running
  <1>1. Macro => Running
    BY DEF Macro, EnterMacro, SeqRight, SeqEnd, DisjRight, DisjEnd, StarAgain, StarEnd,
           PlusAgain, PlusEnd, QuesEnd, BangEnd, HideEnd, AmpEnd, Leaving
  <1>2. Match => Running
    BY DEF Match, MatchString, MatchClass, MatchDot, Entering
  <1>3. CallMemoized \/ CallFunction \/ Exhaust \/ Succeed \/ Fail => Running
    BY DEF CallMemoized, CallFunction, Exhaust, Succeed, Fail, Entering, Returning
  <1> QED
    BY <1>1, <1>2, <1>3 DEF RunMacro, RunMatch, Recall, Call, GiveUp, Build, Drop

LEMMA HeapNext == BasicInv /\ TreeInv /\ HeapInv /\ [GNext]_gvars => HeapInv'
  <1> SUFFICES ASSUME BasicInv, TreeInv, HeapInv, [GNext]_gvars
               PROVE  HeapInv'
    OBVIOUS
  <1>1. CASE OpenFile \/ NoFile
    BY <1>1, HeapOpen
  <1>2. CASE ReturnTree
    BY <1>2, HeapReturn
  <1>3. CASE RunMacro
    BY <1>3, StepRunning, HeapMacro
  <1>4. CASE RunMatch
    BY <1>4, StepRunning, HeapMatch
  <1>5. CASE Recall
    BY <1>5, StepRunning, HeapRecall
  <1>6. CASE Call
    BY <1>6, StepRunning, HeapCall
  <1>7. CASE GiveUp
    <2>1. UNCHANGED <<stack, memo, treeVars>>
      BY <1>7 DEF GiveUp, Exhaust
    <2> QED
      BY <2>1, HeapStutter
  <1>8. CASE Build
    BY <1>8, StepRunning, HeapBuild
  <1>9. CASE Drop
    BY <1>9, StepRunning, HeapDrop
  <1>10. CASE UNCHANGED gvars
    <2>1. UNCHANGED <<stack, memo, treeVars>>
      BY <1>10 DEF gvars, vars
    <2> QED
      BY <2>1, HeapStutter
  <1> QED
    BY <1>1, <1>2, <1>3, <1>4, <1>5, <1>6, <1>7, <1>8, <1>9, <1>10 DEF GNext

LEMMA HeapCorrect == GSpec => []HeapInv
  <1>1. GSpec => []BasicInv
    BY GeneratedIsParser, BasicCorrect, PTL
  <1>2. GSpec => []TreeInv
    BY GeneratedIsParser, TreeCorrect, PTL
  <1> QED
    BY <1>1, <1>2, HeapInit, HeapNext, PTL DEF GSpec

(* Every node is in one place and freed once, however often it was copied  *)
(* into the memo map and out of it, in every grammar and on every text.    *)
THEOREM NodesAccountedCorrect == GSpec => []NodesAccounted
  <1>1. HeapInv => NodesAccounted
    BY AccountedIsOwns DEF HeapInv
  <1> QED
    BY <1>1, HeapCorrect, PTL

-----------------------------------------------------------------------------
(* The function called first is the first one on the stack until the parse *)
(* is over, and there is no tree before.                                   *)
Started == Running => stack[1].rule = grammar.start /\ stack[1].start = 0 /\ root = NoNode

LEMMA OneOrMore ==
  ASSUME NEW n \in Nat \ {0}
  PROVE  (1 = n \/ 1 \in 1..(n - 1)) /\ (~(n > 1) => n = 1)
  OBVIOUS

LEMMA FirstSame ==
  ASSUME BasicInv, Running, NEW f \in Frame, f.rule = top.rule, f.start = top.start,
         stack' = WithTop(f)
  PROVE  stack'[1].rule = stack[1].rule /\ stack'[1].start = stack[1].start
  <1>1. Len(stack) \in Nat \ {0} /\ top = stack[Len(stack)]
    BY TopGood DEF top
  <1>2. /\ stack'[Len(stack)] = f
        /\ \A k \in 1..(Len(stack) - 1) : stack'[k] = stack[k]
    BY TopOnly
  <1>3. 1 = Len(stack) \/ 1 \in 1..(Len(stack) - 1)
    BY <1>1, OneOrMore
  <1> QED
    BY <1>1, <1>2, <1>3

LEMMA FirstReturned ==
  ASSUME BasicInv, Running, Len(stack) > 1, NEW f \in Frame,
         f.rule = caller.rule, f.start = caller.start, stack' = ReturnTo(f)
  PROVE  stack'[1].rule = stack[1].rule /\ stack'[1].start = stack[1].start
  <1> DEFINE n == Len(stack) - 1
  <1>1. /\ n \in Nat \ {0} /\ stack'[n] = f /\ caller = stack[n]
        /\ \A k \in 1..(n - 1) : stack'[k] = stack[k]
    BY ReturnedStack
  <1> HIDE DEF n
  <1>2. 1 = n \/ 1 \in 1..(n - 1)
    BY <1>1
  <1> QED
    BY <1>1, <1>2

LEMMA MatchFrame ==
  ASSUME BasicInv, Running, Match
  PROVE  /\ stack' = stack
            \/ \E f \in Frame : f.rule = top.rule /\ f.start = top.start /\ stack' = WithTop(f)
         /\ UNCHANGED <<grammar, root, status>>
  <1>1. ASSUME NEW m, NEW n \in Nat, Terminal(m, n)
        PROVE  /\ stack' = stack
                  \/ \E f \in Frame : f.rule = top.rule /\ f.start = top.start /\ stack' = WithTop(f)
               /\ UNCHANGED <<grammar, root, status>>
    <2> DEFINE p == top.curStart + n
               f == [top EXCEPT !.curStart = p, !.curEnd = p]
    <2>1. stack' = WithTop(f) \/ stack' = stack
      BY <1>1 DEF Terminal
    <2>2. top \in Frame /\ p \in Nat
      <3>1. top \in Frame
        BY TopGood DEF Good
      <3>2. top.curStart \in Nat
        BY <3>1 DEF Frame
      <3> QED
        BY <3>1, <3>2
    <2> HIDE DEF p
    <2>3. f \in Frame /\ f.rule = top.rule /\ f.start = top.start
      BY <2>2 DEF Frame
    <2> HIDE DEF f
    <2> QED
      BY <1>1, <2>1, <2>3 DEF Terminal
  <1>2. CASE MatchString
    <2>1. Len(exp.str) \in Nat
      BY <1>2, ErrorsType, Operands DEF MatchString, Entering
    <2> QED
      BY <1>1, <1>2, <2>1 DEF MatchString
  <1>3. CASE MatchClass
    BY <1>1, <1>3 DEF MatchClass
  <1>4. CASE MatchDot
    BY <1>1, <1>4 DEF MatchDot
  <1> QED
    BY <1>2, <1>3, <1>4 DEF Match

LEMMA MemoizedFrame ==
  ASSUME BasicInv, Running, CallMemoized
  PROVE  /\ \E f \in Frame : f.rule = top.rule /\ f.start = top.start /\ stack' = WithTop(f)
         /\ UNCHANGED <<grammar, root, status>>
  <1> DEFINE func == exp.func
             rec  == MemoRecord(func, top.curStart)
             node == Node(func, rec.start, rec.end)
  <1>1. /\ top \in Frame /\ func \in Rule /\ is_memoized(func, top.curStart)
        /\ memo \in [Rule -> Seq(Record)]
    BY TopGood, ErrorsType, Operands DEF Good, CallMemoized, Entering, BasicInv, TypeOK
  <1>2. rec \in Record
    <2>1. TypeOK
      BY DEF BasicInv
    <2>2. top.curStart \in Nat
      BY <1>1 DEF Frame
    <2>3. PICK i \in 1..Len(memo[func]) : rec = memo[func][i]
      BY <1>1, <2>1, <2>2, MemoRecordFound
    <2> QED
      BY <1>1, <2>3
  <1>3. stack' = WithTop(IF rec.ok THEN AddChild(top, node) ELSE [top EXCEPT !.curEnd = rec.end])
    BY DEF CallMemoized
  <1>4. UNCHANGED <<grammar, root, status>>
    BY DEF CallMemoized
  <1> HIDE DEF func, rec
  <1>5. node \in Span
    BY <1>1, <1>2 DEF Node, Span, Record
  <1> HIDE DEF node
  <1>6. /\ AddChild(top, node) \in Frame /\ AddChild(top, node).rule = top.rule
        /\ AddChild(top, node).start = top.start
    BY <1>1, <1>5, Added
  <1>7. /\ [top EXCEPT !.curEnd = rec.end] \in Frame
        /\ [top EXCEPT !.curEnd = rec.end].rule = top.rule
        /\ [top EXCEPT !.curEnd = rec.end].start = top.start
    BY <1>1, <1>2 DEF Frame, Record
  <1> QED
    BY <1>3, <1>4, <1>6, <1>7

LEMMA StartedInit == Init => Started
  <1> SUFFICES ASSUME Init PROVE Started
    OBVIOUS
  <1>1. stack[1] = Activation(grammar.start, 0) /\ root = NoNode
    BY DEF Init
  <1> QED
    BY <1>1 DEF Started, Activation

LEMMA StartedNext == BasicInv /\ Started /\ [Next]_vars => Started'
  <1> SUFFICES ASSUME BasicInv, Started, [Next]_vars
               PROVE  Started'
    OBVIOUS
  <1>1. ASSUME Running, stack'[1].rule = stack[1].rule, stack'[1].start = stack[1].start,
               UNCHANGED <<grammar, root>>
        PROVE  Started'
    BY <1>1 DEF Started
  <1>2. CASE Macro
    <2>1. Running
      BY <1>2 DEF Macro, EnterMacro, SeqRight, SeqEnd, DisjRight, DisjEnd, StarAgain, StarEnd,
             PlusAgain, PlusEnd, QuesEnd, BangEnd, HideEnd, AmpEnd, Leaving
    <2>2. /\ \A k \in 1..(Len(stack) - 1) : stack'[k] = stack[k]
          /\ stack'[Len(stack)].rule = top.rule /\ stack'[Len(stack)].start = top.start
          /\ UNCHANGED <<grammar, root>>
      BY <1>2, <2>1, MacroChildren
    <2>3. 1 = Len(stack) \/ 1 \in 1..(Len(stack) - 1)
      BY <2>1, TopGood, OneOrMore
    <2> QED
      BY <1>1, <2>1, <2>2, <2>3 DEF top
  <1>3. CASE Match
    <2>1. Running
      BY <1>3 DEF Match, MatchString, MatchClass, MatchDot, Entering
    <2> QED
      BY <1>1, <1>3, <2>1, MatchFrame, FirstSame
  <1>4. CASE CallMemoized
    <2>1. Running
      BY <1>4 DEF CallMemoized, Entering
    <2> QED
      BY <1>1, <1>4, <2>1, MemoizedFrame, FirstSame
  <1>5. CASE CallFunction
    <2>1. Running /\ stack \in Seq(Frame) /\ Len(stack) \in Nat \ {0}
      BY <1>5, TopGood DEF CallFunction, Entering, BasicInv, TypeOK
    <2>2. /\ stack' = Append(stack, Activation(exp.func, top.curStart))
          /\ UNCHANGED <<grammar, root>>
      BY <1>5 DEF CallFunction
    <2>3. stack'[1] = stack[1]
      BY <2>1, <2>2
    <2> QED
      BY <1>1, <2>1, <2>2, <2>3
  <1>6. CASE Exhaust
    BY <1>6 DEF Exhaust, Started, Running
  <1>7. CASE Succeed
    <2>1. Running
      BY <1>7 DEF Succeed, Returning
    <2>2. CASE Len(stack) > 1
      <3> DEFINE node == Node(top.rule, top.start, top.curEnd)
      <3>1. stack' = ReturnTo(AddChild(caller, node)) /\ UNCHANGED <<grammar, root>>
        BY <1>7, <2>2 DEF Succeed
      <3>2. node \in Span
        BY <2>1, TopGood DEF Good, Node, Span, Frame
      <3> HIDE DEF node
      <3>3. caller \in Frame
        BY <2>2, <2>1, TopGood DEF caller, BasicInv, TypeOK
      <3>4. /\ AddChild(caller, node) \in Frame /\ AddChild(caller, node).rule = caller.rule
            /\ AddChild(caller, node).start = caller.start
        BY <3>2, <3>3, Added
      <3> QED
        BY <1>1, <2>1, <2>2, <3>1, <3>4, FirstReturned
    <2>3. CASE ~(Len(stack) > 1)
      BY <1>7, <2>3 DEF Succeed, Started, Running
    <2> QED
      BY <2>2, <2>3
  <1>8. CASE Fail
    <2>1. Running
      BY <1>8 DEF Fail, Returning
    <2>2. CASE Len(stack) > 1
      <3>1. stack' = ReturnTo(caller) /\ UNCHANGED <<grammar, root>>
        BY <1>8, <2>2 DEF Fail
      <3>2. caller \in Frame
        BY <2>2, <2>1, TopGood DEF caller, BasicInv, TypeOK
      <3> QED
        BY <1>1, <2>1, <2>2, <3>1, <3>2, FirstReturned
    <2>3. CASE ~(Len(stack) > 1)
      BY <1>8, <2>3 DEF Fail, Started, Running
    <2> QED
      BY <2>2, <2>3
  <1>9. CASE UNCHANGED vars
    BY <1>9 DEF vars, Started, Running
  <1> QED
    BY <1>2, <1>3, <1>4, <1>5, <1>6, <1>7, <1>8, <1>9 DEF Next, Step, Function, Terminated

LEMMA StartedCorrect == Spec => []Started
  <1>1. Spec => []BasicInv
    BY BasicCorrect
  <1> QED
    BY <1>1, StartedInit, StartedNext, PTL DEF Spec

(* What X_parse has to hand to its caller, before it does.                 *)
RootStands ==
  IF root = NoNode THEN nodes = NoTree
  ELSE /\ nodes # NoTree
       /\ Extent(nodes[Len(nodes)]) = Node(grammar.start, 0, root.end)
       /\ nodes[Len(nodes)].acted

AnswerInv ==
  /\ phase = "start" => status = "running" /\ outputs = {} /\ nodes = NoTree /\ live = {}
  /\ phase = "parsing" => outputs = {"input_buf", "error_list"}
  /\ status = "done" => RootStands
  /\ AnswerComplete

LEMMA AnswerInit == GInit => AnswerInv
  <1> SUFFICES ASSUME GInit PROVE AnswerInv
    OBVIOUS
  <1>1. /\ phase = "start" /\ status = "running" /\ outputs = {} /\ nodes = NoTree /\ live = {}
    BY DEF GInit, Init, NoTree
  <1> QED
    BY <1>1 DEF AnswerInv, AnswerComplete

LEMMA AnswerBuild ==
  ASSUME BasicInv, HeapInv, Started, Running, Build, status' = "done"
  PROVE  RootStands'
  <1>1. Len(stack) \in Nat \ {0} /\ top = stack[Len(stack)] /\ nodes \in Tree /\ top \in Frame
    BY HeapTop
  <1>2. ~(Len(stack) > 1)
    BY DEF Build, Succeed, Running
  <1>3. top.rule = grammar.start /\ top.start = 0
    <2>1. Len(stack) = 1
      BY <1>1, <1>2, OneOrMore
    <2> QED
      BY <1>1, <2>1 DEF Started
  <1>4. root' = Node(top.rule, top.start, top.curEnd) /\ grammar' = grammar /\ nodes' = Append(nodes, Built)
    BY <1>2 DEF Build, Succeed
  <1>5. Built \in TreeNode /\ Built.acted /\ Extent(Built) = Node(top.rule, top.start, top.curEnd)
    BY BuiltFacts
  <1>6. nodes' # NoTree /\ nodes'[Len(nodes')] = Built
    <2>1. nodes \in Seq(TreeNode)
      BY <1>1 DEF Tree
    <2> QED
      BY <1>4, <1>5, <2>1, AddLast DEF NoTree
  <1>7. root'.end = top.curEnd
    BY <1>4 DEF Node
  <1>8. root' # NoNode
    BY <1>4 DEF Node, NoNode
  <1> QED
    BY <1>3, <1>4, <1>5, <1>6, <1>7, <1>8 DEF RootStands

LEMMA AnswerDrop ==
  ASSUME BasicInv, TreeInv, HeapInv, Started, Running, Drop, status' = "done"
  PROVE  RootStands'
  <1>1. /\ Len(stack) \in Nat \ {0} /\ Len(forest) = Len(stack) /\ own = forest[Len(forest)]
        /\ nodes \in Tree /\ forest # <<>> /\ Standing(forest, stack, nodes)
    BY HeapTop
  <1>2. Fail
    BY DEF Drop
  <1>3. ~(Len(stack) > 1)
    BY <1>2 DEF Fail, Running
  <1>4. own.base = 0
    <2>1. Len(forest) = 1
      BY <1>1, <1>3
    <2> QED
      BY <1>1, <2>1 DEF Standing
  <1>5. nodes' = nodes /\ Len(nodes) = 0
    BY <1>2, <1>4, FailedAlone DEF Drop
  <1>6. nodes' = NoTree
    BY <1>1, <1>5 DEF Tree, NoTree
  <1>7. root' = NoNode
    BY <1>2 DEF Fail, Started
  <1> QED
    BY <1>6, <1>7 DEF RootStands

LEMMA AnswerNext ==
  BasicInv /\ TreeInv /\ HeapInv /\ HeapInv' /\ Started /\ AnswerInv /\ [GNext]_gvars => AnswerInv'
  <1> SUFFICES ASSUME BasicInv, TreeInv, HeapInv, HeapInv', Started, AnswerInv, [GNext]_gvars
               PROVE  AnswerInv'
    OBVIOUS
  <1>1. CASE OpenFile
    BY <1>1 DEF OpenFile, AnswerInv, AnswerComplete, vars
  <1>2. CASE NoFile
    <2>1. /\ phase' = "returned" /\ outputs' = {} /\ nodes' = NoTree /\ live' = {}
          /\ status' = "running"
      BY <1>2 DEF NoFile, AnswerInv, vars
    <2> QED
      BY <2>1 DEF AnswerInv, AnswerComplete
  <1>3. CASE ReturnTree
    <2>1. /\ phase' = "returned" /\ outputs' = {"input_buf", "error_list", "parse_tree"}
          /\ status' = status /\ root' = root /\ nodes' = nodes /\ grammar' = grammar /\ RootStands
      BY <1>3 DEF ReturnTree, InParser, AnswerInv, vars
    <2>2. live' = Addresses(nodes')
      <3>1. live' = Addresses(nodes') \cup KeptAddresses(kept')
        BY DEF HeapInv, Owns
      <3>2. \A r \in Rule : \A i : i \notin 1..Len(kept'[r])
        BY <1>3 DEF ReturnTree
      <3>3. \A x : x \notin KeptAddresses(kept')
        BY <3>2, KeptMember
      <3> QED
        BY <3>1, <3>3
    <2> QED
      BY <2>1, <2>2 DEF AnswerInv, AnswerComplete, RootStands
  <1>4. ASSUME InParser, phase' = phase, outputs' = outputs, status' = "done" => RootStands'
        PROVE  AnswerInv'
    BY <1>4 DEF InParser, AnswerInv, AnswerComplete
  <1>5. CASE RunMacro \/ RunMatch \/ Recall \/ Call \/ GiveUp
    <2>1. InParser /\ phase' = phase /\ outputs' = outputs
      BY <1>5 DEF RunMacro, RunMatch, Recall, Call, GiveUp, treeVars
    <2>2. Running
      BY <1>5, StepRunning
    <2>3. status' # "done"
      <3>1. CASE RunMacro
        BY <2>2, <3>1, MacroChildren DEF RunMacro, Running
      <3>2. CASE RunMatch
        BY <2>2, <3>2, MatchFrame DEF RunMatch, Running
      <3>3. CASE Recall
        BY <2>2, <3>3 DEF Recall, CallMemoized, Running
      <3>4. CASE Call
        BY <2>2, <3>4 DEF Call, CallFunction, Running
      <3>5. CASE GiveUp
        BY <3>5 DEF GiveUp, Exhaust
      <3> QED
        BY <1>5, <3>1, <3>2, <3>3, <3>4, <3>5
    <2> QED
      BY <1>4, <2>1, <2>3
  <1>6. CASE Build
    <2>1. InParser /\ phase' = phase /\ outputs' = outputs
      BY <1>6 DEF Build
    <2> QED
      BY <1>4, <1>6, <2>1, StepRunning, AnswerBuild
  <1>7. CASE Drop
    <2>1. InParser /\ phase' = phase /\ outputs' = outputs
      BY <1>7 DEF Drop
    <2> QED
      BY <1>4, <1>7, <2>1, StepRunning, AnswerDrop
  <1>8. CASE UNCHANGED gvars
    BY <1>8 DEF gvars, vars, treeVars, AnswerInv, AnswerComplete, RootStands
  <1> QED
    BY <1>1, <1>2, <1>3, <1>5, <1>6, <1>7, <1>8 DEF GNext

(* The caller of X_parse gets nothing, or all of the answer: a tree of the *)
(* start rule from the beginning of the text that every action has seen,   *)
(* or no tree, and no other node is left.                                  *)
THEOREM AnswerCompleteCorrect == GSpec => []AnswerComplete
  <1>1. GSpec => []BasicInv
    BY GeneratedIsParser, BasicCorrect, PTL
  <1>2. GSpec => []TreeInv
    BY GeneratedIsParser, TreeCorrect, PTL
  <1>3. GSpec => []Started
    BY GeneratedIsParser, StartedCorrect, PTL
  <1>4. GSpec => []AnswerInv
    BY <1>1, <1>2, <1>3, HeapCorrect, AnswerInit, AnswerNext, PTL DEF GSpec
  <1>5. AnswerInv => AnswerComplete
    BY DEF AnswerInv
  <1> QED
    BY <1>4, <1>5, PTL

-----------------------------------------------------------------------------
(* What is in the trees.  A node, known by its extent x and the extents of *)
(* its children, is the one on record first, and its action has run once,  *)
(* after those of its children.                                            *)
Pair(x) == <<x.type, x.begin>>

Recorded1st(me, x, below) ==
  \E k \in 1..Len(me[x.type]) :
    /\ me[x.type][k] = [start |-> x.begin, end |-> x.end, ok |-> TRUE, children |-> below]
    /\ \A j \in 1..(k - 1) : me[x.type][j].start # x.begin

FiredOnce(fi, x, below) ==
  \E i \in 1..Len(fi) :
    /\ fi[i] = Pair(x)
    /\ \A j \in 1..Len(fi) : fi[j] = Pair(x) => j = i
    /\ \A c \in 1..Len(below) :
         /\ \E j \in 1..Len(fi) : fi[j] = Pair(below[c])
         /\ \A j \in 1..Len(fi) : fi[j] = Pair(below[c]) => j < i

Inside(t, i) == \A c \in 1..Len(t[i].child) : 0 < t[i].child[c] /\ t[i].child[c] < i
Below(t, i)  == [c \in 1..Len(t[i].child) |-> Extent(t[i - t[i].child[c]])]

ProperAt(me, fi, t, i) ==
  /\ Inside(t, i)
  /\ Recorded1st(me, Extent(t[i]), Below(t, i))
  /\ FiredOnce(fi, Extent(t[i]), Below(t, i))

Proper(me, fi, t) == \A i \in 1..Len(t) : ProperAt(me, fi, t, i)

(* No action has run for a node that is not on record. *)
FiredKnown(me, fi) ==
  /\ fi \in Seq(Rule \X Nat)
  /\ \A i \in 1..Len(fi) : \E k \in 1..Len(me[fi[i][1]]) : me[fi[i][1]][k].start = fi[i][2]

(* No node has a child on another shelf. *)
Bases(fo) == {fo[k].base : k \in 1..Len(fo)}

Bounded(bs, no) ==
  \A b \in bs : \A i \in 1..Len(no) :
    b < i => \A c \in 1..Len(no[i].child) : no[i].child[c] < i - b

ProperInv ==
  /\ Proper(memo, fired, nodes)
  /\ \A r \in Rule : \A n \in 1..Len(kept[r]) : Proper(memo, fired, kept[r][n])
  /\ Bounded(Bases(forest), nodes)
  /\ FiredKnown(memo, fired)

-----------------------------------------------------------------------------
(* A node has its children with it when a tree is moved. *)
LEMMA SamePlace ==
  ASSUME NEW s \in Tree, NEW t \in Tree, NEW i \in 1..Len(s), NEW k \in 1..Len(t),
         NEW d \in Int, k = i + d,
         Inside(s, i), Extent(t[k]) = Extent(s[i]), t[k].child = s[i].child,
         \A c \in 1..Len(s[i].child) : s[i].child[c] < k,
         \A j \in 1..Len(s) : \A h \in 1..Len(t) : h = j + d => Extent(t[h]) = Extent(s[j])
  PROVE  Inside(t, k) /\ Below(t, k) = Below(s, i)
  <1> DEFINE ch == s[i].child
  <1>1. ch \in Seq(Nat) /\ Len(ch) \in Nat
    <2>1. s[i] \in TreeNode
      BY DEF Tree
    <2> QED
      BY <2>1 DEF TreeNode
  <1>2. i \in Nat /\ k \in Nat /\ Len(s) \in Nat /\ Len(t) \in Nat
    BY DEF Tree
  <1>3. ASSUME NEW c \in 1..Len(ch)
        PROVE  /\ 0 < ch[c] /\ ch[c] < k
               /\ Extent(t[k - ch[c]]) = Extent(s[i - ch[c]])
    <2> DEFINE x == ch[c]
    <2>1. x \in Nat /\ 0 < x /\ x < i /\ x < k
      BY <1>1 DEF Inside
    <2> HIDE DEF x, ch
    <2>2. i - x \in 1..Len(s) /\ k - x \in 1..Len(t) /\ k - x = (i - x) + d
      BY <1>2, <2>1
    <2>3. Extent(t[k - x]) = Extent(s[i - x])
      BY <2>2
    <2> QED
      BY <2>1, <2>3 DEF x
  <1>4. t[k].child = ch
    OBVIOUS
  <1> HIDE DEF ch
  <1>5. Inside(t, k)
    BY <1>3, <1>4 DEF Inside
  <1>6. Below(t, k) = [c \in 1..Len(ch) |-> Extent(t[k - ch[c]])]
    BY <1>4 DEF Below
  <1>7. Below(s, i) = [c \in 1..Len(ch) |-> Extent(s[i - ch[c]])]
    BY DEF Below, ch
  <1>8. Below(t, k) = Below(s, i)
    BY <1>3, <1>6, <1>7
  <1> QED
    BY <1>5, <1>8

LEMMA ProperPlace ==
  ASSUME NEW me, NEW fi,
         NEW s \in Tree, NEW t \in Tree, NEW i \in 1..Len(s), NEW k \in 1..Len(t),
         NEW d \in Int, k = i + d,
         ProperAt(me, fi, s, i), Extent(t[k]) = Extent(s[i]), t[k].child = s[i].child,
         \A c \in 1..Len(s[i].child) : s[i].child[c] < k,
         \A j \in 1..Len(s) : \A h \in 1..Len(t) : h = j + d => Extent(t[h]) = Extent(s[j])
  PROVE  ProperAt(me, fi, t, k)
  <1>1. Inside(s, i)
    BY DEF ProperAt
  <1>2. Inside(t, k) /\ Below(t, k) = Below(s, i)
    BY <1>1, SamePlace
  <1> QED
    BY <1>2 DEF ProperAt

LEMMA ProperHere ==
  ASSUME NEW me, NEW fi,
         NEW s \in Tree, NEW t \in Tree, NEW i \in 1..Len(s), i \in 1..Len(t),
         ProperAt(me, fi, s, i), t[i].child = s[i].child,
         \A j \in 1..Len(s) : j \in 1..Len(t) => Extent(t[j]) = Extent(s[j])
  PROVE  ProperAt(me, fi, t, i)
  <1>1. i = i + 0 /\ 0 \in Int
    BY DEF Tree
  <1>2. \A c \in 1..Len(s[i].child) : s[i].child[c] < i
    BY DEF ProperAt, Inside
  <1>3. \A j \in 1..Len(s) : \A h \in 1..Len(t) : h = j + 0 => Extent(t[h]) = Extent(s[j])
    BY DEF Tree
  <1>4. Extent(t[i]) = Extent(s[i])
    OBVIOUS
  <1> QED
    BY <1>1, <1>2, <1>3, <1>4, ProperPlace

LEMMA ProperPrefix ==
  ASSUME NEW me, NEW fi, NEW t \in Tree, Proper(me, fi, t), NEW n \in Nat, n <= Len(t)
  PROVE  Proper(me, fi, SubSeq(t, 1, n))
  <1> DEFINE s == SubSeq(t, 1, n)
  <1>1. s \in Tree /\ Len(s) = n /\ \A i \in 1..n : s[i] = t[i]
    BY Prefix DEF Tree
  <1> HIDE DEF s
  <1>2. ASSUME NEW i \in 1..n PROVE ProperAt(me, fi, s, i)
    <2>1. i \in 1..Len(t)
      BY DEF Tree
    <2>2. ProperAt(me, fi, t, i)
      BY <2>1 DEF Proper
    <2> QED
      BY <1>1, <2>1, <2>2, ProperHere
  <1> QED
    BY <1>1, <1>2 DEF Proper, s

LEMMA ProperJoin ==
  ASSUME NEW me, NEW fi, NEW s \in Tree, NEW t \in Tree, Proper(me, fi, s), Proper(me, fi, t)
  PROVE  Proper(me, fi, s \o t)
  <1> DEFINE u == s \o t
             n == Len(s)
             m == Len(t)
  <1>1. n \in Nat /\ m \in Nat /\ u \in Tree /\ Len(u) = n + m
    BY DEF Tree
  <1>2. /\ \A i \in 1..n : u[i] = s[i]
        /\ \A i \in 1..m : u[n + i] = t[i]
    BY DEF Tree
  <1> HIDE DEF u
  <1>3. ASSUME NEW i \in 1..n PROVE ProperAt(me, fi, u, i)
    <2>1. i \in 1..Len(u)
      BY <1>1
    <2>2. ProperAt(me, fi, s, i)
      BY DEF Proper
    <2> QED
      BY <1>1, <1>2, <2>1, <2>2, ProperHere
  <1>4. ASSUME NEW i \in 1..m PROVE ProperAt(me, fi, u, n + i)
    <2>1. n + i \in 1..Len(u) /\ n + i = i + n /\ n \in Int /\ i \in Nat
      BY <1>1
    <2>2. ProperAt(me, fi, t, i)
      BY DEF Proper
    <2>3. ASSUME NEW c \in 1..Len(t[i].child) PROVE t[i].child[c] < n + i
      <3> DEFINE x == t[i].child[c]
      <3>1. x < i
        BY <2>2 DEF ProperAt, Inside
      <3>2. x \in Nat
        <4>1. t[i] \in TreeNode
          BY DEF Tree
        <4>2. t[i].child \in Seq(Nat)
          BY <4>1 DEF TreeNode
        <4> QED
          BY <4>2
      <3> HIDE DEF x
      <3>3. x < n + i
        BY <1>1, <2>1, <3>1, <3>2
      <3> QED
        BY <3>3 DEF x
    <2>4. ASSUME NEW j \in 1..Len(t), NEW h \in 1..Len(u), h = j + n
          PROVE  Extent(u[h]) = Extent(t[j])
      <3>1. h = n + j
        BY <1>1, <2>4
      <3> QED
        BY <1>2, <3>1
    <2>5. Extent(u[n + i]) = Extent(t[i]) /\ u[n + i].child = t[i].child
      BY <1>2
    <2> HIDE DEF n
    <2> QED
      BY <1>1, <2>1, <2>2, <2>3, <2>4, <2>5, ProperPlace
  <1>5. \A i \in 1..(n + m) : i \in 1..n \/ \E j \in 1..m : i = n + j
    <2>1. ASSUME NEW i \in 1..(n + m), i \notin 1..n PROVE \E j \in 1..m : i = n + j
      <3>1. i - n \in 1..m /\ i = n + (i - n)
        BY <1>1, <2>1
      <3> QED
        BY <3>1
    <2> QED
      BY <2>1
  <1> HIDE DEF n, m
  <1>6. ASSUME NEW i \in 1..(n + m) PROVE ProperAt(me, fi, u, i)
    BY <1>3, <1>4, <1>5
  <1> QED
    BY <1>1, <1>6 DEF Proper, u

LEMMA ProperCopy ==
  ASSUME NEW me, NEW fi, NEW s \in Tree, NEW t \in Tree, Proper(me, fi, s), Len(t) = Len(s),
         \A i \in 1..Len(s) : Extent(t[i]) = Extent(s[i]) /\ t[i].child = s[i].child
  PROVE  Proper(me, fi, t)
  <1>1. ASSUME NEW i \in 1..Len(s) PROVE ProperAt(me, fi, t, i)
    <2>1. ProperAt(me, fi, s, i)
      BY DEF Proper
    <2> QED
      BY <2>1, ProperHere
  <1> QED
    BY <1>1 DEF Proper

-----------------------------------------------------------------------------
(* One more memo record, and one more action that has run. *)
LEMMA RecordGrows ==
  ASSUME NEW me \in [Rule -> Seq(Record)], NEW type \in Rule, NEW rec \in Record, NEW r \in Rule
  PROVE  LET w == WithRecord(me, type, rec)
         IN  /\ \A i \in 1..Len(me[r]) : i \in 1..Len(w[r]) /\ w[r][i] = me[r][i]
             /\ Len(me[type]) \in Nat /\ Len(me[type]) + 1 \in 1..Len(w[type])
             /\ w[type][Len(me[type]) + 1] = rec
  <1> DEFINE w == WithRecord(me, type, rec)
             n == Len(me[type])
             c == Append(me[type], rec)
  <1>1. me[type] \in Seq(Record) /\ n \in Nat
    OBVIOUS
  <1>2. Len(c) = n + 1 /\ c[n + 1] = rec /\ \A i \in 1..n : c[i] = me[type][i]
    BY <1>1, AddLast
  <1>3. w[type] = c /\ (r # type => w[r] = me[r])
    BY DEF WithRecord
  <1> HIDE DEF w, c
  <1>4. n + 1 \in 1..(n + 1) /\ \A i \in 1..n : i \in 1..(n + 1)
    BY <1>1
  <1> QED
    BY <1>1, <1>2, <1>3, <1>4 DEF w

LEMMA RecordedMore ==
  ASSUME NEW me \in [Rule -> Seq(Record)], NEW type \in Rule, NEW rec \in Record,
         NEW x \in Span, NEW below, Recorded1st(me, x, below)
  PROVE  Recorded1st(WithRecord(me, type, rec), x, below)
  <1> DEFINE w == WithRecord(me, type, rec)
  <1>1. x.type \in Rule /\ Len(me[x.type]) \in Nat
    BY DEF Span
  <1>2. PICK k \in 1..Len(me[x.type]) :
          /\ me[x.type][k] = [start |-> x.begin, end |-> x.end, ok |-> TRUE, children |-> below]
          /\ \A j \in 1..(k - 1) : me[x.type][j].start # x.begin
    BY DEF Recorded1st
  <1>3. \A i \in 1..Len(me[x.type]) : i \in 1..Len(w[x.type]) /\ w[x.type][i] = me[x.type][i]
    BY <1>1, RecordGrows
  <1> HIDE DEF w
  <1>4. \A j \in 1..(k - 1) : j \in 1..Len(me[x.type])
    BY <1>1
  <1>5. Recorded1st(w, x, below)
    BY <1>2, <1>3, <1>4 DEF Recorded1st
  <1> QED
    BY <1>5 DEF w

LEMMA RecordedNew ==
  ASSUME NEW me \in [Rule -> Seq(Record)], NEW x \in Span, NEW below \in Seq(Span),
         \A k \in 1..Len(me[x.type]) : me[x.type][k].start # x.begin
  PROVE  LET rec == [start |-> x.begin, end |-> x.end, ok |-> TRUE, children |-> below]
         IN  Recorded1st(WithRecord(me, x.type, rec), x, below)
  <1> DEFINE rec  == [start |-> x.begin, end |-> x.end, ok |-> TRUE, children |-> below]
             w    == WithRecord(me, x.type, rec)
             n    == Len(me[x.type])
  <1>1. x.type \in Rule /\ rec \in Record
    BY DEF Span, Record
  <1> HIDE DEF rec
  <1>2. /\ \A i \in 1..n : i \in 1..Len(w[x.type]) /\ w[x.type][i] = me[x.type][i]
        /\ n \in Nat /\ n + 1 \in 1..Len(w[x.type]) /\ w[x.type][n + 1] = rec
    BY <1>1, RecordGrows
  <1> HIDE DEF w, n
  <1>3. ASSUME NEW j \in 1..((n + 1) - 1) PROVE w[x.type][j].start # x.begin
    <2>1. j \in 1..n
      BY <1>2
    <2> QED
      BY <1>2, <2>1 DEF n
  <1>4. Recorded1st(w, x, below)
    <2> DEFINE m == n + 1
    <2>1. m \in 1..Len(w[x.type]) /\ w[x.type][m] = rec
      BY <1>2
    <2>2. \A j \in 1..(m - 1) : w[x.type][j].start # x.begin
      BY <1>3
    <2> HIDE DEF m
    <2> QED
      BY <2>1, <2>2 DEF Recorded1st, rec
  <1> QED
    BY <1>4 DEF w, rec

LEMMA KnownMore ==
  ASSUME NEW me \in [Rule -> Seq(Record)], NEW type \in Rule, NEW rec \in Record,
         NEW fi, FiredKnown(me, fi)
  PROVE  FiredKnown(WithRecord(me, type, rec), fi)
  <1> DEFINE w == WithRecord(me, type, rec)
  <1>1. ASSUME NEW i \in 1..Len(fi) PROVE \E k \in 1..Len(w[fi[i][1]]) : w[fi[i][1]][k].start = fi[i][2]
    <2>1. fi[i][1] \in Rule
      BY DEF FiredKnown
    <2>2. PICK k \in 1..Len(me[fi[i][1]]) : me[fi[i][1]][k].start = fi[i][2]
      BY DEF FiredKnown
    <2>3. \A j \in 1..Len(me[fi[i][1]]) : j \in 1..Len(w[fi[i][1]]) /\ w[fi[i][1]][j] = me[fi[i][1]][j]
      BY <2>1, RecordGrows
    <2> QED
      BY <2>2, <2>3
  <1> HIDE DEF w
  <1>2. FiredKnown(w, fi)
    BY <1>1 DEF FiredKnown
  <1> QED
    BY <1>2 DEF w

LEMMA KnownFired ==
  ASSUME NEW me \in [Rule -> Seq(Record)], NEW type \in Rule, NEW rec \in Record,
         NEW fi, FiredKnown(me, fi)
  PROVE  FiredKnown(WithRecord(me, type, rec), Append(fi, <<type, rec.start>>))
  <1> DEFINE w == WithRecord(me, type, rec)
             p == <<type, rec.start>>
             g == Append(fi, p)
             n == Len(fi)
  <1>1. p \in Rule \X Nat /\ p[1] = type /\ p[2] = rec.start
    BY DEF Record
  <1>2. fi \in Seq(Rule \X Nat) /\ n \in Nat
    BY DEF FiredKnown
  <1> HIDE DEF p
  <1>3. g \in Seq(Rule \X Nat) /\ Len(g) = n + 1 /\ g[n + 1] = p /\ \A i \in 1..n : g[i] = fi[i]
    BY <1>1, <1>2, AddLast
  <1> HIDE DEF g
  <1>4. FiredKnown(w, fi)
    BY KnownMore
  <1>5. \E k \in 1..Len(w[type]) : w[type][k].start = rec.start
    BY RecordGrows
  <1> HIDE DEF w
  <1>6. ASSUME NEW i \in 1..(n + 1) PROVE \E k \in 1..Len(w[g[i][1]]) : w[g[i][1]][k].start = g[i][2]
    <2>1. CASE i = n + 1
      BY <1>1, <1>3, <1>5, <2>1
    <2>2. CASE i \in 1..n
      BY <1>3, <1>4, <2>2 DEF FiredKnown
    <2>3. i = n + 1 \/ i \in 1..n
      BY <1>2
    <2> QED
      BY <2>1, <2>2, <2>3
  <1>7. FiredKnown(w, g)
    BY <1>3, <1>6 DEF FiredKnown
  <1> QED
    BY <1>7 DEF w, g, p

(* What is not on record has not fired. *)
LEMMA NotFired ==
  ASSUME NEW me, NEW fi, FiredKnown(me, fi), NEW type, NEW start,
         \A k \in 1..Len(me[type]) : me[type][k].start # start
  PROVE  \A i \in 1..Len(fi) : fi[i] # <<type, start>>
  <1> SUFFICES ASSUME NEW i \in 1..Len(fi), fi[i] = <<type, start>> PROVE FALSE
    OBVIOUS
  <1>1. fi[i][1] = type /\ fi[i][2] = start
    OBVIOUS
  <1>2. \E k \in 1..Len(me[fi[i][1]]) : me[fi[i][1]][k].start = fi[i][2]
    BY DEF FiredKnown
  <1> QED
    BY <1>1, <1>2

LEMMA FiredMore ==
  ASSUME NEW Q, NEW fi \in Seq(Q), NEW x, NEW below, FiredOnce(fi, x, below),
         NEW p \in Q, \A i \in 1..Len(fi) : fi[i] # p
  PROVE  FiredOnce(Append(fi, p), x, below)
  <1> DEFINE g == Append(fi, p)
             n == Len(fi)
  <1>1. n \in Nat
    OBVIOUS
  <1>2. Len(g) = n + 1 /\ g[n + 1] = p /\ \A i \in 1..n : g[i] = fi[i]
    BY AddLast
  <1> HIDE DEF g
  <1>3. \A i \in 1..(n + 1) : i = n + 1 \/ i \in 1..n
    BY <1>1
  <1>4. \A i \in 1..n : i \in 1..(n + 1)
    BY <1>1
  <1> HIDE DEF n
  <1>5. PICK i \in 1..n :
          /\ fi[i] = Pair(x)
          /\ \A j \in 1..n : fi[j] = Pair(x) => j = i
          /\ \A c \in 1..Len(below) :
               /\ \E j \in 1..n : fi[j] = Pair(below[c])
               /\ \A j \in 1..n : fi[j] = Pair(below[c]) => j < i
    BY DEF FiredOnce, n
  <1>6. g[i] = Pair(x) /\ i \in 1..(n + 1)
    BY <1>2, <1>4, <1>5
  <1>7. \A j \in 1..n : fi[j] # p
    BY DEF n
  <1>8. ASSUME NEW j \in 1..(n + 1), g[j] = Pair(x) PROVE j = i
    BY <1>2, <1>3, <1>5, <1>7, <1>8
  <1>9. ASSUME NEW c \in 1..Len(below)
        PROVE  /\ \E j \in 1..(n + 1) : g[j] = Pair(below[c])
               /\ \A j \in 1..(n + 1) : g[j] = Pair(below[c]) => j < i
    <2>1. PICK h \in 1..n : fi[h] = Pair(below[c])
      BY <1>5
    <2>2. g[h] = Pair(below[c]) /\ h \in 1..(n + 1)
      BY <1>2, <1>4, <2>1
    <2>3. ASSUME NEW j \in 1..(n + 1), g[j] = Pair(below[c]) PROVE j < i
      <3>1. j # n + 1
        BY <1>2, <1>7, <2>1, <2>3
      <3>2. j \in 1..n /\ fi[j] = Pair(below[c])
        BY <1>2, <1>3, <2>3, <3>1
      <3> QED
        BY <1>5, <3>2
    <2> QED
      BY <2>2, <2>3
  <1>10. FiredOnce(g, x, below)
    BY <1>2, <1>6, <1>8, <1>9 DEF FiredOnce
  <1> QED
    BY <1>10 DEF g

LEMMA FiredNew ==
  ASSUME NEW Q, NEW fi \in Seq(Q), NEW x, NEW below, Pair(x) \in Q,
         \A i \in 1..Len(fi) : fi[i] # Pair(x),
         \A c \in 1..Len(below) : \E j \in 1..Len(fi) : fi[j] = Pair(below[c])
  PROVE  FiredOnce(Append(fi, Pair(x)), x, below)
  <1> DEFINE p == Pair(x)
             g == Append(fi, p)
             n == Len(fi)
  <1>1. n \in Nat
    OBVIOUS
  <1>0. p \in Q
    OBVIOUS
  <1> HIDE DEF p
  <1>2. Len(g) = n + 1 /\ g[n + 1] = p /\ \A i \in 1..n : g[i] = fi[i]
    BY <1>0, AddLast
  <1> HIDE DEF g
  <1>3. \A i \in 1..(n + 1) : i = n + 1 \/ (i \in 1..n /\ i < n + 1)
    BY <1>1
  <1>4. n + 1 \in 1..(n + 1) /\ \A i \in 1..n : i \in 1..(n + 1)
    BY <1>1
  <1>5. \A i \in 1..n : fi[i] # p
    BY DEF p
  <1> HIDE DEF n
  <1>6. ASSUME NEW j \in 1..(n + 1), g[j] = p PROVE j = n + 1
    BY <1>2, <1>3, <1>5, <1>6
  <1>7. ASSUME NEW c \in 1..Len(below)
        PROVE  /\ \E j \in 1..(n + 1) : g[j] = Pair(below[c])
               /\ \A j \in 1..(n + 1) : g[j] = Pair(below[c]) => j < n + 1
    <2>1. PICK h \in 1..n : fi[h] = Pair(below[c])
      BY DEF n
    <2>2. g[h] = Pair(below[c]) /\ h \in 1..(n + 1)
      BY <1>2, <1>4, <2>1
    <2>3. ASSUME NEW j \in 1..(n + 1), g[j] = Pair(below[c]) PROVE j < n + 1
      <3>1. j # n + 1
        BY <1>2, <1>5, <2>1, <2>3
      <3> QED
        BY <1>3, <3>1
    <2> QED
      BY <2>2, <2>3
  <1>8. FiredOnce(g, x, below)
    <2> DEFINE m == n + 1
    <2>1. /\ m \in 1..m /\ Len(g) = m /\ g[m] = Pair(x)
          /\ \A j \in 1..m : g[j] = Pair(x) => j = m
          /\ \A c \in 1..Len(below) : /\ \E j \in 1..m : g[j] = Pair(below[c])
                                     /\ \A j \in 1..m : g[j] = Pair(below[c]) => j < m
      BY <1>2, <1>4, <1>6, <1>7 DEF p
    <2> HIDE DEF m
    <2> QED
      BY <2>1 DEF FiredOnce
  <1> QED
    BY <1>8 DEF g, p

(* The extents of a tree. *)
LEMMA ExtentSpan ==
  ASSUME NEW t \in Tree, NEW i \in 1..Len(t)
  PROVE  Extent(t[i]) \in Span /\ t[i].child \in Seq(Nat)
  <1>1. t[i] \in TreeNode
    BY DEF Tree
  <1> QED
    BY <1>1 DEF TreeNode, Extent, Node, Span

LEMMA ProperRecord ==
  ASSUME NEW me \in [Rule -> Seq(Record)], NEW fi, NEW t \in Tree, Proper(me, fi, t),
         NEW type \in Rule, NEW rec \in Record
  PROVE  Proper(WithRecord(me, type, rec), fi, t)
  <1>1. ASSUME NEW i \in 1..Len(t) PROVE ProperAt(WithRecord(me, type, rec), fi, t, i)
    <2>1. ProperAt(me, fi, t, i) /\ Extent(t[i]) \in Span
      BY ExtentSpan DEF Proper
    <2>2. Recorded1st(me, Extent(t[i]), Below(t, i))
      BY <2>1 DEF ProperAt
    <2>3. Recorded1st(WithRecord(me, type, rec), Extent(t[i]), Below(t, i))
      BY <2>1, <2>2, RecordedMore
    <2> QED
      BY <2>1, <2>3 DEF ProperAt
  <1> QED
    BY <1>1 DEF Proper

LEMMA ProperFired ==
  ASSUME NEW Q, NEW me, NEW fi \in Seq(Q), NEW t, Proper(me, fi, t),
         NEW p \in Q, \A i \in 1..Len(fi) : fi[i] # p
  PROVE  Proper(me, Append(fi, p), t)
  <1>1. ASSUME NEW i \in 1..Len(t) PROVE ProperAt(me, Append(fi, p), t, i)
    <2>1. ProperAt(me, fi, t, i)
      BY DEF Proper
    <2>2. FiredOnce(fi, Extent(t[i]), Below(t, i))
      BY <2>1 DEF ProperAt
    <2>3. FiredOnce(Append(fi, p), Extent(t[i]), Below(t, i))
      BY <2>2, FiredMore
    <2> QED
      BY <2>1, <2>3 DEF ProperAt
  <1> QED
    BY <1>1 DEF Proper

-----------------------------------------------------------------------------
(* Where the shelves begin. *)
LEMMA BaseBelow ==
  ASSUME NEW fo \in Seq(Shelf), NEW st, NEW no \in Tree, Standing(fo, st, no), fo # <<>>,
         NEW b \in Bases(fo)
  PROVE  LET last == fo[Len(fo)]
         IN  b \in Nat /\ b <= last.base /\ last.base \in Nat /\ last.base <= Len(no)
  <1> DEFINE l == Len(fo)
  <1>1. l \in Nat \ {0} /\ l \in 1..l
    OBVIOUS
  <1>2. fo[l].base \in Nat /\ fo[l].base <= Len(no)
    BY CallersBelow
  <1>3. PICK k \in 1..l : b = fo[k].base
    BY DEF Bases
  <1>4. fo[k] \in Shelf /\ b \in Nat /\ Rising(fo[k])
    <2>1. fo[k] \in Shelf
      OBVIOUS
    <2>2. b \in Nat
      BY <1>3, <2>1 DEF Shelf
    <2> QED
      BY <2>1, <2>2 DEF Standing
  <1>5. b <= Highest(fo[k]) /\ Highest(fo[k]) \in Nat
    BY <1>3, <1>4, Heights
  <1>6. k = l \/ k \in 1..(l - 1)
    BY <1>1
  <1>7. k \in 1..(l - 1) => Highest(fo[k]) <= fo[l].base
    BY <1>1 DEF Standing
  <1> HIDE DEF l
  <1>8. CASE k = l
    BY <1>2, <1>3, <1>4, <1>8 DEF l
  <1>9. CASE k \in 1..(l - 1)
    BY <1>2, <1>4, <1>5, <1>7, <1>9 DEF l
  <1> QED
    BY <1>6, <1>8, <1>9

LEMMA SameBases ==
  ASSUME NEW fo, NEW fp, Len(fp) = Len(fo), \A k \in 1..Len(fo) : fp[k].base = fo[k].base
  PROVE  Bases(fp) = Bases(fo)
  BY DEF Bases

LEMMA TopBases ==
  ASSUME NEW fo \in Seq(Shelf), fo # <<>>, NEW g \in Shelf, g.base = fo[Len(fo)].base
  PROVE  Bases([fo EXCEPT ![Len(fo)] = g]) = Bases(fo)
  <1> DEFINE fp == [fo EXCEPT ![Len(fo)] = g]
  <1>1. Len(fp) = Len(fo) /\ fp[Len(fo)] = g /\ \A k \in 1..Len(fo) : k # Len(fo) => fp[k] = fo[k]
    BY ReplaceLast
  <1> HIDE DEF fp
  <1>2. \A k \in 1..Len(fo) : fp[k].base = fo[k].base
    BY <1>1
  <1>3. Bases(fp) = Bases(fo)
    BY <1>1, <1>2, SameBases
  <1> QED
    BY <1>3 DEF fp

LEMMA PushBases ==
  ASSUME NEW fo \in Seq(Shelf), fo # <<>>, NEW m \in Nat
  PROVE  Bases(PushTo(fo, m)) = Bases(fo)
  <1> DEFINE f == fo[Len(fo)]
             r == Append(f.roots, m)
             g == [f EXCEPT !.roots = r]
  <1>1. f \in Shelf
    OBVIOUS
  <1>2. r \in Seq(Nat)
    BY <1>1, AddLast DEF Shelf
  <1>3. PushTo(fo, m) = [fo EXCEPT ![Len(fo)] = g]
    BY DEF PushTo, PushTree
  <1> HIDE DEF f, r
  <1>4. g \in Shelf /\ g.base = f.base
    BY <1>1, <1>2 DEF Shelf
  <1> HIDE DEF g
  <1> QED
    BY <1>3, <1>4, TopBases DEF f

LEMMA CutBases ==
  ASSUME NEW fo \in Seq(Shelf), fo # <<>>, NEW n \in Nat, n <= Len(fo[Len(fo)].roots)
  PROVE  Bases(CutTo(fo, n)) = Bases(fo)
  <1> DEFINE f == fo[Len(fo)]
             r == SubSeq(f.roots, 1, n)
             g == [f EXCEPT !.roots = r]
  <1>1. f \in Shelf
    OBVIOUS
  <1>2. r \in Seq(Nat)
    BY <1>1, Prefix DEF Shelf
  <1>3. CutTo(fo, n) = [fo EXCEPT ![Len(fo)] = g]
    BY DEF CutTo
  <1> HIDE DEF f, r
  <1>4. g \in Shelf /\ g.base = f.base
    BY <1>1, <1>2 DEF Shelf
  <1> HIDE DEF g
  <1> QED
    BY <1>3, <1>4, TopBases DEF f

(* The callers' shelves. *)
LEMMA CallerBases ==
  ASSUME NEW fo \in Seq(Shelf), Len(fo) > 1
  PROVE  /\ SubSeq(fo, 1, Len(fo) - 1) \in Seq(Shelf) /\ SubSeq(fo, 1, Len(fo) - 1) # <<>>
         /\ Len(SubSeq(fo, 1, Len(fo) - 1)) = Len(fo) - 1
         /\ Bases(SubSeq(fo, 1, Len(fo) - 1)) \subseteq Bases(fo)
  <1> DEFINE n  == Len(fo) - 1
             fp == SubSeq(fo, 1, n)
  <1>1. /\ n \in Nat \ {0} /\ n <= Len(fo)
        /\ fp \in Seq(Shelf) /\ Len(fp) = n /\ fp # <<>> /\ \A k \in 1..n : fp[k] = fo[k]
    BY AllButLast
  <1>2. \A k \in 1..n : k \in 1..Len(fo)
    BY <1>1
  <1> HIDE DEF fp, n
  <1>3. Bases(fp) \subseteq Bases(fo)
    BY <1>1, <1>2 DEF Bases
  <1> QED
    BY <1>1, <1>3 DEF fp, n

LEMMA BoundedLess ==
  ASSUME NEW bs, NEW no \in Tree, Bounded(bs, no), NEW bt, bt \subseteq bs,
         NEW n \in Nat, n <= Len(no)
  PROVE  Bounded(bt, SubSeq(no, 1, n))
  <1> DEFINE s == SubSeq(no, 1, n)
  <1>1. Len(s) = n /\ \A i \in 1..n : s[i] = no[i]
    BY Prefix DEF Tree
  <1>2. \A i \in 1..n : i \in 1..Len(no)
    BY DEF Tree
  <1> HIDE DEF s
  <1>3. Bounded(bt, s)
    BY <1>1, <1>2 DEF Bounded
  <1> QED
    BY <1>3 DEF s

LEMMA BoundedJoin ==
  ASSUME NEW bs, NEW no \in Tree, Bounded(bs, no), \A b \in bs : b \in Nat /\ b <= Len(no),
         NEW t \in Tree, \A i \in 1..Len(t) : Inside(t, i)
  PROVE  Bounded(bs, no \o t)
  <1> DEFINE n == Len(no)
             m == Len(t)
             u == no \o t
  <1>1. n \in Nat /\ m \in Nat /\ Len(u) = n + m
    BY DEF Tree
  <1>2. /\ \A i \in 1..n : u[i] = no[i]
        /\ \A i \in 1..m : u[n + i] = t[i]
    BY DEF Tree
  <1> HIDE DEF u
  <1>3. ASSUME NEW b \in bs, NEW i \in 1..m, NEW c \in 1..Len(t[i].child)
        PROVE  t[i].child[c] < (n + i) - b
    <2> DEFINE x == t[i].child[c]
    <2>1. x < i
      BY DEF Inside
    <2>2. x \in Nat
      <3>1. t[i].child \in Seq(Nat)
        BY ExtentSpan
      <3> QED
        BY <3>1
    <2>3. b \in Nat /\ b <= n
      OBVIOUS
    <2> HIDE DEF x, n
    <2>4. x < (n + i) - b
      BY <1>1, <2>1, <2>2, <2>3
    <2> QED
      BY <2>4 DEF x
  <1>4. \A i \in 1..(n + m) : i \in 1..n \/ \E j \in 1..m : i = n + j
    <2>1. ASSUME NEW i \in 1..(n + m), i \notin 1..n PROVE \E j \in 1..m : i = n + j
      <3>1. i - n \in 1..m /\ i = n + (i - n)
        BY <1>1, <2>1
      <3> QED
        BY <3>1
    <2> QED
      BY <2>1
  <1> HIDE DEF n, m
  <1>5. ASSUME NEW b \in bs, NEW i \in 1..(n + m), b < i, NEW c \in 1..Len(u[i].child)
        PROVE  u[i].child[c] < i - b
    <2>1. CASE i \in 1..n
      BY <1>2, <1>5, <2>1 DEF Bounded, n
    <2>2. CASE \E j \in 1..m : i = n + j
      BY <1>2, <1>3, <1>5, <2>2 DEF m
    <2> QED
      BY <1>4, <2>1, <2>2
  <1>6. Bounded(bs, u)
    BY <1>1, <1>5 DEF Bounded
  <1> QED
    BY <1>6 DEF u

(* The memo map has got one more tree. *)
LEMMA KeptMore ==
  ASSUME NEW ke \in [Rule -> Seq(Tree)], NEW type \in Rule, NEW t \in Tree,
         NEW me, NEW fi, Proper(me, fi, t),
         \A r \in Rule : \A n \in 1..Len(ke[r]) : Proper(me, fi, ke[r][n])
  PROVE  LET kw == [ke EXCEPT ![type] = Append(@, t)]
         IN  \A r \in Rule : \A n \in 1..Len(kw[r]) : Proper(me, fi, kw[r][n])
  <1> DEFINE c  == Append(ke[type], t)
             kw == [ke EXCEPT ![type] = c]
             m  == Len(ke[type])
  <1>1. ke[type] \in Seq(Tree) /\ m \in Nat
    OBVIOUS
  <1>2. Len(c) = m + 1 /\ c[m + 1] = t /\ \A i \in 1..m : c[i] = ke[type][i]
    BY <1>1, AddLast
  <1> HIDE DEF c
  <1>3. kw[type] = c /\ \A r \in Rule : r # type => kw[r] = ke[r]
    OBVIOUS
  <1>4. \A i \in 1..(m + 1) : i = m + 1 \/ i \in 1..m
    BY <1>1
  <1> HIDE DEF kw
  <1>5. ASSUME NEW r \in Rule, NEW n \in 1..Len(kw[r]) PROVE Proper(me, fi, kw[r][n])
    BY <1>2, <1>3, <1>4 DEF m
  <1> QED
    BY <1>5 DEF kw, c

-----------------------------------------------------------------------------
(* Every step keeps the trees proper. *)
LEMMA ProperMacro ==
  ASSUME BasicInv, HeapInv, Running, ProperInv, RunMacro
  PROVE  ProperInv'
  <1> DEFINE n    == Len(stack'[Len(forest)].children)
             left == LeftAt(forest, n)
  <1>1. /\ nodes \in Tree /\ forest \in Seq(Shelf) /\ forest # <<>>
    BY HeapTop
  <1>2. /\ forest' = CutTo(forest, n) /\ forest' \in Seq(Shelf)
        /\ nodes' = SubSeq(nodes, 1, left) /\ left \in Nat /\ left <= Len(nodes)
        /\ UNCHANGED <<kept, memo, fired>>
    BY MacroCut
  <1>3. n \in Nat /\ n <= Len(forest[Len(forest)].roots)
    <2>1. /\ Len(stack) \in Nat \ {0} /\ Len(forest) = Len(stack) /\ top = stack[Len(stack)]
          /\ Standing(forest, stack, nodes) /\ top \in Frame
      BY HeapTop
    <2>2. n \in 0..Len(top.children)
      BY <2>1, MacroChildren DEF RunMacro
    <2>3. Len(forest[Len(forest)].roots) = Len(top.children)
      BY <1>1, <2>1, CallersBelow DEF Holds
    <2>4. Len(top.children) \in Nat
      BY <2>1 DEF Frame
    <2> HIDE DEF n
    <2> QED
      BY <2>2, <2>3, <2>4
  <1> HIDE DEF left, n
  <1>4. Bases(forest') = Bases(forest)
    BY <1>1, <1>2, <1>3, CutBases
  <1>5. Bounded(Bases(forest), SubSeq(nodes, 1, left))
    BY <1>1, <1>2, BoundedLess DEF ProperInv
  <1>6. Proper(memo, fired, SubSeq(nodes, 1, left))
    BY <1>1, <1>2, ProperPrefix DEF ProperInv
  <1> QED
    BY <1>2, <1>4, <1>5, <1>6 DEF ProperInv

LEMMA ProperRecall ==
  ASSUME BasicInv, HeapInv, Running, ProperInv, Recall
  PROVE  ProperInv'
  <1> DEFINE func  == exp.func
             t     == MemoTree(func, top.curStart)
             found == syntax_node_copy(t, allocated)
  <1>1. /\ top \in Frame /\ forest \in Seq(Shelf) /\ forest # <<>>
        /\ nodes \in Tree /\ allocated \in Nat /\ Standing(forest, stack, nodes)
    BY HeapTop
  <1>2. /\ func \in Rule /\ top.curStart \in Nat /\ is_memoized(func, top.curStart)
        /\ phase = "parsing"
    BY <1>1, ErrorsType, Operands DEF Recall, CallMemoized, Entering, Frame, InParser
  <1>3. /\ UNCHANGED <<memo, kept, fired>>
        /\ nodes' = nodes \o found
        /\ forest' = forest \/ forest' = PushTo(forest, Len(nodes) + Len(found))
    BY DEF Recall, CallMemoized, PushTo
  <1>4. t \in Tree /\ \E i \in 1..Len(memo[func]) : t = kept[func][i]
    BY <1>2, Recalled
  <1>5. Len(kept[func]) = Len(memo[func])
    BY <1>2 DEF HeapInv, Answers
  <1>6. Proper(memo, fired, t)
    BY <1>2, <1>4, <1>5 DEF ProperInv
  <1> HIDE DEF t, func
  <1>7. /\ found \in Tree /\ Len(found) = Len(t)
        /\ \A i \in 1..Len(t) : Extent(found[i]) = Extent(t[i]) /\ found[i].child = t[i].child
    BY <1>1, <1>4, Copied
  <1> HIDE DEF found
  <1>8. Proper(memo, fired, found)
    BY <1>4, <1>6, <1>7, ProperCopy
  <1>9. Proper(memo, fired, nodes \o found)
    BY <1>1, <1>7, <1>8, ProperJoin DEF ProperInv
  <1>10. Bases(forest') = Bases(forest)
    <2>1. Len(nodes) + Len(found) \in Nat
      BY <1>1, <1>7 DEF Tree
    <2> QED
      BY <1>1, <1>3, <2>1, PushBases
  <1>11. Bounded(Bases(forest), nodes \o found)
    <2>1. \A b \in Bases(forest) : b \in Nat /\ b <= Len(nodes)
      <3> SUFFICES ASSUME NEW b \in Bases(forest) PROVE b \in Nat /\ b <= Len(nodes)
        OBVIOUS
      <3>1. /\ b \in Nat /\ b <= forest[Len(forest)].base
            /\ forest[Len(forest)].base \in Nat /\ forest[Len(forest)].base <= Len(nodes)
        BY <1>1, BaseBelow
      <3>2. Len(nodes) \in Nat
        BY <1>1 DEF Tree
      <3> QED
        BY <3>1, <3>2
    <2>2. \A i \in 1..Len(found) : Inside(found, i)
      BY <1>8 DEF Proper, ProperAt
    <2> QED
      BY <1>1, <1>7, <2>1, <2>2, BoundedJoin DEF ProperInv
  <1> QED
    BY <1>3, <1>9, <1>10, <1>11 DEF ProperInv

LEMMA ProperCall ==
  ASSUME BasicInv, HeapInv, Running, ProperInv, Call
  PROVE  ProperInv'
  <1> DEFINE f == ChildStack(Len(nodes))
  <1>1. /\ forest \in Seq(Shelf) /\ forest # <<>> /\ nodes \in Tree /\ Len(nodes) \in Nat
    BY HeapTop DEF Tree
  <1>2. forest' = Append(forest, f) /\ UNCHANGED <<nodes, kept, memo, fired>>
    BY DEF Call, CallFunction
  <1>3. f \in Shelf /\ f.base = Len(nodes)
    BY <1>1 DEF ChildStack, Shelf
  <1> HIDE DEF f
  <1>4. /\ Len(forest') = Len(forest) + 1 /\ forest'[Len(forest) + 1] = f
        /\ \A k \in 1..Len(forest) : forest'[k] = forest[k]
    BY <1>1, <1>2, <1>3, AddLast
  <1>5. ASSUME NEW b \in Bases(forest') PROVE b \in Bases(forest) \/ b = Len(nodes)
    <2>1. PICK k \in 1..(Len(forest) + 1) : b = forest'[k].base
      BY <1>4 DEF Bases
    <2>2. k = Len(forest) + 1 \/ k \in 1..Len(forest)
      BY <1>1, <2>1
    <2> QED
      BY <1>3, <1>4, <2>1, <2>2 DEF Bases
  <1>6. ASSUME NEW i \in 1..Len(nodes) PROVE ~(Len(nodes) < i)
    BY <1>1
  <1>7. Bounded(Bases(forest'), nodes)
    BY <1>5, <1>6 DEF ProperInv, Bounded
  <1> QED
    BY <1>2, <1>7 DEF ProperInv

(* The node that is built, with what is below it. *)
LEMMA BuiltBelow ==
  ASSUME BasicInv, HeapInv, Running
  PROVE  LET m == Len(BuiltTree)
         IN  /\ m \in 1..m /\ BuiltTree[m] = Built
             /\ Inside(BuiltTree, m) /\ Below(BuiltTree, m) = top.children
             /\ \A c \in 1..Len(top.children) :
                  /\ own.roots[c] \in 1..Len(nodes)
                  /\ Extent(nodes[own.roots[c]]) = top.children[c]
  <1> DEFINE h == Len(nodes)
             b == own.base
             r == own.roots
             m == Len(BuiltTree)
             ch == Built.child
  <1>1. /\ Len(ch) = Len(r)
        /\ \A i \in 1..Len(r) : /\ ch[i] = (h + 1) - r[i]
                                /\ r[i] \in Nat /\ b < r[i] /\ r[i] <= h
        /\ b \in Nat /\ b <= h /\ h \in Nat
        /\ m = h - b + 1 /\ BuiltTree[m] = Built
        /\ \A i \in 1..(h - b) : BuiltTree[i] = nodes[b + i]
    BY BuiltFacts
  <1>2. /\ Len(r) = Len(top.children) /\ \A i \in 1..Len(r) : Extent(nodes[r[i]]) = top.children[i]
        /\ top.children \in Seq(Span)
    <2>1. /\ forest \in Seq(Shelf) /\ forest # <<>> /\ nodes \in Tree /\ own = forest[Len(forest)]
          /\ Standing(forest, stack, nodes) /\ top \in Frame
          /\ Len(forest) = Len(stack) /\ top = stack[Len(stack)]
      BY HeapTop
    <2>2. Holds(nodes, own, top.children)
      BY <2>1, CallersBelow
    <2> QED
      BY <2>1, <2>2 DEF Holds, Frame
  <1> HIDE DEF h, b, r, m, ch
  <1>3. ASSUME NEW i \in 1..Len(r)
        PROVE  /\ 0 < ch[i] /\ ch[i] < m
               /\ m - ch[i] \in 1..(h - b) /\ b + (m - ch[i]) = r[i]
               /\ r[i] \in 1..h
    <2> DEFINE x == ch[i]
               y == r[i]
    <2>1. /\ x = (h + 1) - y /\ y \in Nat /\ b < y /\ y <= h
          /\ b \in Nat /\ b <= h /\ h \in Nat /\ m = h - b + 1
      BY <1>1
    <2> HIDE DEF x, y
    <2>2. /\ 0 < x /\ x < m
          /\ m - x \in 1..(h - b) /\ b + (m - x) = y /\ y \in 1..h
      BY <2>1
    <2> QED
      BY <2>2 DEF x, y
  <1>4. ASSUME NEW i \in 1..Len(r) PROVE Extent(BuiltTree[m - ch[i]]) = top.children[i]
    BY <1>1, <1>2, <1>3
  <1>5. m \in 1..m
    BY <1>1
  <1>6. Inside(BuiltTree, m)
    BY <1>1, <1>3 DEF Inside, ch
  <1>7. Below(BuiltTree, m) = [i \in 1..Len(r) |-> Extent(BuiltTree[m - ch[i]])]
    BY <1>1 DEF Below, ch
  <1>8. Below(BuiltTree, m) = [i \in 1..Len(r) |-> top.children[i]]
    BY <1>4, <1>7
  <1>9. [i \in 1..Len(r) |-> top.children[i]] = top.children
    BY <1>2
  <1>10. Below(BuiltTree, m) = top.children
    BY <1>8, <1>9
  <1> QED
    BY <1>1, <1>2, <1>3, <1>5, <1>6, <1>10 DEF h, r, m

LEMMA ProperBuilt ==
  ASSUME BasicInv, HeapInv, Running, ProperInv, Build,
         \A i \in 1..Len(memo[top.rule]) : memo[top.rule][i].start # top.start
  PROVE  /\ Proper(memo', fired', nodes) /\ Proper(memo', fired', BuiltTree)
         /\ \A r \in Rule : \A n \in 1..Len(kept[r]) : Proper(memo', fired', kept[r][n])
         /\ FiredKnown(memo', fired')
  <1> DEFINE x    == Extent(Built)
             low  == top.children
             rec  == [start |-> x.begin, end |-> x.end, ok |-> TRUE, children |-> low]
             p    == Pair(x)
             h    == Len(nodes)
             b    == own.base
             m    == Len(BuiltTree)
  <1>1. /\ top \in Frame /\ nodes \in Tree /\ kept \in [Rule -> Seq(Tree)]
        /\ forest # <<>> /\ forest \in Seq(Shelf) /\ own = forest[Len(forest)]
        /\ memo \in [Rule -> Seq(Record)] /\ FiredKnown(memo, fired)
        /\ fired \in Seq(Rule \X Nat)
    BY HeapTop DEF ProperInv, FiredKnown, BasicInv, TypeOK
  <1>2. /\ x = Node(top.rule, top.start, top.curEnd)
        /\ x.type = top.rule /\ x.begin = top.start /\ x.end = top.curEnd
        /\ x \in Span /\ low \in Seq(Span)
    <2>1. x = Node(top.rule, top.start, top.curEnd)
      BY BuiltFacts
    <2> QED
      BY <1>1, <2>1 DEF Node, Span, Frame
  <1> HIDE DEF x
  <1>3. rec \in Record /\ x.type \in Rule /\ rec.start = x.begin
    BY <1>2 DEF Record, Span
  <1>4. p = <<x.type, x.begin>> /\ p \in Rule \X Nat
    BY <1>2 DEF Pair, Span
  <1>5. memo' = WithRecord(memo, x.type, rec) /\ fired' = Append(fired, p)
    <2>1. rec = [start |-> top.start, end |-> top.curEnd, ok |-> TRUE, children |-> low]
      BY <1>2
    <2>2. memo' = WithRecord(memo, top.rule, rec)
      BY <2>1 DEF Build, Succeed, memoize, WithRecord
    <2> HIDE DEF rec
    <2>3. fired' = Append(fired, <<top.rule, top.start>>)
      BY DEF Build
    <2> HIDE DEF p
    <2> QED
      BY <1>2, <1>4, <2>2, <2>3
  <1>6. \A k \in 1..Len(memo[x.type]) : memo[x.type][k].start # x.begin
    BY <1>2
  <1>7. Recorded1st(memo', x, low)
    BY <1>1, <1>2, <1>5, <1>6, RecordedNew
  <1>8. \A i \in 1..Len(fired) : fired[i] # p
    <2> DEFINE ty == x.type
               at == x.begin
    <2>1. p = <<ty, at>> /\ \A k \in 1..Len(memo[ty]) : memo[ty][k].start # at
      BY <1>4, <1>6
    <2>2. FiredKnown(memo, fired)
      BY <1>1
    <2> HIDE DEF p, ty, at
    <2>3. \A i \in 1..Len(fired) : fired[i] # <<ty, at>>
      BY <2>1, <2>2, NotFired
    <2> QED
      BY <2>1, <2>3
  <1>9. FiredKnown(memo', fired')
    <2>1. FiredKnown(WithRecord(memo, x.type, rec), Append(fired, <<x.type, rec.start>>))
      BY <1>1, <1>3, KnownFired
    <2> QED
      BY <1>3, <1>4, <1>5, <2>1
  <1>10. ASSUME NEW t \in Tree, Proper(memo, fired, t) PROVE Proper(memo', fired', t)
    <2>1. Proper(WithRecord(memo, x.type, rec), fired, t)
      BY <1>1, <1>3, <1>10, ProperRecord
    <2> HIDE DEF rec, p
    <2>2. Proper(memo', fired, t)
      BY <1>5, <2>1
    <2> QED
      BY <1>1, <1>4, <1>5, <1>8, <2>2, ProperFired
  <1> HIDE DEF rec
  <1>11. Proper(memo', fired', nodes)
    BY <1>1, <1>10 DEF ProperInv
  <1>12. ASSUME NEW r \in Rule, NEW n \in 1..Len(kept[r]) PROVE Proper(memo', fired', kept[r][n])
    <2>1. kept[r][n] \in Tree
      BY <1>1
    <2> QED
      BY <1>10, <2>1 DEF ProperInv
  <1>13. /\ m \in 1..m /\ BuiltTree[m] = Built
         /\ Inside(BuiltTree, m) /\ Below(BuiltTree, m) = low
         /\ \A c \in 1..Len(low) : /\ own.roots[c] \in 1..Len(nodes)
                                   /\ Extent(nodes[own.roots[c]]) = low[c]
    BY BuiltBelow
  <1>14. FiredOnce(fired', x, low)
    <2>1. ASSUME NEW c \in 1..Len(low) PROVE \E j \in 1..Len(fired) : fired[j] = Pair(low[c])
      <3>1. ProperAt(memo, fired, nodes, own.roots[c])
        BY <1>13 DEF ProperInv, Proper
      <3>2. FiredOnce(fired, low[c], Below(nodes, own.roots[c]))
        BY <1>13, <3>1 DEF ProperAt
      <3> QED
        BY <3>2 DEF FiredOnce
    <2>2. Pair(x) \in Rule \X Nat
      BY <1>4
    <2>3. FiredOnce(Append(fired, Pair(x)), x, low)
      BY <1>1, <1>8, <2>1, <2>2, FiredNew
    <2> QED
      BY <1>5, <2>3
  <1>15. ProperAt(memo', fired', BuiltTree, m)
    BY <1>7, <1>13, <1>14 DEF ProperAt, x
  <1> HIDE DEF low, p
  <1>16. /\ b \in Nat /\ b <= h /\ h \in Nat /\ BuiltTree \in Tree /\ m = h - b + 1
         /\ \A i \in 1..(h - b) : BuiltTree[i] = nodes[b + i]
    BY BuiltFacts
  <1>17. b \in Bases(forest)
    <2>1. Len(forest) \in 1..Len(forest)
      BY <1>1
    <2> QED
      BY <1>1, <2>1 DEF Bases
  <1> HIDE DEF m, h, b
  <1>18. ASSUME NEW i \in 1..(h - b) PROVE ProperAt(memo', fired', BuiltTree, i)
    <2> DEFINE k == b + i
               d == 0 - b
    <2>1. k \in 1..h /\ i = k + d /\ d \in Int /\ b < k /\ k - b = i /\ i \in 1..m
      BY <1>16
    <2>2. BuiltTree[i] = nodes[k]
      BY <1>16
    <2>3. ASSUME NEW j \in 1..h, NEW l \in 1..m, l = j + d
          PROVE  Extent(BuiltTree[l]) = Extent(nodes[j])
      <3>1. l \in 1..(h - b) /\ b + l = j
        BY <1>16, <2>3
      <3> QED
        BY <1>16, <3>1
    <2> HIDE DEF k, d
    <2>4. \A c \in 1..Len(nodes[k].child) : nodes[k].child[c] < k - b
      BY <1>17, <2>1 DEF ProperInv, Bounded, h, b
    <2>5. ProperAt(memo', fired', nodes, k)
      BY <1>11, <2>1 DEF Proper, h
    <2>6. \A c \in 1..Len(nodes[k].child) : nodes[k].child[c] < i
      BY <2>1, <2>4
    <2> QED
      BY <1>1, <1>16, <2>1, <2>2, <2>3, <2>5, <2>6, ProperPlace DEF h, m
  <1>19. Proper(memo', fired', BuiltTree)
    <2>1. \A i \in 1..m : i = m \/ i \in 1..(h - b)
      BY <1>16
    <2>2. ASSUME NEW i \in 1..m PROVE ProperAt(memo', fired', BuiltTree, i)
      BY <1>15, <1>18, <2>1
    <2> QED
      BY <2>2 DEF Proper, m
  <1> QED
    BY <1>9, <1>11, <1>12, <1>19

LEMMA ProperBuild ==
  ASSUME BasicInv, HeapInv, Running, ProperInv, Build, Fresh
  PROVE  ProperInv'
  <1> DEFINE copy == syntax_node_copy(BuiltTree, allocated + 1)
             low  == SubSeq(nodes, 1, own.base)
             n    == Len(forest) - 1
             fp   == SubSeq(forest, 1, n)
  <1>1. /\ top \in Frame /\ nodes \in Tree /\ kept \in [Rule -> Seq(Tree)] /\ allocated + 1 \in Nat
        /\ forest # <<>> /\ forest \in Seq(Shelf) /\ own = forest[Len(forest)]
        /\ Len(stack) \in Nat \ {0} /\ top = stack[Len(stack)] /\ Len(forest) = Len(stack)
        /\ Standing(forest, stack, nodes)
    BY HeapTop
  <1>2. \A i \in 1..Len(memo[top.rule]) : memo[top.rule][i].start # top.start
    BY <1>1 DEF Fresh
  <1>3. /\ Proper(memo', fired', nodes) /\ Proper(memo', fired', BuiltTree)
        /\ \A r \in Rule : \A i \in 1..Len(kept[r]) : Proper(memo', fired', kept[r][i])
        /\ FiredKnown(memo', fired')
    BY <1>2, ProperBuilt
  <1>4. /\ own.base \in Nat /\ own.base <= Len(nodes) /\ Len(nodes) \in Nat
        /\ BuiltTree \in Tree /\ low \o BuiltTree = Append(nodes, Built)
    BY BuiltFacts
  <1>5. /\ nodes' = Append(nodes, Built)
        /\ kept' = [kept EXCEPT ![top.rule] = Append(@, copy)]
        /\ forest' = IF n = 0 THEN <<>> ELSE [fp EXCEPT ![n] = PushTree(@, Len(nodes) + 1)]
    BY DEF Build, ToCaller
  <1>6. low \in Tree /\ Len(low) = own.base
    BY <1>1, <1>4, Prefix DEF Tree
  <1>7. Proper(memo', fired', low)
    BY <1>1, <1>3, <1>4, ProperPrefix
  <1>8. /\ copy \in Tree /\ Len(copy) = Len(BuiltTree)
        /\ \A i \in 1..Len(BuiltTree) :
             Extent(copy[i]) = Extent(BuiltTree[i]) /\ copy[i].child = BuiltTree[i].child
    BY <1>1, <1>4, Copied
  <1>9. Bases(forest') \subseteq Bases(forest)
    <2>1. CASE n = 0
      <3>1. forest' = <<>> /\ \A k \in 1..Len(<<>>) : FALSE
        BY <1>5, <2>1
      <3> QED
        BY <3>1 DEF Bases
    <2>2. CASE n # 0
      <3>1. Len(forest) > 1
        BY <1>1, <2>2
      <3>2. fp \in Seq(Shelf) /\ fp # <<>> /\ Len(fp) = n /\ Bases(fp) \subseteq Bases(forest)
        BY <1>1, <3>1, CallerBases
      <3> HIDE DEF fp, n
      <3>3. Len(nodes) + 1 \in Nat
        BY <1>4
      <3>4. forest' = PushTo(fp, Len(nodes) + 1)
        BY <1>5, <2>2, <3>2 DEF PushTo
      <3> QED
        BY <3>2, <3>3, <3>4, PushBases
    <2> QED
      BY <2>1, <2>2
  <1> HIDE DEF copy, low, n, fp
  <1>10. Proper(memo', fired', copy)
    BY <1>3, <1>4, <1>8, ProperCopy
  <1>11. \A r \in Rule : \A i \in 1..Len(kept'[r]) : Proper(memo', fired', kept'[r][i])
    <2>1. top.rule \in Rule
      BY <1>1 DEF Frame
    <2> QED
      BY <1>1, <1>3, <1>5, <1>8, <1>10, <2>1, KeptMore
  <1>12. Proper(memo', fired', nodes')
    BY <1>3, <1>4, <1>5, <1>6, <1>7, ProperJoin
  <1>13. Bounded(Bases(forest'), nodes')
    <2>1. Bounded(Bases(forest'), low)
      BY <1>1, <1>4, <1>9, BoundedLess DEF ProperInv, low
    <2>2. \A b \in Bases(forest') : b \in Nat /\ b <= Len(low)
      BY <1>1, <1>6, <1>9, BaseBelow
    <2>3. \A i \in 1..Len(BuiltTree) : Inside(BuiltTree, i)
      BY <1>3 DEF Proper, ProperAt
    <2>4. Bounded(Bases(forest'), low \o BuiltTree)
      BY <1>4, <1>6, <2>1, <2>2, <2>3, BoundedJoin
    <2> QED
      BY <1>4, <1>5, <2>4
  <1> QED
    BY <1>3, <1>11, <1>12, <1>13 DEF ProperInv

LEMMA ProperDrop ==
  ASSUME BasicInv, HeapInv, Running, ProperInv, Drop
  PROVE  ProperInv'
  <1> DEFINE rec == [start |-> top.start, end |-> top.start, ok |-> FALSE, children |-> <<>>]
             low == SubSeq(nodes, 1, own.base)
             n   == Len(forest) - 1
             fp  == SubSeq(forest, 1, n)
  <1>1. /\ top \in Frame /\ nodes \in Tree /\ kept \in [Rule -> Seq(Tree)]
        /\ forest # <<>> /\ forest \in Seq(Shelf) /\ own = forest[Len(forest)]
        /\ Len(stack) \in Nat \ {0} /\ Len(forest) = Len(stack)
        /\ Standing(forest, stack, nodes)
        /\ memo \in [Rule -> Seq(Record)]
    BY HeapTop DEF BasicInv, TypeOK
  <1>2. own.base \in Nat /\ own.base <= Len(nodes)
    BY <1>1, CallersBelow
  <1>3. rec \in Record /\ top.rule \in Rule
    BY <1>1 DEF Frame, Record
  <1>4. /\ memo' = WithRecord(memo, top.rule, rec) /\ fired' = fired
        /\ nodes' = low /\ forest' = fp
        /\ kept' = [kept EXCEPT ![top.rule] = Append(@, NoTree)]
    BY DEF Drop, Fail, memoize, WithRecord
  <1>5. Bases(fp) \subseteq Bases(forest)
    <2>1. CASE Len(forest) = 1
      <3>1. fp = <<>> /\ \A k \in 1..Len(<<>>) : FALSE
        BY <1>1, <2>1
      <3> QED
        BY <3>1 DEF Bases
    <2>2. CASE Len(forest) # 1
      <3>1. Len(forest) > 1
        BY <1>1, <2>2
      <3> QED
        BY <1>1, <3>1, CallerBases
    <2> QED
      BY <2>1, <2>2
  <1> HIDE DEF rec
  <1>6. ASSUME NEW t \in Tree, Proper(memo, fired, t) PROVE Proper(memo', fired', t)
    BY <1>1, <1>3, <1>4, <1>6, ProperRecord
  <1>7. Bounded(Bases(fp), low)
    BY <1>1, <1>2, <1>5, BoundedLess DEF ProperInv
  <1>8. low \in Tree /\ Proper(memo, fired, low)
    BY <1>1, <1>2, Prefix, ProperPrefix DEF ProperInv, Tree
  <1>9. Proper(memo', fired', low)
    BY <1>6, <1>8
  <1>10. FiredKnown(memo', fired')
    BY <1>1, <1>3, <1>4, KnownMore DEF ProperInv
  <1>11. NoTree \in Tree /\ Proper(memo', fired', NoTree)
    BY DEF NoTree, Tree, Proper
  <1>12. ASSUME NEW r \in Rule, NEW i \in 1..Len(kept[r]) PROVE Proper(memo', fired', kept[r][i])
    <2>1. kept[r][i] \in Tree
      BY <1>1
    <2> QED
      BY <1>6, <2>1 DEF ProperInv
  <1> HIDE DEF low, fp, n
  <1>13. \A r \in Rule : \A i \in 1..Len(kept'[r]) : Proper(memo', fired', kept'[r][i])
    BY <1>1, <1>3, <1>4, <1>11, <1>12, KeptMore
  <1> QED
    BY <1>4, <1>7, <1>9, <1>10, <1>13 DEF ProperInv

LEMMA ProperReturn ==
  ASSUME ProperInv, ReturnTree
  PROVE  ProperInv'
  <1>1. UNCHANGED <<memo, fired, nodes, forest>> /\ \A r \in Rule : kept'[r] = <<>>
    BY DEF ReturnTree, vars
  <1>2. \A r \in Rule : \A i \in 1..Len(kept'[r]) : FALSE
    BY <1>1
  <1> QED
    BY <1>1, <1>2 DEF ProperInv

LEMMA ProperStutter ==
  ASSUME ProperInv, UNCHANGED <<memo, fired, nodes, forest, kept>>
  PROVE  ProperInv'
  BY DEF ProperInv

LEMMA ProperInit == GInit => ProperInv
  <1> SUFFICES ASSUME GInit PROVE ProperInv
    OBVIOUS
  <1>1. nodes = <<>> /\ fired = <<>> /\ \A r \in Rule : kept[r] = <<>>
    BY DEF GInit
  <1>2. /\ \A i \in 1..Len(nodes) : FALSE
        /\ \A i \in 1..Len(fired) : FALSE
        /\ \A r \in Rule : \A i \in 1..Len(kept[r]) : FALSE
    BY <1>1
  <1>3. fired \in Seq(Rule \X Nat)
    BY <1>1
  <1> QED
    BY <1>2, <1>3 DEF ProperInv, Proper, Bounded, FiredKnown

LEMMA ProperNext == BasicInv /\ HeapInv /\ Fresh /\ ProperInv /\ [GNext]_gvars => ProperInv'
  <1> SUFFICES ASSUME BasicInv, HeapInv, Fresh, ProperInv, [GNext]_gvars
               PROVE  ProperInv'
    OBVIOUS
  <1>1. CASE OpenFile \/ NoFile
    BY <1>1, ProperStutter DEF OpenFile, NoFile, vars
  <1>2. CASE ReturnTree
    BY <1>2, ProperReturn
  <1>3. CASE RunMacro
    BY <1>3, StepRunning, ProperMacro
  <1>4. CASE RunMatch
    <2>1. memo' = memo
      BY <1>4 DEF RunMatch, Match, MatchString, MatchClass, MatchDot, Terminal
    <2> QED
      BY <1>4, <2>1, ProperStutter DEF RunMatch, treeVars
  <1>5. CASE Recall
    BY <1>5, StepRunning, ProperRecall
  <1>6. CASE Call
    BY <1>6, StepRunning, ProperCall
  <1>7. CASE GiveUp
    BY <1>7, ProperStutter DEF GiveUp, Exhaust, treeVars
  <1>8. CASE Build
    BY <1>8, StepRunning, ProperBuild
  <1>9. CASE Drop
    BY <1>9, StepRunning, ProperDrop
  <1>10. CASE UNCHANGED gvars
    BY <1>10, ProperStutter DEF gvars, vars, treeVars
  <1> QED
    BY <1>1, <1>2, <1>3, <1>4, <1>5, <1>6, <1>7, <1>8, <1>9, <1>10 DEF GNext

LEMMA ProperCorrect == GSpec => [](NoLeftRecursion(grammar.body) => ProperInv)
  <1> DEFINE Inv  == NoLeftRecursion(grammar.body) => ProperInv
             FreshInv == NoLeftRecursion(grammar.body) => EvaluatedOnce /\ Fresh
  <1>1. GInit => Inv
    BY ProperInit
  <1>2. BasicInv /\ HeapInv /\ FreshInv /\ Inv /\ [GNext]_gvars => Inv'
    <2> SUFFICES ASSUME BasicInv, HeapInv, FreshInv, Inv, [GNext]_gvars,
                        NoLeftRecursion(grammar.body)'
                 PROVE  ProperInv'
      OBVIOUS
    <2>1. grammar' = grammar
      BY ParserStep, GrammarFixed
    <2>2. NoLeftRecursion(grammar.body)
      BY <2>1
    <2> QED
      BY <2>2, ProperNext
  <1>3. GSpec => []BasicInv
    BY GeneratedIsParser, BasicCorrect, PTL
  <1>4. GSpec => []FreshInv
    BY GeneratedIsParser, OnceCorrect, PTL
  <1> QED
    BY <1>1, <1>2, <1>3, <1>4, HeapCorrect, PTL DEF GSpec

-----------------------------------------------------------------------------
LEMMA ProperRecorded ==
  ASSUME TypeOK, NEW t \in Tree, Proper(memo, fired, t), NEW i \in 1..Len(t)
  PROVE  AsRecorded(t, i)
  <1> DEFINE x  == Extent(t[i])
             ch == t[i].child
             bl == Below(t, i)
  <1>1. ProperAt(memo, fired, t, i) /\ x \in Span /\ ch \in Seq(Nat)
    BY ExtentSpan DEF Proper
  <1>2. x.type = t[i].type /\ x.begin = t[i].begin /\ x.end = t[i].end
    BY DEF Extent, Node
  <1>3. Inside(t, i) /\ Recorded1st(memo, x, bl)
    BY <1>1 DEF ProperAt
  <1>4. Len(bl) = Len(ch) /\ \A c \in 1..Len(ch) : bl[c] = Extent(t[i - ch[c]])
    <2>1. Len(ch) \in Nat
      BY <1>1
    <2> QED
      BY <2>1 DEF Below
  <1> HIDE DEF x, bl
  <1>5. PICK k \in 1..Len(memo[x.type]) :
          /\ memo[x.type][k] = [start |-> x.begin, end |-> x.end, ok |-> TRUE, children |-> bl]
          /\ \A j \in 1..(k - 1) : memo[x.type][j].start # x.begin
    BY <1>3 DEF Recorded1st
  <1>6. /\ memo[x.type][k].start = x.begin /\ memo[x.type][k].end = x.end
        /\ memo[x.type][k].ok /\ memo[x.type][k].children = bl
    BY <1>5
  <1>7. is_memoized(x.type, x.begin) /\ MemoRecord(x.type, x.begin) = memo[x.type][k]
    <2>1. x.type \in Rule /\ x.begin \in Nat
      BY <1>1 DEF Span
    <2> QED
      BY <1>5, <1>6, <2>1, FirstRecord
  <1> QED
    BY <1>2, <1>3, <1>4, <1>6, <1>7 DEF AsRecorded, Inside

(* In a grammar without left recursion a tree is what the memo records of  *)
(* its nodes say, at every depth, whether it was built, copied into the    *)
(* memo map or copied out of it again.                                     *)
THEOREM TreesAsRecordedCorrect == GSpec => [](NoLeftRecursion(grammar.body) => TreesAsRecorded)
  <1>1. ASSUME BasicInv, HeapInv, ProperInv PROVE TreesAsRecorded
    <2>1. TypeOK /\ nodes \in Tree /\ kept \in [Rule -> Seq(Tree)]
      BY <1>1 DEF BasicInv, HeapInv, TreeTypes
    <2>2. \A i \in 1..Len(nodes) : AsRecorded(nodes, i)
      BY <1>1, <2>1, ProperRecorded DEF ProperInv
    <2>3. ASSUME NEW r \in Rule, NEW n \in 1..Len(kept[r]), NEW i \in 1..Len(kept[r][n])
          PROVE  AsRecorded(kept[r][n], i)
      <3>1. kept[r][n] \in Tree
        BY <2>1
      <3>2. Proper(memo, fired, kept[r][n])
        BY <1>1 DEF ProperInv
      <3> QED
        BY <2>1, <3>1, <3>2, ProperRecorded
    <2> QED
      BY <2>2, <2>3 DEF TreesAsRecorded
  <1>2. BasicInv /\ HeapInv /\ (NoLeftRecursion(grammar.body) => ProperInv)
        => (NoLeftRecursion(grammar.body) => TreesAsRecorded)
    BY <1>1
  <1>3. GSpec => []BasicInv
    BY GeneratedIsParser, BasicCorrect, PTL
  <1> QED
    BY <1>2, <1>3, HeapCorrect, ProperCorrect, PTL

(* In a grammar without left recursion the actions run from the leaves up  *)
(* and once for each node: when a node is in a tree, its action has run    *)
(* exactly once, and after those of its children.                          *)
THEOREM ActionsBottomUpCorrect == GSpec => [](NoLeftRecursion(grammar.body) => ActionsBottomUp)
  <1>1. ASSUME HeapInv, ProperInv, NEW n \in 1..Len(nodes) PROVE BottomUp(nodes, n)
    <2> DEFINE x  == Extent(nodes[n])
               ch == nodes[n].child
               bl == Below(nodes, n)
    <2>1. FiredOnce(fired, x, bl)
      BY <1>1 DEF ProperInv, Proper, ProperAt
    <2>2. \A node : FiredAt(node) = {i \in 1..Len(fired) : fired[i] = Pair(Extent(node))}
      BY DEF FiredAt, Pair, Extent, Node
    <2>3. PICK i \in 1..Len(fired) :
            /\ fired[i] = Pair(x)
            /\ \A j \in 1..Len(fired) : fired[j] = Pair(x) => j = i
            /\ \A c \in 1..Len(bl) :
                 /\ \E j \in 1..Len(fired) : fired[j] = Pair(bl[c])
                 /\ \A j \in 1..Len(fired) : fired[j] = Pair(bl[c]) => j < i
      BY <2>1 DEF FiredOnce
    <2>4. FiredAt(nodes[n]) = {i}
      BY <2>2, <2>3
    <2>5. ch \in Seq(Nat)
      BY <1>1, ExtentSpan DEF HeapInv, TreeTypes
    <2>6. Len(bl) = Len(ch) /\ \A c \in 1..Len(ch) : bl[c] = Extent(nodes[n - ch[c]])
      <3>1. Len(ch) \in Nat
        BY <2>5
      <3> QED
        BY <3>1 DEF Below
    <2> HIDE DEF bl
    <2>7. ASSUME NEW c \in 1..Len(ch)
          PROVE  LET under == FiredAt(nodes[n - ch[c]])
                 IN  under # {} /\ \A j \in under : j < i
      BY <2>2, <2>3, <2>6
    <2> QED
      BY <2>4, <2>7 DEF BottomUp
  <1>2. HeapInv /\ (NoLeftRecursion(grammar.body) => ProperInv)
        => (NoLeftRecursion(grammar.body) => ActionsBottomUp)
    BY <1>1 DEF ActionsBottomUp
  <1> QED
    BY <1>2, HeapCorrect, ProperCorrect, PTL

-----------------------------------------------------------------------------
(* The parser of kaleidoscope programs.  Every text is a FILE because some *)
(* expressions never fail there, and some leave the cursor at the end of   *)
(* the text.                                                               *)
NeverFails(e) == e.op = "STAR" \/ e \in {T("__"), T("UNKNOWN"), UnknownBody, FileRest, FileBody}
ToTheEnd(e)   == e \in {STAR(DOT), T("UNKNOWN"), UnknownBody, FileRest, FileBody}

(* The expression e was entered at from and left at to with result r.      *)
Left(e, from, to, r) ==
  /\ NeverFails(e) => r
  /\ ToTheEnd(e) => to = Len(input)
  /\ e = DOT => IF r THEN from < to ELSE to = Len(input)
  /\ e \in {BANG(DOT), T("EOF")} /\ to = Len(input) => r

(* UNKNOWN looks for the end of the text where it is. *)
BehindAll(f) == f.ctl # <<>> /\ LastCtx(f).exp = UnknownBody /\ LastCtx(f).second =>
                  f.curStart = Len(input)

RecordLeft(type, rec) ==
  /\ type = "__" => rec.ok
  /\ type = "UNKNOWN" => rec.ok /\ rec.end = Len(input)
  /\ type = "EOF" /\ rec.start = Len(input) => rec.ok

RecordsLeft == \A type \in Rule : \A i \in 1..Len(memo[type]) : RecordLeft(type, memo[type][i])

AtOperand ==
  /\ Running /\ pc = "enter" => exp = Operand(KscopeBody, top)
  /\ Running /\ pc = "leave" => Left(Operand(KscopeBody, top), Began(top), top.curStart, res)

FramesLeft == \A k \in 1..Len(stack) :
                Traced(KscopeBody, Exp, stack[k]) /\ BehindAll(stack[k])

FileInv == /\ FramesLeft
           /\ Waiting(KscopeBody)
           /\ AtOperand
           /\ RecordsLeft
           /\ FileAlwaysParsed

LEMMA KscopeRules ==
  /\ KscopeBody["FILE"] = FileBody
  /\ KscopeBody["__"] = STAR(T("WS"))
  /\ KscopeBody["UNKNOWN"] = UnknownBody
  /\ KscopeBody["EOF"] = BANG(DOT)
  BY DEF KscopeBody

LEMMA FileExpressions ==
  /\ FileBody.op = "SEQ" /\ FileBody.A = T("__") /\ FileBody.B = FileRest
  /\ FileRest.op = "SEQ" /\ FileRest.A.op = "STAR" /\ FileRest.B = T("UNKNOWN")
  /\ UnknownBody.op = "SEQ" /\ UnknownBody.A = STAR(DOT) /\ UnknownBody.B = T("EOF")
  /\ STAR(DOT).op = "STAR" /\ STAR(DOT).A = DOT /\ STAR(T("WS")).op = "STAR"
  /\ BANG(DOT).op = "BANG" /\ BANG(DOT).A = DOT /\ DOT.op = "DOT"
  /\ \A r \in {"__", "UNKNOWN", "EOF"} : T(r).op = "T" /\ T(r).func = r
  BY DEF FileBody, FileRest, UnknownBody, SEQ, STAR, BANG, DOT, T

LEMMA KscopeMadeOf ==
  ASSUME Grammars = {Kscope}
  PROVE  MadeOf(KscopeBody, Exp)
  <1>1. Kscope \in [start : Rule, body : [Rule -> Exp]] /\ Kscope.body = KscopeBody
    BY GrammarAssumption DEF Kscope
  <1>2. \A r \in Rule : KscopeBody[r] \in Exp
    BY <1>1
  <1> QED
    BY <1>2, Operands DEF MadeOf

(* Without levels, and if every expression may be empty, Timed is nothing. *)
Zero == [e \in Exp |-> 0]

LEMMA Timeless ==
  ASSUME MadeOf(KscopeBody, Exp), NEW f \in Frame, Traced(KscopeBody, Exp, f)
  PROVE  Timed(KscopeBody, Exp, Zero, f)
  <1>1. f.rule \in Rule /\ KscopeBody[f.rule] \in Exp
    BY DEF Frame, MadeOf
  <1>2. ASSUME NEW i \in 1..Len(f.ctl)
        PROVE  f.ctl[i].exp \in Exp /\ ~Consumed(Exp, f.ctl[i])
    BY <1>2, Operands DEF Traced, Consumed
  <1> QED
    BY <1>1, <1>2 DEF Timed, Zero

-----------------------------------------------------------------------------
LEMMA TopLeftFacts ==
  ASSUME BasicInv, Running, FileInv
  PROVE  /\ top \in Frame /\ PositionsOf(top) /\ Traced(KscopeBody, Exp, top) /\ BehindAll(top)
         /\ top.rule \in Rule /\ top.start \in Nat
         /\ top.curStart \in Nat /\ top.curEnd \in Nat /\ Len(input) \in Nat
         /\ top.start <= top.curStart /\ top.curStart <= top.curEnd
         /\ top.curEnd <= Len(input)
         /\ stack \in Seq(Frame) /\ Len(stack) \in Nat \ {0} /\ top = stack[Len(stack)]
         /\ Began(top) \in Nat /\ Began(top) <= top.curStart
         /\ input \in Seq(Char)
  <1>1. Good(top) /\ Len(stack) \in Nat \ {0} /\ stack \in Seq(Frame) /\ input \in Seq(Char)
    BY TopGood, InputAssumption DEF BasicInv, TypeOK
  <1>2. top \in Frame /\ PositionsOf(top) /\ Len(stack) \in 1..Len(stack)
    BY <1>1 DEF Good
  <1>3. Traced(KscopeBody, Exp, top) /\ BehindAll(top)
    BY <1>2 DEF FileInv, FramesLeft, top
  <1>4. /\ top.rule \in Rule /\ top.start \in Nat /\ top.curStart \in Nat /\ top.curEnd \in Nat
        /\ top.start <= top.curStart /\ top.curStart <= top.curEnd /\ top.curEnd <= Len(input)
    BY <1>2 DEF Frame, PositionsOf
  <1>5. Began(top) \in Nat /\ Began(top) <= top.curStart
    BY <1>2, BeganBefore
  <1> QED
    BY <1>1, <1>2, <1>3, <1>4, <1>5 DEF top

LEMMA CtxLeft ==
  ASSUME BasicInv, Running, FileInv, top.ctl # <<>>
  PROVE  /\ LastCtx(top) = ctx /\ ctx \in Ctx /\ ctx.exp.op \in Macros
         /\ ctx.second => ctx.exp.op \in Binary
         /\ ctx.pos \in Nat /\ ctx.pos <= top.curStart
         /\ ctx.size \in Nat /\ ctx.size <= Len(top.children)
         /\ Began(top) = ctx.pos /\ Operand(KscopeBody, top) = RunBy(ctx)
  <1>1. LastCtx(top) = ctx
    BY DEF LastCtx, ctx
  <1>2. Len(top.ctl) \in 1..Len(top.ctl) /\ ctx = top.ctl[Len(top.ctl)]
    BY TopLeftFacts DEF Frame, ctx
  <1>3. ctx.exp.op \in Macros /\ (ctx.second => ctx.exp.op \in Binary)
    BY <1>2, TopLeftFacts DEF Traced
  <1> QED
    BY <1>1, <1>3, CtxFacts DEF Began, Operand

(* A step that changes nothing of the stack but the running function, and  *)
(* nothing of the memo map.                                                *)
LEMMA TopLeft ==
  ASSUME BasicInv, Running, FileInv,
         NEW f \in Frame, f.rule = top.rule, Traced(KscopeBody, Exp, f), BehindAll(f),
         stack' = WithTop(f), UNCHANGED <<input, memo, status>>,
         pc' = "enter" => exp' = Operand(KscopeBody, f),
         pc' = "leave" => Left(Operand(KscopeBody, f), Began(f), f.curStart, res')
  PROVE  FileInv'
  <1>1. /\ Len(stack') = Len(stack) /\ stack'[Len(stack)] = f /\ Len(stack) \in Nat \ {0}
        /\ \A k \in 1..(Len(stack) - 1) : stack'[k] = stack[k]
        /\ top = stack[Len(stack)]
    BY TopOnly, TopLeftFacts
  <1>2. top' = f
    BY <1>1 DEF top
  <1>3. \A k \in 1..Len(stack) : k = Len(stack) \/ k \in 1..(Len(stack) - 1)
    BY <1>1
  <1>4. FramesLeft'
    <2>1. ASSUME NEW k \in 1..Len(stack)
          PROVE  Traced(KscopeBody, Exp, stack'[k]) /\ BehindAll(stack'[k])
      BY <1>1, <1>3 DEF FileInv, FramesLeft
    <2> QED
      BY <1>1, <2>1 DEF FramesLeft, BehindAll
  <1>5. Waiting(KscopeBody)'
    <2>1. \A k \in 1..(Len(stack) - 1) : k + 1 \in 1..Len(stack)
      BY <1>1
    <2>2. \A k \in 1..Len(stack) : stack'[k].rule = stack[k].rule
      BY <1>1, <1>3
    <2> QED
      BY <1>1, <2>1, <2>2 DEF FileInv, Waiting
  <1>6. AtOperand'
    BY <1>2 DEF AtOperand, Left
  <1>7. RecordsLeft' /\ FileAlwaysParsed'
    BY DEF FileInv, RecordsLeft, RecordLeft, FileAlwaysParsed, Running
  <1> QED
    BY <1>4, <1>5, <1>6, <1>7 DEF FileInv

LEMMA EnterMacroLeft ==
  ASSUME BasicInv, Running, FileInv, MadeOf(KscopeBody, Exp), EnterMacro
  PROVE  FileInv'
  <1> DEFINE c == [exp |-> exp, second |-> FALSE, count |-> FALSE,
                   size |-> Len(top.children), pos |-> top.curStart,
                   errs |-> errors.num]
             g == [top EXCEPT !.ctl = Append(@, c)]
  <1>1. /\ pc = "enter" /\ exp.op \in Macros
        /\ stack' = WithTop(g) /\ pc' = "enter" /\ exp' = exp.A /\ UNCHANGED <<input, memo, status>>
    BY DEF EnterMacro, Continue, Enter
  <1>2. c \in Ctx
    <2>1. exp \in Exp /\ errors.num \in Nat
      BY ErrorsType DEF ErrorList
    <2>2. Len(top.children) \in Nat /\ top.curStart \in Nat
      BY TopLeftFacts DEF Frame
    <2> QED
      BY <2>1, <2>2 DEF Ctx
  <1>3. c.exp = exp /\ ~c.second /\ ~c.count /\ c.pos = top.curStart
    OBVIOUS
  <1> HIDE DEF c
  <1>4. exp = Operand(KscopeBody, top)
    BY <1>1 DEF FileInv, AtOperand
  <1>5. /\ top \in Frame /\ PositionsOf(top) /\ Traced(KscopeBody, Exp, top)
        /\ Timed(KscopeBody, Exp, Zero, top) /\ KscopeBody[top.rule] \in Exp
    BY TopLeftFacts, Timeless DEF MadeOf
  <1>6. /\ c.exp = Operand(KscopeBody, top) /\ c.exp \in Exp /\ c.exp.op \in Macros
        /\ Zero[c.exp] <= Zero[KscopeBody[top.rule]]
    BY <1>1, <1>2, <1>3, <1>4, <1>5 DEF Ctx, Zero
  <1>7. /\ g \in Frame /\ g.rule = top.rule /\ Traced(KscopeBody, Exp, g)
        /\ g.ctl # <<>> /\ LastCtx(g) = c
    <2> HIDE DEF g
    <2> QED
      BY <1>2, <1>3, <1>5, <1>6, PushOnce DEF g
  <1> HIDE DEF g
  <1>8. Operand(KscopeBody, g) = exp.A /\ BehindAll(g)
    BY <1>3, <1>7 DEF Operand, RunBy, BehindAll
  <1> QED
    BY <1>1, <1>7, <1>8, TopLeft

(* A macro runs an operand, its first or its second. *)
LEMMA ContinueLeft ==
  ASSUME BasicInv, Running, FileInv, MadeOf(KscopeBody, Exp), top.ctl # <<>>,
         NEW g \in Frame, g.rule = top.rule, g.start = top.start,
         Len(g.ctl) = Len(top.ctl), g.ctl # <<>>,
         \A i \in 1..Len(top.ctl) : i # Len(top.ctl) => g.ctl[i] = top.ctl[i],
         LastCtx(g).exp = ctx.exp, LastCtx(g).pos = ctx.pos,
         LastCtx(g).second => ctx.exp.op \in Binary,
         top.curStart <= g.curStart \/ g.curStart = ctx.pos,
         BehindAll(g),
         NEW e, Continue(g, e), e = RunBy(LastCtx(g))
  PROVE  FileInv'
  <1>1. LastCtx(top) = ctx /\ ctx \in Ctx /\ ctx.exp.op \in Macros
    BY CtxLeft
  <1>2. /\ top \in Frame /\ Traced(KscopeBody, Exp, top) /\ Timed(KscopeBody, Exp, Zero, top)
    BY TopLeftFacts, Timeless
  <1>3. ~Consumed(Exp, LastCtx(g))
    <2>1. ctx.exp \in Exp
      BY <1>1 DEF Ctx
    <2> QED
      BY <1>1, <2>1, Operands DEF Consumed
  <1>4. Traced(KscopeBody, Exp, g)
    BY <1>1, <1>2, <1>3, MarkOnce
  <1>5. Operand(KscopeBody, g) = e
    BY DEF Operand
  <1> QED
    BY <1>4, <1>5, TopLeft DEF Continue, Enter

LEMMA AgainLeft ==
  ASSUME BasicInv, Running, FileInv, MadeOf(KscopeBody, Exp),
         SeqRight \/ DisjRight \/ StarAgain \/ PlusAgain
  PROVE  FileInv'
  <1>1. top.ctl # <<>> /\ pc = "leave"
    BY DEF SeqRight, DisjRight, StarAgain, PlusAgain, Leaving
  <1>2. /\ LastCtx(top) = ctx /\ ctx.exp.op \in Macros
        /\ ctx.second => ctx.exp.op \in Binary
        /\ ctx.pos \in Nat /\ ctx.pos <= top.curStart
        /\ Operand(KscopeBody, top) = RunBy(ctx)
    BY <1>1, CtxLeft
  <1>3. /\ top \in Frame /\ top.curStart \in Nat /\ top.curEnd \in Nat
        /\ top.curStart <= top.curEnd
    BY TopLeftFacts
  <1>4. ASSUME NEW g, LastCtx(g).exp = ctx.exp, ctx.exp.op # "SEQ"
        PROVE  BehindAll(g)
    BY <1>4, FileExpressions DEF BehindAll
  <1>5. ASSUME SeqRight PROVE FileInv'
    <2> DEFINE g == AtSecond(top)
    <2>1. ctx.exp.op = "SEQ" /\ ~ctx.second /\ Continue(g, ctx.exp.B)
      BY <1>5 DEF SeqRight, Leaving
    <2>2. /\ g \in Frame /\ g.rule = top.rule /\ g.start = top.start
          /\ g.curStart = top.curStart /\ Len(g.ctl) = Len(top.ctl) /\ g.ctl # <<>>
          /\ \A i \in 1..Len(top.ctl) : i # Len(top.ctl) => g.ctl[i] = top.ctl[i]
          /\ LastCtx(g).exp = ctx.exp /\ LastCtx(g).pos = ctx.pos /\ LastCtx(g).second
      BY <1>1, <1>2, <1>3, Marked
    <2> HIDE DEF g
    <2>3. BehindAll(g)
      <3>1. ASSUME ctx.exp = UnknownBody PROVE top.curStart = Len(input)
        <4>1. Operand(KscopeBody, top) = STAR(DOT)
          BY <1>2, <2>1, <3>1, FileExpressions DEF RunBy
        <4> QED
          BY <1>1, <4>1 DEF FileInv, AtOperand, Left, ToTheEnd
      <3> QED
        BY <2>2, <3>1 DEF BehindAll
    <2>4. ctx.exp.B = RunBy(LastCtx(g)) /\ ctx.exp.op \in Binary /\ top.curStart <= g.curStart
      BY <1>3, <2>1, <2>2 DEF RunBy, Binary
    <2> QED
      BY <1>1, <2>1, <2>2, <2>3, <2>4, ContinueLeft
  <1>6. ASSUME DisjRight PROVE FileInv'
    <2> DEFINE h == GoBack(top)
               g == AtSecond(h)
    <2>1. ctx.exp.op = "DISJ" /\ Continue(g, ctx.exp.B)
      BY <1>6 DEF DisjRight, Leaving
    <2>2. /\ h \in Frame /\ h.rule = top.rule /\ h.start = top.start /\ h.ctl = top.ctl
          /\ h.curStart = ctx.pos
      BY <1>2, <1>3, Moved
    <2> HIDE DEF h
    <2>3. LastCtx(h) = ctx
      BY <1>2, <2>2 DEF LastCtx
    <2>4. /\ g \in Frame /\ g.rule = top.rule /\ g.start = top.start
          /\ g.curStart = ctx.pos /\ Len(g.ctl) = Len(top.ctl) /\ g.ctl # <<>>
          /\ \A i \in 1..Len(top.ctl) : i # Len(top.ctl) => g.ctl[i] = top.ctl[i]
          /\ LastCtx(g).exp = ctx.exp /\ LastCtx(g).pos = ctx.pos /\ LastCtx(g).second
      BY <1>1, <2>2, <2>3, Marked
    <2> HIDE DEF g
    <2>5. ctx.exp.B = RunBy(LastCtx(g)) /\ ctx.exp.op \in Binary
      BY <2>1, <2>4 DEF RunBy, Binary
    <2>6. BehindAll(g)
      BY <1>4, <2>1, <2>4
    <2> QED
      BY <1>1, <2>1, <2>4, <2>5, <2>6, ContinueLeft
  <1>7. ASSUME StarAgain PROVE FileInv'
    <2> DEFINE g == Advance(top)
    <2>1. ctx.exp.op = "STAR" /\ Continue(g, ctx.exp.A)
      BY <1>7 DEF StarAgain, Leaving
    <2>2. /\ g \in Frame /\ g.rule = top.rule /\ g.start = top.start /\ g.ctl = top.ctl
          /\ g.curStart = top.curEnd
      BY <1>2, <1>3, Moved
    <2> HIDE DEF g
    <2>3. LastCtx(g) = ctx
      BY <1>2, <2>2 DEF LastCtx
    <2>4. ~ctx.second /\ ctx.exp.A = RunBy(ctx)
      BY <1>2, <2>1 DEF Binary, RunBy
    <2>5. BehindAll(g)
      BY <1>4, <2>1, <2>3
    <2> QED
      BY <1>1, <1>3, <2>1, <2>2, <2>3, <2>4, <2>5, ContinueLeft
  <1>8. ASSUME PlusAgain PROVE FileInv'
    <2> DEFINE h == Advance(top)
               g == Counted(h)
    <2>1. ctx.exp.op = "PLUS" /\ Continue(g, ctx.exp.A)
      BY <1>8 DEF PlusAgain, Leaving
    <2>2. /\ h \in Frame /\ h.rule = top.rule /\ h.start = top.start /\ h.ctl = top.ctl
          /\ h.curStart = top.curEnd
      BY <1>2, <1>3, Moved
    <2> HIDE DEF h
    <2>3. LastCtx(h) = ctx
      BY <1>2, <2>2 DEF LastCtx
    <2>4. /\ g \in Frame /\ g.rule = top.rule /\ g.start = top.start
          /\ g.curStart = top.curEnd /\ Len(g.ctl) = Len(top.ctl) /\ g.ctl # <<>>
          /\ \A i \in 1..Len(top.ctl) : i # Len(top.ctl) => g.ctl[i] = top.ctl[i]
          /\ LastCtx(g).exp = ctx.exp /\ LastCtx(g).pos = ctx.pos
          /\ LastCtx(g).second = ctx.second
      BY <1>1, <2>2, <2>3, Marked
    <2> HIDE DEF g
    <2>5. ~ctx.second /\ ctx.exp.A = RunBy(LastCtx(g))
      BY <1>2, <2>1, <2>4 DEF Binary, RunBy
    <2>6. top.curStart <= g.curStart /\ ~LastCtx(g).second
      BY <1>3, <2>4, <2>5
    <2>7. BehindAll(g)
      BY <1>4, <2>1, <2>4
    <2> QED
      BY <1>1, <2>1, <2>4, <2>5, <2>6, <2>7, ContinueLeft
  <1> QED
    BY <1>5, <1>6, <1>7, <1>8

(* A macro is over. *)
LEMMA FinishLeft ==
  ASSUME BasicInv, Running, FileInv, MadeOf(KscopeBody, Exp), top.ctl # <<>>,
         NEW f \in Frame, f.rule = top.rule, f.start = top.start, f.ctl = top.ctl,
         Finish(f, res'),
         \A from \in Nat : from <= ctx.pos => Left(ctx.exp, from, f.curStart, res')
  PROVE  FileInv'
  <1> DEFINE g == PopCtl(f)
  <1>1. /\ LastCtx(top) = ctx /\ ctx \in Ctx /\ ctx.exp.op \in Macros
        /\ Traced(KscopeBody, Exp, top)
    BY CtxLeft, TopLeftFacts
  <1>2. LastCtx(f) = ctx /\ Traced(KscopeBody, Exp, f) /\ Timed(KscopeBody, Exp, Zero, f)
    <2>1. LastCtx(f) = ctx /\ Traced(KscopeBody, Exp, f)
      BY <1>1 DEF LastCtx, Traced
    <2> QED
      BY <2>1, Timeless
  <1>3. \A i \in 1..Len(f.ctl) : f.start <= f.ctl[i].pos /\ f.ctl[i].pos <= ctx.pos
    BY CtxFacts, TopLeftFacts DEF PositionsOf
  <1>4. /\ g \in Frame /\ g.rule = f.rule /\ g.curStart = f.curStart
        /\ Traced(KscopeBody, Exp, g)
        /\ Operand(KscopeBody, g) = ctx.exp /\ Began(g) <= ctx.pos /\ Began(g) \in Nat
    BY <1>2, <1>3, PopOnce
  <1>5. stack' = WithTop(g) /\ pc' = "leave" /\ UNCHANGED <<input, memo, status>>
    BY DEF Finish, Leave
  <1> HIDE DEF g
  <1>6. BehindAll(g)
    <2>1. T("EOF").op = "T" /\ "T" \notin Macros
      BY DEF T, Macros, Binary, Unary
    <2>2. ASSUME g.ctl # <<>>, LastCtx(g).exp = UnknownBody, LastCtx(g).second PROVE FALSE
      BY <1>1, <1>4, <2>1, <2>2, FileExpressions DEF Operand, RunBy
    <2> QED
      BY <2>2 DEF BehindAll
  <1> QED
    BY <1>4, <1>5, <1>6, TopLeft

(* Most expressions may do what they like. *)
LEMMA NothingLeft ==
  ASSUME NEW e, e.op \in Macros, e.op \notin {"SEQ", "STAR", "BANG"}, NEW from, NEW to, NEW r
  PROVE  Left(e, from, to, r)
  <1>1. e.op \notin {"T", "DOT", "SEQ", "STAR", "BANG"}
    BY DEF Macros, Binary, Unary
  <1> QED
    BY <1>1, FileExpressions DEF Left, NeverFails, ToTheEnd

LEMMA SeqEndLeft ==
  ASSUME BasicInv, Running, FileInv, top.ctl # <<>>, pc = "leave", ctx.exp.op = "SEQ",
         ctx.second \/ ~res, NEW to, res => to = top.curEnd
  PROVE  \A from : Left(ctx.exp, from, to, res)
  <1>1. /\ LastCtx(top) = ctx /\ Operand(KscopeBody, top) = RunBy(ctx)
        /\ Left(RunBy(ctx), Began(top), top.curStart, res) /\ BehindAll(top)
    BY CtxLeft, TopLeftFacts DEF FileInv, AtOperand
  <1>2. /\ top.curStart \in Nat /\ top.curEnd \in Nat /\ Len(input) \in Nat
        /\ top.curStart <= top.curEnd /\ top.curEnd <= Len(input)
    BY TopLeftFacts
  <1>3. ASSUME ctx.exp \in {UnknownBody, FileRest, FileBody}
        PROVE  res /\ top.curStart = Len(input)
    <2>1. CASE ~ctx.second
      <3>1. NeverFails(RunBy(ctx))
        BY <1>3, <2>1, FileExpressions DEF RunBy, NeverFails
      <3> QED
        BY <1>1, <2>1, <3>1 DEF Left
    <2>2. CASE ctx.second /\ ctx.exp = UnknownBody
      <3>1. RunBy(ctx) = T("EOF") /\ top.curStart = Len(input)
        BY <1>1, <2>2, FileExpressions DEF RunBy, BehindAll
      <3> QED
        BY <1>1, <3>1 DEF Left
    <2>3. CASE ctx.second /\ ctx.exp \in {FileRest, FileBody}
      <3>1. NeverFails(RunBy(ctx)) /\ ToTheEnd(RunBy(ctx))
        BY <2>3, FileExpressions DEF RunBy, NeverFails, ToTheEnd
      <3> QED
        BY <1>1, <3>1 DEF Left
    <2> QED
      BY <1>3, <2>1, <2>2, <2>3
  <1>4. CASE ctx.exp \in {UnknownBody, FileRest, FileBody}
    <2>1. res /\ to = Len(input)
      BY <1>2, <1>3, <1>4
    <2> QED
      BY <1>4, <2>1, FileExpressions DEF Left
  <1>5. CASE ctx.exp \notin {UnknownBody, FileRest, FileBody}
    BY <1>5, FileExpressions DEF Left, NeverFails, ToTheEnd
  <1> QED
    BY <1>4, <1>5

LEMMA StarEndLeft ==
  ASSUME BasicInv, Running, FileInv, top.ctl # <<>>, pc = "leave", ctx.exp.op = "STAR", ~res
  PROVE  \A from : Left(ctx.exp, from, top.curStart, TRUE)
  <1>1. /\ Left(RunBy(ctx), Began(top), top.curStart, res)
        /\ ctx.second => ctx.exp.op \in Binary
    BY CtxLeft DEF FileInv, AtOperand
  <1>2. RunBy(ctx) = ctx.exp.A
    BY <1>1 DEF RunBy, Binary
  <1>3. ctx.exp = STAR(DOT) => top.curStart = Len(input)
    BY <1>1, <1>2, FileExpressions DEF Left
  <1> QED
    BY <1>3, FileExpressions DEF Left, ToTheEnd

LEMMA BangEndLeft ==
  ASSUME BasicInv, Running, FileInv, top.ctl # <<>>, pc = "leave", ctx.exp.op = "BANG"
  PROVE  \A from : Left(ctx.exp, from, ctx.pos, ~res)
  <1>1. /\ Left(RunBy(ctx), Began(top), top.curStart, res) /\ Began(top) = ctx.pos
        /\ ctx.second => ctx.exp.op \in Binary
        /\ top.curStart \in Nat /\ top.curStart <= Len(input) /\ ctx.pos \in Nat
    BY CtxLeft, TopLeftFacts DEF FileInv, AtOperand
  <1>2. RunBy(ctx) = ctx.exp.A
    BY <1>1 DEF RunBy, Binary
  <1>3. ASSUME ctx.exp = BANG(DOT), ctx.pos = Len(input) PROVE ~res
    BY <1>1, <1>2, <1>3, FileExpressions DEF Left
  <1> QED
    BY <1>3, FileExpressions DEF Left, NeverFails, ToTheEnd

LEMMA EndLeft ==
  ASSUME BasicInv, Running, FileInv, MadeOf(KscopeBody, Exp),
         \/ SeqEnd \/ DisjEnd \/ StarEnd \/ PlusEnd
         \/ QuesEnd \/ BangEnd \/ HideEnd \/ AmpEnd
  PROVE  FileInv'
  <1>1. top.ctl # <<>> /\ pc = "leave"
    BY DEF SeqEnd, DisjEnd, StarEnd, PlusEnd, QuesEnd, BangEnd, HideEnd, AmpEnd, Leaving
  <1>2. /\ ctx.exp.op \in Macros /\ ctx.pos \in Nat
        /\ ctx.size \in Nat /\ ctx.size <= Len(top.children)
    BY <1>1, CtxLeft
  <1>3. top \in Frame
    BY TopLeftFacts
  <1> DEFINE Moves(f) == /\ f \in Frame /\ f.rule = top.rule /\ f.start = top.start
                         /\ f.ctl = top.ctl
  <1>4. /\ Moves(top)
        /\ Moves(Advance(top)) /\ Advance(top).curStart = top.curEnd
        /\ Moves(GoBackBoth(top)) /\ GoBackBoth(top).curStart = ctx.pos
        /\ GoBackBoth(top).children = top.children
    BY <1>2, <1>3, Moved
  <1>5. /\ Moves(DropChildren(top)) /\ DropChildren(top).curStart = top.curStart
    BY <1>2, <1>3, Dropped
  <1>6. Moves(DropChildren(GoBackBoth(top))) /\ DropChildren(GoBackBoth(top)).curStart = ctx.pos
    <2> DEFINE h == GoBackBoth(top)
    <2>1. Moves(h) /\ h.curStart = ctx.pos /\ h.children = top.children
      BY <1>4
    <2> HIDE DEF h
    <2>2. Moves(DropChildren(h)) /\ DropChildren(h).curStart = ctx.pos
      BY <1>2, <2>1, Dropped
    <2> QED
      BY <2>2 DEF h
  <1>7. Moves(Advance(DropChildren(top)))
    <2> DEFINE h == DropChildren(top)
    <2>1. Moves(h)
      BY <1>5
    <2> HIDE DEF h
    <2>2. Moves(Advance(h))
      BY <1>2, <2>1, Moved
    <2> QED
      BY <2>2 DEF h
  <1>8. ASSUME NEW f, Moves(f), Finish(f, res'),
               \A from \in Nat : from <= ctx.pos => Left(ctx.exp, from, f.curStart, res')
        PROVE  FileInv'
    BY <1>1, <1>8, FinishLeft
  <1>9. ASSUME NEW f, Moves(f), Finish(f, res'), ctx.exp.op \notin {"SEQ", "STAR", "BANG"}
        PROVE  FileInv'
    BY <1>2, <1>8, <1>9, NothingLeft
  <1> HIDE DEF Moves
  <1>10. ASSUME SeqEnd PROVE FileInv'
    <2> DEFINE f == IF res THEN Advance(top) ELSE DropChildren(top)
    <2>1. /\ ctx.exp.op = "SEQ" /\ (ctx.second \/ ~res) /\ res' = res /\ Finish(f, res')
      BY <1>10 DEF SeqEnd, Leaving, Finish, EndOfPair
    <2>2. Moves(f) /\ (res => f.curStart = top.curEnd)
      BY <1>4, <1>5
    <2> HIDE DEF f
    <2>3. \A from : Left(ctx.exp, from, f.curStart, res)
      BY <1>1, <2>1, <2>2, SeqEndLeft
    <2> QED
      BY <1>8, <2>1, <2>2, <2>3
  <1>11. ASSUME DisjEnd PROVE FileInv'
    <2> DEFINE f == IF res THEN Advance(top) ELSE DropChildren(top)
    <2>1. ctx.exp.op = "DISJ" /\ Finish(f, res')
      BY <1>11 DEF DisjEnd, Leaving, Finish, EndOfPair
    <2>2. Moves(f)
      BY <1>4, <1>5
    <2> HIDE DEF f
    <2> QED
      BY <1>9, <2>1, <2>2
  <1>12. ASSUME StarEnd PROVE FileInv'
    <2>1. ctx.exp.op = "STAR" /\ ~res /\ Finish(top, res') /\ res' = TRUE
      BY <1>12 DEF StarEnd, Leaving, Finish
    <2>2. \A from : Left(ctx.exp, from, top.curStart, TRUE)
      BY <1>1, <2>1, StarEndLeft
    <2> QED
      BY <1>4, <1>8, <2>1, <2>2
  <1>13. ASSUME PlusEnd PROVE FileInv'
    <2>1. ctx.exp.op = "PLUS" /\ (Finish(top, res') \/ Finish(DropChildren(top), res'))
      BY <1>13 DEF PlusEnd, Leaving, Finish
    <2> QED
      BY <1>4, <1>5, <1>9, <2>1
  <1>14. ASSUME QuesEnd PROVE FileInv'
    <2> DEFINE f == IF res THEN Advance(top) ELSE top
    <2>1. ctx.exp.op = "QUES" /\ Finish(f, res')
      BY <1>14 DEF QuesEnd, Leaving, Finish
    <2>2. Moves(f)
      BY <1>4
    <2> HIDE DEF f
    <2> QED
      BY <1>9, <2>1, <2>2
  <1>15. ASSUME BangEnd PROVE FileInv'
    <2>1. ctx.exp.op = "BANG" /\ Finish(DropChildren(GoBackBoth(top)), res') /\ res' = ~res
      BY <1>15 DEF BangEnd, Leaving, Finish
    <2>2. \A from : Left(ctx.exp, from, ctx.pos, ~res)
      BY <1>1, <2>1, BangEndLeft
    <2> QED
      BY <1>6, <1>8, <2>1, <2>2
  <1>16. ASSUME HideEnd PROVE FileInv'
    <2>1. ctx.exp.op = "HIDE" /\ Finish(Advance(DropChildren(top)), res')
      BY <1>16 DEF HideEnd, Leaving, Finish
    <2> QED
      BY <1>7, <1>9, <2>1
  <1>17. ASSUME AmpEnd PROVE FileInv'
    <2>1. ctx.exp.op = "AMP" /\ Finish(GoBackBoth(top), res')
      BY <1>17 DEF AmpEnd, Leaving, Finish
    <2> QED
      BY <1>4, <1>9, <2>1
  <1> QED
    BY <1>10, <1>11, <1>12, <1>13, <1>14, <1>15, <1>16, <1>17

(* UNKNOWN has only T(EOF) to call behind all. *)
LEMMA BehindCall ==
  ASSUME BasicInv, Running, FileInv, NEW f, f.ctl = top.ctl,
         Operand(KscopeBody, top).op = "T" => f.curStart = top.curStart \/ f.curStart = Len(input)
  PROVE  BehindAll(f)
  <1>1. BehindAll(top) /\ LastCtx(f) = LastCtx(top)
    BY TopLeftFacts DEF LastCtx
  <1>2. ASSUME top.ctl # <<>>, LastCtx(top).exp = UnknownBody, LastCtx(top).second
        PROVE  f.curStart = Len(input)
    <2>1. Operand(KscopeBody, top) = T("EOF")
      BY <1>2, FileExpressions DEF Operand, RunBy
    <2>2. top.curStart = Len(input)
      BY <1>1, <1>2 DEF BehindAll
    <2> QED
      BY <2>1, <2>2, FileExpressions
  <1> QED
    BY <1>1, <1>2 DEF BehindAll

LEMMA MatchLeft ==
  ASSUME BasicInv, Running, FileInv, MadeOf(KscopeBody, Exp), Match
  PROVE  FileInv'
  <1>1. /\ top \in Frame /\ Traced(KscopeBody, Exp, top)
        /\ Timed(KscopeBody, Exp, Zero, top)
        /\ top.curStart \in Nat /\ Len(input) \in Nat /\ top.curStart <= top.curEnd
        /\ top.curEnd \in Nat /\ top.curEnd <= Len(input)
        /\ Began(top) \in Nat /\ Began(top) <= top.curStart
        /\ stack \in Seq(Frame) /\ Len(stack) \in Nat \ {0} /\ top = stack[Len(stack)]
    BY TopLeftFacts, Timeless
  <1>2. pc = "enter" /\ exp.op \in {"S", "C", "DOT"}
    BY DEF Match, MatchString, MatchClass, MatchDot, Entering
  <1>3. exp = Operand(KscopeBody, top)
    BY <1>2 DEF FileInv, AtOperand
  <1>4. ASSUME NEW m \in BOOLEAN, NEW n \in Nat, Terminal(m, n),
               exp = DOT => n = 1 /\ (~m => top.curStart = Len(input))
        PROVE  FileInv'
    <2> DEFINE p == top.curStart + n
               f == IF m THEN [top EXCEPT !.curStart = p, !.curEnd = p] ELSE top
    <2>1. p \in Nat /\ top.curStart <= p
      BY <1>1
    <2>2. /\ f \in Frame /\ f.rule = top.rule /\ f.start = top.start /\ f.ctl = top.ctl
          /\ f.curStart = IF m THEN p ELSE top.curStart
      <3> HIDE DEF p
      <3> QED
        BY <1>1, <2>1 DEF Frame
    <2>3. stack' = WithTop(f) /\ pc' = "leave" /\ res' = m /\ UNCHANGED <<input, memo, status>>
      <3>1. stack = WithTop(top)
        BY <1>1 DEF WithTop
      <3> QED
        BY <1>4, <3>1 DEF Terminal, Leave
    <2> HIDE DEF f
    <2>4. /\ Traced(KscopeBody, Exp, f) /\ Operand(KscopeBody, f) = exp /\ Began(f) = Began(top)
      <3>1. top.curStart <= f.curStart
        BY <1>1, <2>1, <2>2
      <3> QED
        BY <1>1, <1>3, <2>2, <3>1, AheadOnce
    <2>5. BehindAll(f)
      BY <1>2, <1>3, <2>2, BehindCall
    <2>6. Left(exp, Began(top), f.curStart, m)
      <3>1. exp.op \notin {"STAR", "SEQ", "T", "BANG"}
        BY <1>2
      <3>2. ~NeverFails(exp) /\ ~ToTheEnd(exp) /\ exp \notin {BANG(DOT), T("EOF")}
        BY <3>1, FileExpressions DEF NeverFails, ToTheEnd
      <3>3. exp = DOT => IF m THEN Began(top) < f.curStart ELSE f.curStart = Len(input)
        BY <1>1, <1>4, <2>2
      <3> QED
        BY <3>2, <3>3 DEF Left
    <2> QED
      BY <2>2, <2>3, <2>4, <2>5, <2>6, TopLeft
  <1>5. CASE MatchString
    <2>1. exp.str \in Seq(Char) /\ exp.op = "S"
      BY <1>5, ErrorsType, Operands DEF MatchString, Entering
    <2>2. Len(exp.str) \in Nat /\ exp # DOT
      BY <2>1, FileExpressions
    <2> QED
      BY <1>4, <1>5, <2>2 DEF MatchString
  <1>6. CASE MatchClass
    <2>1. exp # DOT
      BY <1>6, FileExpressions DEF MatchClass, Entering
    <2>2. (CharAt(top.curStart) \in exp.class) \in BOOLEAN
      OBVIOUS
    <2>3. Terminal(CharAt(top.curStart) \in exp.class, 1)
      BY <1>6 DEF MatchClass
    <2> QED
      BY <1>4, <2>1, <2>2, <2>3
  <1>7. CASE MatchDot
    <2>1. ASSUME ~(CharAt(top.curStart) # WEOF) PROVE top.curStart = Len(input)
      <3>1. CASE top.curStart < Len(input)
        <4>1. top.curStart + 1 \in 1..Len(input) /\ input \in Seq(Char)
          BY <1>1, <3>1, TopLeftFacts
        <4>2. input[top.curStart + 1] \in Char
          BY <4>1
        <4> QED
          BY <2>1, <3>1, <4>2, InputAssumption DEF CharAt
      <3> QED
        BY <1>1, <3>1
    <2> QED
      BY <1>4, <1>7, <2>1 DEF MatchDot
  <1> QED
    BY <1>5, <1>6, <1>7 DEF Match

LEMMA CallMemoizedLeft ==
  ASSUME BasicInv, Running, FileInv, MadeOf(KscopeBody, Exp), CallMemoized
  PROVE  FileInv'
  <1> DEFINE func == exp.func
             rec  == MemoRecord(func, top.curStart)
             node == Node(func, rec.start, rec.end)
  <1>1. /\ top \in Frame /\ Traced(KscopeBody, Exp, top)
        /\ Timed(KscopeBody, Exp, Zero, top)
        /\ top.curStart \in Nat /\ Len(input) \in Nat
        /\ top.curStart <= top.curEnd /\ top.curEnd \in Nat /\ top.curEnd <= Len(input)
    BY TopLeftFacts, Timeless
  <1>2. /\ func \in Rule /\ is_memoized(func, top.curStart) /\ TypeOK
        /\ exp.op = "T" /\ pc = "enter"
    BY ErrorsType, Operands DEF CallMemoized, Entering, BasicInv
  <1>3. exp = Operand(KscopeBody, top)
    BY <1>2 DEF FileInv, AtOperand
  <1>4. /\ stack' = WithTop(IF rec.ok THEN AddChild(top, node)
                            ELSE [top EXCEPT !.curEnd = rec.end])
        /\ res' = rec.ok /\ pc' = "leave" /\ UNCHANGED <<input, memo, status>>
    BY DEF CallMemoized, Leave
  <1>5. \A r \in {"__", "UNKNOWN", "EOF"} : exp = T(r) => func = r
    BY FileExpressions
  <1> HIDE DEF func
  <1>6. PICK i \in 1..Len(memo[func]) : rec = memo[func][i] /\ rec.start = top.curStart
    BY <1>1, <1>2, MemoRecordFound
  <1> HIDE DEF rec
  <1>7. rec \in Record /\ rec.start <= rec.end /\ rec.end <= Len(input) /\ RecordLeft(func, rec)
    BY <1>2, <1>6 DEF TypeOK, BasicInv, MemoInText, FileInv, RecordsLeft
  <1>8. rec.start \in Nat /\ rec.end \in Nat /\ rec.ok \in BOOLEAN
    BY <1>7 DEF Record
  <1> DEFINE f == IF rec.ok THEN AddChild(top, node) ELSE [top EXCEPT !.curEnd = rec.end]
  <1>9. /\ f \in Frame /\ f.rule = top.rule /\ f.start = top.start /\ f.ctl = top.ctl
        /\ f.curStart = IF rec.ok THEN rec.end ELSE top.curStart
    <2>1. node \in Span /\ node.end = rec.end
      BY <1>2, <1>8 DEF Node, Span
    <2> HIDE DEF node
    <2>2. /\ AddChild(top, node) \in Frame /\ AddChild(top, node).rule = top.rule
          /\ AddChild(top, node).start = top.start /\ AddChild(top, node).ctl = top.ctl
          /\ AddChild(top, node).curStart = rec.end
      BY <1>1, <2>1, Added
    <2>3. LET g == [top EXCEPT !.curEnd = rec.end]
          IN  /\ g \in Frame /\ g.rule = top.rule /\ g.start = top.start /\ g.ctl = top.ctl
              /\ g.curStart = top.curStart
      BY <1>1, <1>8 DEF Frame
    <2> QED
      BY <2>2, <2>3
  <1>10. stack' = WithTop(f)
    BY <1>4
  <1> HIDE DEF f
  <1>11. top.curStart <= f.curStart
    BY <1>1, <1>6, <1>7, <1>8, <1>9
  <1>12. /\ Traced(KscopeBody, Exp, f) /\ Operand(KscopeBody, f) = exp /\ Began(f) = Began(top)
    BY <1>1, <1>3, <1>9, <1>11, AheadOnce
  <1>13. BehindAll(f)
    <2>1. ASSUME f.ctl # <<>>, LastCtx(f).exp = UnknownBody, LastCtx(f).second
          PROVE  f.curStart = Len(input)
      <3>1. top.curStart = Len(input)
        BY <1>9, <2>1, TopLeftFacts DEF BehindAll, LastCtx
      <3> QED
        BY <1>1, <1>6, <1>7, <1>8, <1>9, <3>1
    <2> QED
      BY <2>1 DEF BehindAll
  <1>14. Left(exp, Began(top), f.curStart, rec.ok)
    <2>1. NeverFails(exp) => func \in {"__", "UNKNOWN"}
      BY <1>2, <1>5, FileExpressions DEF NeverFails
    <2>2. ToTheEnd(exp) => func = "UNKNOWN"
      BY <1>2, <1>5, FileExpressions DEF ToTheEnd
    <2>3. exp # DOT /\ exp # BANG(DOT)
      BY <1>2, FileExpressions
    <2>4. exp = T("EOF") /\ f.curStart = Len(input) => rec.ok
      BY <1>1, <1>5, <1>6, <1>7, <1>8, <1>9 DEF RecordLeft
    <2> QED
      BY <1>7, <1>9, <2>1, <2>2, <2>3, <2>4 DEF RecordLeft, Left
  <1> QED
    BY <1>4, <1>9, <1>10, <1>12, <1>13, <1>14, TopLeft

LEMMA CallFunctionLeft ==
  ASSUME BasicInv, Running, FileInv, MadeOf(KscopeBody, Exp), grammar.body = KscopeBody,
         CallFunction
  PROVE  FileInv'
  <1> DEFINE f == Activation(exp.func, top.curStart)
             n == Len(stack)
  <1>1. /\ top.curStart \in Nat /\ stack \in Seq(Frame) /\ n \in Nat \ {0} /\ top = stack[n]
    BY TopLeftFacts
  <1>2. /\ exp.op = "T" /\ pc = "enter" /\ exp.func \in Rule
        /\ stack' = Append(stack, f) /\ pc' = "enter" /\ exp' = KscopeBody[exp.func]
        /\ UNCHANGED <<input, memo, status>>
    BY ErrorsType, Operands DEF CallFunction, Entering, Enter
  <1>3. exp = Operand(KscopeBody, top)
    BY <1>2 DEF FileInv, AtOperand
  <1>4. f \in Frame /\ f.rule = exp.func /\ f.ctl = <<>>
    BY <1>1, <1>2 DEF Activation, Frame
  <1> HIDE DEF f
  <1>5. /\ Traced(KscopeBody, Exp, f) /\ BehindAll(f)
        /\ Operand(KscopeBody, f) = KscopeBody[exp.func]
    BY <1>4 DEF Traced, BehindAll, Operand
  <1>6. /\ Len(stack') = n + 1 /\ stack'[n + 1] = f
        /\ \A k \in 1..n : stack'[k] = stack[k]
    BY <1>1, <1>2, <1>4, AddLast
  <1>7. top' = f
    BY <1>1, <1>6 DEF top
  <1>8. /\ \A k \in 1..(n + 1) : k = n + 1 \/ k \in 1..n
        /\ \A k \in 1..((n + 1) - 1) : k \in 1..n
        /\ \A k \in 1..n : k # n => k \in 1..(n - 1) /\ k + 1 \in 1..n
    BY <1>1
  <1> HIDE DEF n
  <1>9. FramesLeft'
    <2>1. ASSUME NEW k \in 1..(n + 1)
          PROVE  Traced(KscopeBody, Exp, stack'[k]) /\ BehindAll(stack'[k])
      <3>1. CASE k = n + 1
        BY <1>5, <1>6, <3>1
      <3>2. CASE k \in 1..n
        BY <1>6, <3>2 DEF FileInv, FramesLeft, n
      <3> QED
        BY <1>8, <3>1, <3>2
    <2> QED
      BY <1>2, <1>6, <2>1 DEF FramesLeft, BehindAll
  <1>10. Waiting(KscopeBody)'
    <2>1. ASSUME NEW k \in 1..((n + 1) - 1)
          PROVE  /\ Operand(KscopeBody, stack'[k]).op = "T"
                 /\ Operand(KscopeBody, stack'[k]).func = stack'[k + 1].rule
      <3>1. CASE k = n
        BY <1>1, <1>2, <1>3, <1>4, <1>6, <1>8, <2>1, <3>1
      <3>2. CASE k # n
        <4>1. /\ k \in 1..(n - 1) /\ stack'[k] = stack[k] /\ stack'[k + 1] = stack[k + 1]
          BY <1>6, <1>8, <3>2
        <4> QED
          BY <4>1 DEF FileInv, Waiting, n
      <3> QED
        BY <3>1, <3>2
    <2> QED
      BY <1>6, <2>1 DEF Waiting
  <1>11. AtOperand'
    BY <1>2, <1>5, <1>7 DEF AtOperand
  <1>12. RecordsLeft' /\ FileAlwaysParsed'
    BY <1>2 DEF FileInv, RecordsLeft, RecordLeft, FileAlwaysParsed, Running
  <1> QED
    BY <1>9, <1>10, <1>11, <1>12 DEF FileInv

LEMMA ExhaustLeft ==
  ASSUME FileInv, Exhaust
  PROVE  FileInv'
  <1>1. status' = "exhausted" /\ UNCHANGED <<input, stack, memo>>
    BY DEF Exhaust
  <1> QED
    BY <1>1 DEF FileInv, FramesLeft, BehindAll, Waiting, AtOperand, RecordsLeft, RecordLeft,
                FileAlwaysParsed, Running

-----------------------------------------------------------------------------
(* What the running function puts on record. *)
LEMMA RecordsLeftMore ==
  ASSUME BasicInv, Running, FileInv, input' = input,
         NEW rec \in Record, memo' = WithRecord(memo, top.rule, rec), RecordLeft(top.rule, rec)
  PROVE  RecordsLeft'
  <1>1. memo \in [Rule -> Seq(Record)] /\ top.rule \in Rule
    BY TopLeftFacts DEF BasicInv, TypeOK
  <1>2. ASSUME NEW t \in Rule, NEW i \in 1..Len(memo'[t]) PROVE RecordLeft(t, memo'[t][i])
    <2>1. \/ t = top.rule /\ memo'[t][i] = rec
          \/ i \in 1..Len(memo[t]) /\ memo'[t][i] = memo[t][i]
      BY <1>1, <1>2, Recorded
    <2> QED
      BY <2>1 DEF FileInv, RecordsLeft
  <1> QED
    BY <1>2 DEF RecordsLeft, RecordLeft

LEMMA CallerLeft ==
  ASSUME BasicInv, Running, FileInv, Len(stack) > 1
  PROVE  /\ caller \in Frame /\ PositionsOf(caller) /\ caller.curStart = top.start
         /\ Traced(KscopeBody, Exp, caller) /\ BehindAll(caller)
         /\ Operand(KscopeBody, caller).op = "T"
         /\ Operand(KscopeBody, caller).func = top.rule
  <1> DEFINE n == Len(stack) - 1
  <1>1. n \in 1..(Len(stack) - 1) /\ n \in 1..Len(stack) /\ n + 1 = Len(stack)
    BY TopLeftFacts
  <1>2. caller = stack[n] /\ top = stack[n + 1]
    BY <1>1 DEF caller, top
  <1> HIDE DEF n
  <1>3. caller \in Frame /\ PositionsOf(caller) /\ caller.curStart = top.start
    BY ReturnFacts DEF Good
  <1> QED
    BY <1>1, <1>2, <1>3 DEF FileInv, FramesLeft, Waiting

(* The running function returns to its caller. *)
LEMMA ReturnLeft ==
  ASSUME BasicInv, Running, FileInv, Len(stack) > 1,
         NEW f \in Frame, f.rule = caller.rule, Traced(KscopeBody, Exp, f), BehindAll(f),
         stack' = ReturnTo(f), pc' = "leave", UNCHANGED <<input, status>>,
         NEW rec \in Record, memo' = WithRecord(memo, top.rule, rec), RecordLeft(top.rule, rec),
         Left(Operand(KscopeBody, f), Began(f), f.curStart, res')
  PROVE  FileInv'
  <1> DEFINE n == Len(stack) - 1
  <1>1. /\ n \in Nat \ {0} /\ Len(stack) = n + 1
        /\ Len(stack') = n /\ stack'[n] = f
        /\ \A k \in 1..(n - 1) : stack'[k] = stack[k]
        /\ caller = stack[n]
    BY ReturnedStack
  <1>2. top' = f
    BY <1>1 DEF top
  <1>3. /\ \A k \in 1..n : k = n \/ k \in 1..(n - 1)
        /\ \A k \in 1..n : k \in 1..Len(stack)
        /\ \A k \in 1..(n - 1) : k \in 1..n /\ k + 1 \in 1..n /\ k \in 1..(Len(stack) - 1)
    <2>1. ASSUME NEW m \in Nat
          PROVE  /\ \A k \in 1..m : k = m \/ k \in 1..(m - 1)
                 /\ \A k \in 1..m : k \in 1..(m + 1)
                 /\ \A k \in 1..(m - 1) : k \in 1..m /\ k + 1 \in 1..m /\ k \in 1..((m + 1) - 1)
      OBVIOUS
    <2> HIDE DEF n
    <2> QED
      BY <1>1, <2>1
  <1> HIDE DEF n
  <1>4. FramesLeft'
    <2>1. ASSUME NEW k \in 1..n
          PROVE  Traced(KscopeBody, Exp, stack'[k]) /\ BehindAll(stack'[k])
      BY <1>1, <1>3 DEF FileInv, FramesLeft
    <2> QED
      BY <1>1, <2>1 DEF FramesLeft, BehindAll
  <1>5. Waiting(KscopeBody)'
    <2>1. \A k \in 1..n : stack'[k].rule = stack[k].rule
      BY <1>1, <1>3
    <2> QED
      BY <1>1, <1>3, <2>1 DEF FileInv, Waiting
  <1>6. AtOperand'
    BY <1>2 DEF AtOperand, Left
  <1>7. RecordsLeft' /\ FileAlwaysParsed'
    BY RecordsLeftMore DEF FileAlwaysParsed, Running
  <1> QED
    BY <1>4, <1>5, <1>6, <1>7 DEF FileInv

(* The rules that tell of the end. *)
LEMMA RulesLeft ==
  ASSUME BasicInv, Running, FileInv, Returning
  PROVE  /\ top.rule \in {"FILE", "__", "UNKNOWN"} => res
         /\ top.rule \in {"FILE", "UNKNOWN"} => top.curEnd = Len(input)
         /\ top.rule = "EOF" /\ top.start = Len(input) => res
  <1>1. /\ Operand(KscopeBody, top) = KscopeBody[top.rule]
        /\ Left(KscopeBody[top.rule], top.start, top.curStart, res)
    BY DEF Returning, FileInv, AtOperand, Operand, Began
  <1>2. /\ top.start \in Nat /\ top.curStart \in Nat /\ top.curEnd \in Nat /\ Len(input) \in Nat
        /\ top.start <= top.curStart /\ top.curStart <= top.curEnd /\ top.curEnd <= Len(input)
    BY TopLeftFacts
  <1>3. CASE top.rule \in {"FILE", "UNKNOWN"}
    <2>1. NeverFails(KscopeBody[top.rule]) /\ ToTheEnd(KscopeBody[top.rule])
      BY <1>3, KscopeRules DEF NeverFails, ToTheEnd
    <2> QED
      BY <1>1, <1>2, <1>3, <2>1 DEF Left
  <1>4. CASE top.rule = "__"
    <2>1. NeverFails(KscopeBody[top.rule])
      BY <1>4, KscopeRules, FileExpressions DEF NeverFails
    <2> QED
      BY <1>1, <1>4, <2>1 DEF Left
  <1>5. ASSUME top.rule = "EOF", top.start = Len(input) PROVE res
    <2>1. KscopeBody[top.rule] = BANG(DOT) /\ top.curStart = Len(input)
      BY <1>2, <1>5, KscopeRules
    <2> QED
      BY <1>1, <2>1 DEF Left
  <1> QED
    BY <1>3, <1>4, <1>5

(* What T(func) leaves when func has returned. *)
LEMMA CalledLeft ==
  ASSUME NEW e, e.op = "T", NEW from, NEW to, NEW r,
         e.func \in {"__", "UNKNOWN"} => r,
         e.func = "UNKNOWN" => to = Len(input),
         e.func = "EOF" /\ to = Len(input) => r
  PROVE  Left(e, from, to, r)
  BY FileExpressions DEF Left, NeverFails, ToTheEnd

LEMMA SucceedLeft ==
  ASSUME BasicInv, Running, FileInv, Started, grammar.start = "FILE", Succeed
  PROVE  FileInv'
  <1> DEFINE node == Node(top.rule, top.start, top.curEnd)
             rec  == [start |-> top.start, end |-> top.curEnd, ok |-> TRUE,
                      children |-> top.children]
  <1>1. /\ Returning /\ res /\ pc' = "leave" /\ res' = res
        /\ memo' = WithRecord(memo, top.rule, rec) /\ UNCHANGED <<input, errors>>
    BY DEF Succeed, Leave, memoize, WithRecord
  <1>2. rec \in Record /\ rec.end = top.curEnd /\ rec.ok
    BY ReturnFacts DEF Record
  <1>3. node \in Span /\ node.end = top.curEnd
    BY ReturnFacts DEF Node, Span
  <1>4. /\ top.start \in Nat /\ top.curEnd \in Nat /\ Len(input) \in Nat
        /\ top.start <= top.curEnd /\ top.curEnd <= Len(input)
    BY ReturnFacts, TopLeftFacts
  <1> HIDE DEF rec
  <1>5. top.rule \in {"FILE", "UNKNOWN"} => top.curEnd = Len(input)
    BY <1>1, RulesLeft
  <1>6. RecordLeft(top.rule, rec)
    BY <1>2, <1>5 DEF RecordLeft
  <1>7. CASE Len(stack) > 1
    <2> DEFINE g == AddChild(caller, node)
    <2>1. stack' = ReturnTo(g) /\ status' = status
      BY <1>7 DEF Succeed
    <2>2. /\ caller \in Frame /\ Traced(KscopeBody, Exp, caller) /\ BehindAll(caller)
          /\ caller.curStart = top.start
          /\ Operand(KscopeBody, caller).op = "T"
          /\ Operand(KscopeBody, caller).func = top.rule
      BY <1>7, CallerLeft
    <2> HIDE DEF node
    <2>3. /\ g \in Frame /\ g.rule = caller.rule /\ g.ctl = caller.ctl /\ g.curStart = top.curEnd
      BY <1>3, <2>2, Added
    <2> HIDE DEF g
    <2>4. Traced(KscopeBody, Exp, g) /\ Operand(KscopeBody, g) = Operand(KscopeBody, caller)
      BY <2>2, <2>3 DEF Traced, Operand, LastCtx
    <2>5. BehindAll(g)
      <3>1. top.start = Len(input) => top.curEnd = Len(input)
        BY <1>4
      <3> QED
        BY <2>2, <2>3, <3>1 DEF BehindAll, LastCtx
    <2>6. Left(Operand(KscopeBody, g), Began(g), g.curStart, res')
      BY <1>1, <1>5, <2>2, <2>3, <2>4, CalledLeft
    <2> QED
      BY <1>1, <1>2, <1>6, <1>7, <2>1, <2>3, <2>4, <2>5, <2>6, ReturnLeft
  <1>8. CASE ~(Len(stack) > 1)
    <2>1. stack' = <<>> /\ status' = "done" /\ root' = node
      BY <1>8 DEF Succeed
    <2>2. Len(stack) = 1 /\ top.rule = "FILE" /\ top.start = 0
      <3>1. Len(stack) = 1 /\ top = stack[Len(stack)]
        BY <1>8, TopLeftFacts, OneOrMore
      <3> QED
        BY <3>1 DEF Started
    <2>3. errors.num = 0
      BY <1>1 DEF BasicInv, ErrorsOnlyOnFailure
    <2>4. FileAlwaysParsed'
      BY <1>1, <1>5, <2>1, <2>2, <2>3 DEF FileAlwaysParsed
    <2>5. RecordsLeft'
      BY <1>1, <1>2, <1>6, RecordsLeftMore
    <2>6. FramesLeft' /\ Waiting(KscopeBody)' /\ AtOperand'
      BY <2>1 DEF FramesLeft, Waiting, AtOperand, Running
    <2> QED
      BY <2>4, <2>5, <2>6 DEF FileInv
  <1> QED
    BY <1>7, <1>8

LEMMA FailLeft ==
  ASSUME BasicInv, Running, FileInv, Started, grammar.start = "FILE", Fail
  PROVE  FileInv'
  <1> DEFINE rec == [start |-> top.start, end |-> top.start, ok |-> FALSE,
                     children |-> <<>>]
  <1>1. /\ Returning /\ ~res /\ pc' = "leave" /\ res' = res /\ input' = input
        /\ memo' = WithRecord(memo, top.rule, rec)
    BY DEF Fail, Leave, memoize, WithRecord
  <1>2. rec \in Record /\ rec.start = top.start
    BY ReturnFacts DEF Record
  <1> HIDE DEF rec
  <1>3. /\ top.rule \notin {"FILE", "__", "UNKNOWN"}
        /\ ~(top.rule = "EOF" /\ top.start = Len(input))
    BY <1>1, RulesLeft
  <1>4. RecordLeft(top.rule, rec)
    BY <1>2, <1>3 DEF RecordLeft
  <1>5. Len(stack) > 1
    <2>1. ASSUME ~(Len(stack) > 1) PROVE top.rule = "FILE"
      <3>1. Len(stack) = 1 /\ top = stack[Len(stack)]
        BY <2>1, TopLeftFacts, OneOrMore
      <3> QED
        BY <3>1 DEF Started
    <2> QED
      BY <1>3, <2>1
  <1>6. stack' = ReturnTo(caller) /\ status' = status
    BY <1>5 DEF Fail
  <1>7. /\ caller \in Frame /\ Traced(KscopeBody, Exp, caller) /\ BehindAll(caller)
        /\ caller.curStart = top.start
        /\ Operand(KscopeBody, caller).op = "T"
        /\ Operand(KscopeBody, caller).func = top.rule
    BY <1>5, CallerLeft
  <1>8. Left(Operand(KscopeBody, caller), Began(caller), caller.curStart, res')
    BY <1>1, <1>3, <1>7, CalledLeft
  <1> QED
    BY <1>1, <1>2, <1>4, <1>5, <1>6, <1>7, <1>8, ReturnLeft

-----------------------------------------------------------------------------
LEMMA FileInit ==
  ASSUME Init, grammar.body = KscopeBody
  PROVE  FileInv
  <1> DEFINE f == Activation(grammar.start, 0)
  <1>1. /\ stack = <<f>> /\ pc = "enter" /\ exp = KscopeBody[f.rule] /\ f.ctl = <<>>
        /\ \A type \in Rule : memo[type] = <<>>
        /\ status = "running"
    BY DEF Init, Activation
  <1> HIDE DEF f
  <1>2. top = f /\ Len(stack) = 1 /\ stack[1] = f
    BY <1>1 DEF top
  <1>3. FramesLeft /\ Waiting(KscopeBody)
    <2>1. Traced(KscopeBody, Exp, f) /\ BehindAll(f)
      BY <1>1 DEF Traced, BehindAll
    <2> QED
      BY <1>2, <2>1 DEF FramesLeft, Waiting
  <1>4. AtOperand
    BY <1>1, <1>2 DEF AtOperand, Operand
  <1>5. RecordsLeft
    <2>1. \A type \in Rule : Len(memo[type]) = 0
      BY <1>1
    <2> QED
      BY <2>1 DEF RecordsLeft
  <1>6. FileAlwaysParsed
    BY <1>1 DEF FileAlwaysParsed
  <1> QED
    BY <1>3, <1>4, <1>5, <1>6 DEF FileInv

LEMMA FileNext ==
  ASSUME BasicInv, Started, FileInv, [Next]_vars,
         MadeOf(KscopeBody, Exp), grammar.body = KscopeBody, grammar.start = "FILE"
  PROVE  FileInv'
  <1>1. CASE EnterMacro
    BY <1>1, EnterMacroLeft DEF EnterMacro
  <1>2. CASE SeqRight \/ DisjRight \/ StarAgain \/ PlusAgain
    <2>1. Running
      BY <1>2 DEF SeqRight, DisjRight, StarAgain, PlusAgain, Leaving
    <2> QED
      BY <1>2, <2>1, AgainLeft
  <1>3. CASE \/ SeqEnd \/ DisjEnd \/ StarEnd \/ PlusEnd
             \/ QuesEnd \/ BangEnd \/ HideEnd \/ AmpEnd
    <2>1. Running
      BY <1>3 DEF SeqEnd, DisjEnd, StarEnd, PlusEnd, QuesEnd, BangEnd, HideEnd, AmpEnd, Leaving
    <2> QED
      BY <1>3, <2>1, EndLeft
  <1>4. CASE Match
    BY <1>4, MatchLeft DEF Match, MatchString, MatchClass, MatchDot, Entering
  <1>5. CASE CallMemoized
    BY <1>5, CallMemoizedLeft DEF CallMemoized, Entering
  <1>6. CASE CallFunction
    BY <1>6, CallFunctionLeft DEF CallFunction, Entering
  <1>7. CASE Exhaust
    BY <1>7, ExhaustLeft
  <1>8. CASE Succeed
    BY <1>8, SucceedLeft DEF Succeed, Returning
  <1>9. CASE Fail
    BY <1>9, FailLeft DEF Fail, Returning
  <1>10. CASE UNCHANGED vars
    BY <1>10 DEF vars, FileInv, FramesLeft, BehindAll, Waiting, AtOperand, Left, top,
                 RecordsLeft, RecordLeft, FileAlwaysParsed, Running
  <1> QED
    BY <1>1, <1>2, <1>3, <1>4, <1>5, <1>6, <1>7, <1>8, <1>9, <1>10
       DEF Next, Step, Macro, Function, Terminated

(* Whatever the text, and whatever it is made of: kscope_parse ends with   *)
(* a FILE that is the whole of it and an empty error list.                 *)
THEOREM FileAlwaysParsedCorrect == Grammars = {Kscope} => (Spec => []FileAlwaysParsed)
  <1> SUFFICES ASSUME Grammars = {Kscope} PROVE Spec => []FileAlwaysParsed
    OBVIOUS
  <1>1. MadeOf(KscopeBody, Exp)
    BY KscopeMadeOf
  <1>2. TypeOK => grammar.body = KscopeBody /\ grammar.start = "FILE"
    BY DEF TypeOK, Kscope
  <1>3. Init => FileInv
    <2>1. Init => grammar.body = KscopeBody
      BY DEF Init, Kscope
    <2> QED
      BY <2>1, FileInit
  <1>4. BasicInv /\ Started /\ FileInv /\ [Next]_vars => FileInv'
    BY <1>1, <1>2, FileNext DEF BasicInv
  <1>5. FileInv => FileAlwaysParsed
    BY DEF FileInv
  <1> QED
    BY <1>3, <1>4, <1>5, BasicCorrect, StartedCorrect, PTL DEF Spec
=============================================================================
