---------------------------- MODULE BTreeSearch ----------------------------
(***************************************************************************)
(* src/btree_search_analysis/btree_search_demo.c: the descent from the root *)
(* to a leaf, with the move to the right and the binary search in a page.   *)
(*                                                                          *)
(* A page is what a process sees between two reads of it.  The demo itself  *)
(* never changes a page; the splits that _bt_moveright is there for are an  *)
(* action of the environment, Split.                                        *)
(***************************************************************************)
EXTENDS Integers, Sequences, FiniteSets

CONSTANTS
  SampleTree,    \* create_sample_tree: the pages by block number
  LeafRow,       \* its leaves from left to right
  Root,
  INVALID_BLOCK, \* the right_link of a rightmost page
  NoKey,         \* the high_key of a page without one
  ScanKeys,
  MaxPages       \* bound: pages after splits

\* What one page holds.
BTPage ==
  [leaf : BOOLEAN, keys : Seq(Int), children : Seq(Nat),
   right_link : Nat \cup {INVALID_BLOCK}, high_key : Int \cup {NoKey}]

Ascending(keys) == \A i, j \in DOMAIN keys : i < j => keys[i] < keys[j]

\* b is the right neighbour of a.
RightOf(tree, a, b) == tree[a].right_link = b

\* Leaf b follows a: the high key of a is the first key of b.
Follow(a, b) ==
  /\ \A i \in DOMAIN a.keys : a.keys[i] < a.high_key
  /\ b.keys # <<>> /\ b.keys[1] = a.high_key

\* The pages are in order.  The leaves are linked in a row.  Pages that are
\* linked are of the same kind, and the high key divides them.  What is left of
\* a child is less than the key before it, what is left of the first child is
\* left of its parent.
LinkedIn(tree, row) ==
  /\ row \in Seq(DOMAIN tree) /\ row # <<>>
  /\ {row[i] : i \in DOMAIN row} = {b \in DOMAIN tree : tree[b].leaf}
  /\ \A i, j \in DOMAIN row : row[i] = row[j] => i = j
  /\ \A i \in DOMAIN row :
       tree[row[i]].right_link = IF i < Len(row) THEN row[i + 1] ELSE INVALID_BLOCK

PagesInOrder(tree) ==
  /\ \A b \in DOMAIN tree :
       /\ tree[b] \in BTPage /\ Ascending(tree[b].keys)
       /\ \A i \in DOMAIN tree[b].keys : tree[b].keys[i] # NoKey
       /\ tree[b].high_key = NoKey <=> tree[b].right_link = INVALID_BLOCK
       /\ tree[b].right_link \in DOMAIN tree \cup {INVALID_BLOCK}
  /\ \A a, b \in DOMAIN tree :
       RightOf(tree, a, b) =>
         /\ tree[a].leaf = tree[b].leaf
         /\ tree[a].leaf => Follow(tree[a], tree[b])
         /\ \A c \in DOMAIN tree : RightOf(tree, c, b) => c = a

ChildrenInOrder(tree) ==
  \A b \in DOMAIN tree :
    ~tree[b].leaf =>
      /\ Len(tree[b].children) = Len(tree[b].keys) + 1
      /\ \A i \in DOMAIN tree[b].children :
           /\ tree[b].children[i] \in DOMAIN tree
           /\ \A a \in DOMAIN tree :
                RightOf(tree, a, tree[b].children[i]) =>
                  IF i > 1 THEN tree[a].high_key <= tree[b].keys[i - 1]
                  ELSE \E c \in DOMAIN tree : /\ RightOf(tree, c, b)
                                              /\ tree[a].high_key <= tree[c].high_key

InOrder(tree, row) == LinkedIn(tree, row) /\ PagesInOrder(tree) /\ ChildrenInOrder(tree)

ASSUME TreeAssumption ==
  /\ DOMAIN SampleTree = 0 .. Cardinality(DOMAIN SampleTree) - 1
  /\ IsFiniteSet(DOMAIN SampleTree)
  /\ InOrder(SampleTree, LeafRow)
  /\ Root \in DOMAIN SampleTree
  /\ \A b \in DOMAIN SampleTree : ~RightOf(SampleTree, b, Root)
  /\ Cardinality(DOMAIN SampleTree) <= MaxPages /\ MaxPages \in Nat
  /\ INVALID_BLOCK \notin 0 .. MaxPages - 1 /\ ScanKeys \subseteq Int

VARIABLES
  pages,          \* pages[b]: leaf, keys and children (indices from 0 as the
                  \* code's), right_link, high_key
  scankey, nextkey,
  page,           \* the block that is being looked at
  phase,          \* "moving" right, "searching" in the page or "found"
  low, high,      \* the bounds of the binary search
  stack           \* the parents and offsets passed, the last one first

btreeVars == <<pages, scankey, nextkey, page, phase, low, high, stack>>

BTreeInit ==
  /\ pages = SampleTree
  /\ scankey \in ScanKeys /\ nextkey \in BOOLEAN
  /\ page = Root /\ phase = "moving"
  /\ low = 0 /\ high = 0
  /\ stack = <<>>

NumKeys(b) == Len(pages[b].keys)
Key(b, offnum) == pages[b].keys[offnum + 1]
Child(b, offnum) == pages[b].children[offnum + 1]

-----------------------------------------------------------------------------

\* Mutant: nextkey is always on.
BeyondOrAt(key) == scankey >= key

\* The key lies beyond one of the tree, beyond or at it with nextkey: a
\* comparison result that is at least cmpval.
Beyond(key) == IF nextkey THEN scankey >= key ELSE scankey > key

\* _bt_compare, as far as its caller looks at the result: the first key of an
\* internal page counts as minus infinity, what is out of range as infinity.
BeyondSlot(b, offnum) ==
  \/ ~pages[b].leaf /\ offnum = 0
  \/ offnum < NumKeys(b) /\ Beyond(Key(b, offnum))

\* Mutant: nextkey is not looked at.
MustMoveStrictly ==
  /\ pages[page].right_link # INVALID_BLOCK
  /\ pages[page].high_key # NoKey /\ scankey > pages[page].high_key

\* The key lies beyond all of the page.
MustMove ==
  /\ pages[page].right_link # INVALID_BLOCK
  /\ pages[page].high_key # NoKey /\ Beyond(pages[page].high_key)

\* _bt_moveright
MoveRight ==
  /\ phase = "moving" /\ MustMove
  /\ page' = pages[page].right_link
  /\ UNCHANGED <<pages, scankey, nextkey, phase, low, high, stack>>

\* _bt_binsrch
StartSearch ==
  /\ phase = "moving" /\ ~MustMove
  /\ phase' = "searching"
  /\ low' = 0 /\ high' = NumKeys(page) + 1
  /\ UNCHANGED <<pages, scankey, nextkey, page, stack>>

Halve ==
  LET mid == low + ((high - low) \div 2)
  IN  /\ phase = "searching" /\ high > low
      /\ \/ BeyondSlot(page, mid) /\ low' = mid + 1 /\ UNCHANGED high
         \/ ~BeyondSlot(page, mid) /\ high' = mid /\ UNCHANGED low
      /\ UNCHANGED <<pages, scankey, nextkey, page, phase, stack>>

\* The rest of the loop body of _bt_search: the last slot before low.
Descend ==
  LET offnum == IF low > 0 THEN low - 1 ELSE 0
  IN  /\ phase = "searching" /\ high <= low /\ ~pages[page].leaf
      /\ stack' = <<[bts_blkno |-> page, bts_offset |-> offnum]>> \o stack
      /\ page' = Child(page, offnum)
      /\ phase' = "moving"
      /\ UNCHANGED <<pages, scankey, nextkey, low, high>>

\* The offset found on the leaf is low.
Found ==
  /\ phase = "searching" /\ high <= low /\ pages[page].leaf
  /\ phase' = "found"
  /\ UNCHANGED <<pages, scankey, nextkey, page, low, high, stack>>

\* Another process splits a leaf, the upper half of whose keys moves to a new
\* page on its right; the parent does not know the new page yet.  A page that
\* is being searched is locked.
Split(b) ==
  LET new  == Cardinality(DOMAIN pages)
      half == NumKeys(b) \div 2
      left == [pages[b] EXCEPT !.keys = SubSeq(@, 1, half),
                               !.right_link = new,
                               !.high_key = Key(b, half)]
      right == [pages[b] EXCEPT !.keys = SubSeq(@, half + 1, Len(@))]
  IN  /\ phase = "moving" /\ pages[b].leaf /\ NumKeys(b) > 1
      /\ new < MaxPages
      /\ pages' = [n \in DOMAIN pages \cup {new} |->
                     IF n = b THEN left ELSE IF n = new THEN right ELSE pages[n]]
      /\ UNCHANGED <<scankey, nextkey, page, phase, low, high, stack>>

BTreeNext ==
  \/ MoveRight \/ StartSearch \/ Halve \/ Descend \/ Found
  \/ \E b \in DOMAIN pages : Split(b)

BTreeSpec == BTreeInit /\ [][BTreeNext]_btreeVars

-----------------------------------------------------------------------------
(* Properties.                                                              *)

\* The keys from leaf b on, along the right links.
KeysFrom ==
  LET from[b \in {b \in DOMAIN pages : pages[b].leaf}] ==
        pages[b].keys \o (IF pages[b].right_link = INVALID_BLOCK THEN <<>>
                          ELSE from[pages[b].right_link])
  IN  from

\* The leaf that is no page's right neighbour.
FirstLeaf ==
  CHOOSE b \in DOMAIN pages :
    pages[b].leaf /\ \A c \in DOMAIN pages : pages[c].right_link # b

\* Wherever leaves are split while the search descends, and although a page's
\* children are one more than the slots the search can choose, the position it
\* returns divides the keys of all the leaves: those before it are less than
\* the scan key (not greater, with nextkey), those from it on are not.
FoundIsPosition ==
  phase = "found" =>
    LET all == KeysFrom[FirstLeaf]
        position == Len(all) - Len(KeysFrom[page]) + low
    IN  \A i \in DOMAIN all :
          i <= position <=> all[i] < scankey \/ (nextkey /\ all[i] = scankey)

\* A search for a key the tree holds ends on that key, unless the key is the
\* high key of the leaf, which the search then does not leave: the position is
\* the end of that leaf and the key the first one of the next.
MatchIsHere ==
  phase = "found" /\ ~nextkey
    /\ (\E b \in DOMAIN pages : pages[b].leaf /\ \E i \in DOMAIN pages[b].keys :
                                   pages[b].keys[i] = scankey)
  => IF scankey = pages[page].high_key
     THEN low = NumKeys(page) /\ Key(pages[page].right_link, 0) = scankey
     ELSE low < NumKeys(page) /\ Key(page, low) = scankey
=============================================================================
