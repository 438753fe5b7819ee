------------------------------- MODULE NavAids -------------------------------
(***************************************************************************)
(* NavAids over its QuadTree: the navigation aids that a nav data source    *)
(* adds one by one, found again by name, by name near a place, and by place.*)
(*                                                                          *)
(* The tree is the set of its leaves.  A leaf with no room left is split    *)
(* into four and its objects are inserted again, each into the new leaf     *)
(* whose box contains it, before the new one is.  Coordinates are whole     *)
(* numbers, and half of a box of size 1 is a box of size 0 that contains    *)
(* nothing: doubles come to the same end after some fifty halvings.         *)
(***************************************************************************)
EXTENDS Integers, Sequences, FiniteSets

CONSTANTS
  Size,      \* the side of the root's box (360 degrees), a power of two
  Capacity,  \* QT_NODE_CAPACITY
  Places,    \* where nav aids may be: pairs of coordinates
  Ids,       \* their names
  MaxAids    \* bound: nav aids added

(* The sides of boxes: the root's, halved down to 1. *)
AreSides(S) ==
  Size \in S /\ \A n \in S : n = 1 \/ \E half \in S : n = half + half

NavAidConstants ==
  /\ Capacity \in Nat \ {0} /\ MaxAids \in Nat
  /\ Size \in Nat \ {0} /\ \E S \in SUBSET (1..Size) : AreSides(S)
  /\ Places \subseteq Int \X Int

VARIABLES
  aids,       \* the nav aids added so far: [id, place], in order
  leaves,     \* the leaves of the tree: the objects that each box holds
  inserting,  \* the objects still to be inserted, first the next one
  aidsById,   \* m_navAidsById: the nav aids of each name, in order
  aborted     \* insert() has called abort()

vars == <<aids, leaves, inserting, aidsById, aborted>>

Box(x, y, n) == [x |-> x, y |-> y, size |-> n]
Root == Box(0, 0, Size)

(* The bug of counting a box's upper edges as its own. *)
Contains_Closed(box, p) ==
  /\ p[1] \in box.x..(box.x + box.size)
  /\ p[2] \in box.y..(box.y + box.size)

Contains(box, p) ==
  /\ p[1] \in box.x..(box.x + box.size - 1)
  /\ p[2] \in box.y..(box.y + box.size - 1)

Quarters(box) ==
  LET half == box.size \div 2
  IN  {Box(box.x, box.y, half), Box(box.x, box.y + half, half),
       Box(box.x + half, box.y + half, half), Box(box.x + half, box.y, half)}

(* The leaf an object belongs to, in the order in which insert() asks.      *)
LeavesOf(o) == {box \in DOMAIN leaves : Contains(box, aids[o].place)}
LeafOf(o) == CHOOSE box \in LeavesOf(o) : TRUE

(* Objects in the order in which they were added. *)
Orders(S) ==
  {s \in [1..Cardinality(S) -> S] :
     /\ \A i, j \in 1..Cardinality(S) : i < j => s[i] < s[j]
     /\ \A o \in S : \E i \in 1..Cardinality(S) : s[i] = o}

Init ==
  /\ aids = << >>
  /\ leaves = [box \in {Root} |-> {}]
  /\ inserting = << >>
  /\ aidsById = [i \in Ids |-> << >>]
  /\ aborted = FALSE

(* addNavAid(): a nav aid outside the tree is only found by name.           *)
AddNavAid ==
  /\ inserting = << >> /\ ~aborted
  /\ Len(aids) < MaxAids
  /\ \E i \in Ids, p \in Places :
       /\ aids' = Append(aids, [id |-> i, place |-> p])
       /\ aidsById' = [aidsById EXCEPT ![i] = Append(@, Len(aids) + 1)]
       /\ inserting' = IF Contains(Root, p) THEN <<Len(aids) + 1>> ELSE << >>
  /\ UNCHANGED <<leaves, aborted>>

(* insert() into a leaf that has room. *)
PutInLeaf ==
  /\ inserting # << >>
  /\ LET o == Head(inserting)
     IN  /\ LeavesOf(o) # {}
         /\ Cardinality(leaves[LeafOf(o)]) < Capacity
         /\ leaves' = [leaves EXCEPT ![LeafOf(o)] = @ \cup {o}]
  /\ inserting' = Tail(inserting)
  /\ UNCHANGED <<aids, aidsById, aborted>>

(* The bug of forgetting the objects of the node that is split. *)
Subdivide_Forgets ==
  /\ inserting # << >>
  /\ LET o == Head(inserting)
         box == LeafOf(o)
     IN  /\ LeavesOf(o) # {}
         /\ Cardinality(leaves[box]) >= Capacity
         /\ leaves' = [b \in (DOMAIN leaves \ {box}) \cup Quarters(box) |->
                         IF b \in Quarters(box) THEN {} ELSE leaves[b]]
  /\ UNCHANGED <<aids, inserting, aidsById, aborted>>

(* subdivide(): the old objects are inserted into the quarters, in order.   *)
Subdivide ==
  /\ inserting # << >>
  /\ LET o == Head(inserting)
         box == LeafOf(o)
     IN  /\ LeavesOf(o) # {}
         /\ Cardinality(leaves[box]) >= Capacity
         /\ leaves' = [b \in (DOMAIN leaves \ {box}) \cup Quarters(box) |->
                         IF b \in Quarters(box) THEN {} ELSE leaves[b]]
         /\ \E order \in Orders(leaves[box]) : inserting' = order \o inserting
  /\ UNCHANGED <<aids, aidsById, aborted>>

(* No quarter contains the object.  Of one that is moved nothing is said;   *)
(* the new one ends the program.                                            *)
NoLeaf ==
  /\ inserting # << >>
  /\ LeavesOf(Head(inserting)) = {}
  /\ inserting' = Tail(inserting)
  /\ aborted' = (Tail(inserting) = << >>)
  /\ UNCHANGED <<aids, leaves, aidsById>>

Next == AddNavAid \/ PutInLeaf \/ Subdivide \/ NoLeaf

Spec == Init /\ [][Next]_vars

-----------------------------------------------------------------------------
(* The questions.                                                           *)

Distance(p, q) == (p[1] - q[1]) * (p[1] - q[1]) + (p[2] - q[2]) * (p[2] - q[2])

(* findById(id, near): the first of the nearest. *)
FindById(i, near) ==
  LET at(n) == aids[aidsById[i][n]].place
  IN  CHOOSE n \in DOMAIN aidsById[i] :
        /\ \A m \in DOMAIN aidsById[i] : Distance(at(n), near) <= Distance(at(m), near)
        /\ \A m \in 1..(n - 1) : Distance(at(n), near) < Distance(at(m), near)

(* The node above a leaf: the box twice its size that it is a quarter of.   *)
Parent(box) ==
  Box(box.x - (box.x % (2 * box.size)), box.y - (box.y % (2 * box.size)),
      2 * box.size)

Inside(inner, outer) == Contains(outer, <<inner.x, inner.y>>) /\ inner.size <= outer.size

(* What findNearest() looks through: all that the parent of the point's     *)
(* leaf holds.  The answers of checkParent() are put into a copy and lost.  *)
(* A root that was never split has no parent, which is dereferenced.        *)
Candidates(p) ==
  LET leaf == CHOOSE box \in DOMAIN leaves : Contains(box, p)
  IN  UNION {leaves[box] : box \in {b \in DOMAIN leaves : Inside(b, Parent(leaf))}}

CanFind(p) == Contains(Root, p) /\ DOMAIN leaves # {Root}

FindNearest(p) ==
  {o \in Candidates(p) : \A q \in Candidates(p) :
     Distance(aids[o].place, p) <= Distance(aids[q].place, p)}

-----------------------------------------------------------------------------
Settled == inserting = << >> /\ ~aborted
Inserted == {o \in DOMAIN aids : Contains(Root, aids[o].place)}

(* Every variable stays in its domain, and no leaf holds too much.          *)
TypeOK ==
  /\ aids \in Seq([id : Ids, place : Places]) /\ Len(aids) <= MaxAids
  /\ \A box \in DOMAIN leaves :
       /\ box.size \in 0..Size
       /\ leaves[box] \subseteq DOMAIN aids /\ Cardinality(leaves[box]) <= Capacity
  /\ \A i \in DOMAIN inserting : inserting[i] \in DOMAIN aids
  /\ \A i \in Ids : \A n \in DOMAIN aidsById[i] : aids[aidsById[i][n]].id = i
  /\ aborted \in BOOLEAN

(* Between two insertions every nav aid of the region is in the tree, in    *)
(* one leaf only and in the one whose box contains it, however often the    *)
(* leaf it was put into has been split since.                               *)
EveryAidInOneLeaf ==
  Settled => \A o \in Inserted :
    /\ Cardinality({box \in DOMAIN leaves : o \in leaves[box]}) = 1
    /\ LeavesOf(o) = {box \in DOMAIN leaves : o \in leaves[box]}

(* The nav aid at a place is found there, by its place as by its name: the  *)
(* candidates are few, but the nearest one at distance zero is among them.  *)
AidsAreFound ==
  Settled => \A o \in Inserted :
    LET p == aids[o].place
    IN  /\ CanFind(p) =>
             FindNearest(p) # {} /\ \A q \in FindNearest(p) : aids[q].place = p
        /\ aids[aidsById[aids[o].id][FindById(aids[o].id, p)]].place = p

(* "This shouldn't happen": an object in the box of a node is in the box of *)
(* one of its children.                                                     *)
InsertFindsAChild == ~aborted
=============================================================================
