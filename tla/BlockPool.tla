------------------------------ MODULE BlockPool ------------------------------
(***************************************************************************)
(* What the graphics memory promises to those who ask for buffers, with no *)
(* chunks, lists or descriptors: a buffer gets room of its own, beginning  *)
(* on a page, and is refused only if there is no such room anywhere in the *)
(* heap.  Module Gralloc implements this specification (Gralloc!Pool).     *)
(***************************************************************************)
EXTENDS Integers

CONSTANTS Buffers,   \* whoever may hold a block
          Amounts,   \* what they ask for
          PageSize   \* the distance of the places where a block may begin

VARIABLES heap,      \* the size of the heap; 0 before it is known
          asked,     \* asked[b]: how much b asks for; 0 if it does not
          held,      \* held[b]: the block of b; Nothing if it has none
          refused,   \* those who were told that there is no room
          lost       \* blocks that nobody holds and that are never given again

pvars == <<heap, asked, held, refused, lost>>

Block(start, size) == [start |-> start, size |-> size]
Nothing == Block(0, 0)

PInit ==
  /\ heap = 0
  /\ asked = [b \in Buffers |-> 0]
  /\ held = [b \in Buffers |-> Nothing]
  /\ refused = {}
  /\ lost = {}

Blocks == {held[b] : b \in Buffers} \cup lost

Apart(start, size, block) ==
  start + size <= block.start \/ block.start + block.size <= start

Room(start, size) ==
  /\ start + size <= heap
  /\ \A block \in Blocks : block # Nothing => Apart(start, size, block)

Places == {start \in 0..heap : start % PageSize = 0}

SetHeap ==
  /\ heap = 0
  /\ heap' \in Nat
  /\ UNCHANGED <<asked, held, refused, lost>>

Ask(b) ==
  /\ asked[b] = 0 /\ held[b] = Nothing /\ b \notin refused
  /\ \E size \in Amounts : asked' = [asked EXCEPT ![b] = size]
  /\ UNCHANGED <<heap, held, refused, lost>>

Grant(b) ==
  /\ asked[b] # 0
  /\ \E start \in Places :
       /\ Room(start, asked[b])
       /\ held' = [held EXCEPT ![b] = Block(start, asked[b])]
  /\ asked' = [asked EXCEPT ![b] = 0]
  /\ UNCHANGED <<heap, refused, lost>>

Refuse(b) ==
  /\ asked[b] # 0
  /\ \A start \in Places : ~Room(start, asked[b])
  /\ asked' = [asked EXCEPT ![b] = 0]
  /\ refused' = refused \cup {b}
  /\ UNCHANGED <<heap, held, lost>>

GiveUp(b) ==
  /\ b \in refused
  /\ refused' = refused \ {b}
  /\ UNCHANGED <<heap, asked, held, lost>>

GiveBack(b) ==
  /\ held[b] # Nothing
  /\ held' = [held EXCEPT ![b] = Nothing]
  /\ UNCHANGED <<heap, asked, refused, lost>>

Lose(b) ==
  /\ held[b] # Nothing
  /\ lost' = lost \cup {held[b]}
  /\ held' = [held EXCEPT ![b] = Nothing]
  /\ UNCHANGED <<heap, asked, refused>>

PNext ==
  \/ SetHeap
  \/ \E b \in Buffers :
       Ask(b) \/ Grant(b) \/ Refuse(b) \/ GiveUp(b) \/ GiveBack(b) \/ Lose(b)

PSpec == PInit /\ [][PNext]_pvars
=============================================================================
