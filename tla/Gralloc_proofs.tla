---------------------------- MODULE Gralloc_proofs ----------------------------
(***************************************************************************)
(* Proofs about the graphics memory, for any number of buffers, any sizes  *)
(* and any size of the region.  The first part is about the sub-allocator  *)
(* alone: what alloc and dealloc do to a list of chunks that tiles a heap. *)
(***************************************************************************)
EXTENDS Gralloc, WellFoundedInduction, TLAPS

-----------------------------------------------------------------------------
(* Lists of chunks                                                         *)

ListType(L) ==
  /\ DOMAIN L \subseteq Nat
  /\ L \in [DOMAIN L -> [size : Nat, free : BOOLEAN]]

EndOf(L, c) == c + L[c].size

Within(L, H) == \A c \in DOMAIN L : L[c].size > 0 /\ EndOf(L, c) <= H
Ordered(L) == \A c, d \in DOMAIN L : c < d => EndOf(L, c) <= d
Covers(L, H) == \A x \in 0..H - 1 : \E c \in DOMAIN L : c <= x /\ x < EndOf(L, c)
Tiles(L, H) == ListType(L) /\ Within(L, H) /\ Ordered(L) /\ Covers(L, H)

Merged(L) == \A c \in DOMAIN L : L[c].free /\ EndOf(L, c) \in DOMAIN L => ~L[EndOf(L, c)].free

\* What list R keeps of list L, except for the chunk at s: the blocks in use.
KeepsBlocks(L, R, s) ==
  /\ \A x \in DOMAIN L : x # s /\ ~L[x].free => x \in DOMAIN R /\ R[x] = L[x]
  /\ \A x \in DOMAIN R : x # s /\ ~R[x].free => x \in DOMAIN L /\ L[x] = R[x]

\* Every non-empty set of natural numbers has a least element.
LEMMA LeastNat ==
  ASSUME NEW S, S \subseteq Nat, S # {}
  PROVE  \E m \in S : \A n \in S : m <= n
<1>1. PICK m \in S : \A n \in S : ~(<<n, m>> \in OpToRel(<, Nat))
  BY NatLessThanWellFounded, WFMin
<1>2. \A n \in S : m <= n
  <2>1. TAKE n \in S
  <2>2. n \in Nat /\ m \in Nat
    OBVIOUS
  <2>3. ~(n < m)
    BY <1>1, <2>2 DEF OpToRel
  <2>. QED BY <2>2, <2>3
<1>. QED BY <1>2

\* alloc finds a chunk that fits if there is one.
LEMMA BestFitFits ==
  ASSUME NEW L, ListType(L), NEW n \in Nat, HasFit(L, n)
  PROVE  BestFit(L, n) \in DOMAIN L /\ Fits(L, BestFit(L, n), n)
<1>. DEFINE F == {c \in DOMAIN L : Fits(L, c, n)}
            Sz == {L[c].size : c \in F}
<1>1. F # {} /\ F \subseteq Nat
  BY DEF HasFit, ListType
<1>2. \A c \in F : L[c].size \in Nat
  BY DEF ListType
<1>3. Sz # {} /\ Sz \subseteq Nat
  BY <1>1, <1>2
<1>4. PICK m \in Sz : \A k \in Sz : m <= k
  BY <1>3, LeastNat
<1>. DEFINE G == {c \in F : L[c].size = m}
<1>5. G # {} /\ G \subseteq Nat
  BY <1>1, <1>4
<1>6. PICK c \in G : \A d \in G : c <= d
  BY <1>5, LeastNat
<1>7. \A d \in DOMAIN L : Fits(L, d, n) =>
         L[c].size < L[d].size \/ (L[c].size = L[d].size /\ c <= d)
  <2>1. TAKE d \in DOMAIN L
  <2>2. HAVE Fits(L, d, n)
  <2>3. d \in F /\ L[d].size \in Sz
    BY <2>2
  <2>4. L[c].size = m /\ m <= L[d].size /\ m \in Nat /\ L[d].size \in Nat
    BY <1>2, <1>3, <1>4, <1>6, <2>3
  <2>5. CASE L[d].size = m
    BY <1>6, <2>3, <2>4, <2>5
  <2>6. CASE L[d].size # m
    BY <2>4, <2>6
  <2>. QED BY <2>5, <2>6
<1>8. c \in DOMAIN L /\ Fits(L, c, n)
  BY <1>6
<1>. QED
  BY <1>7, <1>8 DEF BestFit

LEMMA ExtraFacts ==
  ASSUME NEW s \in Nat
  PROVE  /\ Extra(s) \in 0..Page - 1
         /\ (s + Extra(s)) % Page = 0
         /\ \A x \in Nat : x >= s /\ x % Page = 0 => x >= s + Extra(s)
BY SMT DEF Extra, Page, pagesize, kMemoryAlign

-----------------------------------------------------------------------------
(* alloc                                                                   *)

\* What alloc makes of the chunk at s: e units to the next page, the block of n
\* units at B, and t units that are left.
Carved(L, R, s, n, e, B, t) ==
  /\ s \in Nat /\ e \in Nat /\ B \in Nat /\ t \in Nat /\ B = s + e
  /\ B % Page = 0 /\ EndOf(L, s) = B + n + t /\ L[s].free
  /\ DOMAIN R = DOMAIN L \cup {B} \cup (IF t > 0 THEN {B + n} ELSE {})
  /\ R[B] = Chunk(n, FALSE)
  /\ e > 0 => R[s] = Chunk(e, TRUE)
  /\ t > 0 => R[B + n] = Chunk(t, TRUE)
  /\ \A x \in DOMAIN L : x < s => EndOf(L, x) <= s /\ x # B /\ x # B + n /\ R[x] = L[x]
  /\ \A x \in DOMAIN L : x > s => x >= B + n + t /\ x # B /\ R[x] = L[x]

LEMMA CarveShape ==
  ASSUME NEW L, NEW H \in Nat, Tiles(L, H),
         NEW s \in DOMAIN L, NEW n \in Nat \ {0}, Fits(L, s, n)
  PROVE  Carved(L, Carve(L, s, n), s, n, Extra(s), s + Extra(s), L[s].size - n - Extra(s))
<1>. DEFINE e == Extra(s)
            B == s + e
            t == L[s].size - n - e
            R == Carve(L, s, n)
<1>1. s \in Nat /\ L[s].size \in Nat /\ L[s].free /\ L[s].size >= n + e
  BY DEF Tiles, ListType, Fits
<1>2. e \in Nat /\ B \in Nat /\ B % Page = 0
  BY <1>1, ExtraFacts DEF Page, pagesize, kMemoryAlign
<1>. HIDE DEF e
<1>3. t \in Nat /\ EndOf(L, s) = B + n + t
  BY <1>1, <1>2 DEF EndOf
<1>. DEFINE D == DOMAIN L \cup {B} \cup (IF t > 0 THEN {B + n} ELSE {})
            V(x) == IF x = B THEN Chunk(n, FALSE)
                    ELSE IF x = s THEN Chunk(e, TRUE)
                    ELSE IF x = B + n /\ t > 0 THEN Chunk(t, TRUE)
                    ELSE L[x]
<1>v. R = [x \in D |-> V(x)]
  BY DEF Carve, e
<1>. HIDE DEF R, B, t
<1>4. DOMAIN R = D
  BY ONLY <1>v
<1>w. \A x \in D : R[x] = V(x)
  BY ONLY <1>v
<1>5. R[B] = Chunk(n, FALSE)
  BY <1>w
<1>6. ASSUME e > 0  PROVE R[s] = Chunk(e, TRUE)
  <2>1. s # B /\ s \in D
    BY <1>1, <1>2, <1>6 DEF B
  <2>. QED
    BY <2>1, <1>w
<1>7. ASSUME t > 0  PROVE R[B + n] = Chunk(t, TRUE)
  <2>1. B + n # B /\ B + n # s /\ B + n \in D
    BY <1>1, <1>2, <1>7 DEF B
  <2>. QED
    BY <2>1, <1>7, <1>w
<1>8. ASSUME NEW x \in DOMAIN L, x < s
      PROVE  EndOf(L, x) <= s /\ x # B /\ x # B + n /\ R[x] = L[x]
  <2>1. x \in Nat /\ EndOf(L, x) <= s
    BY <1>8 DEF Tiles, ListType, Ordered
  <2>2. x # s /\ x # B /\ x # B + n
    BY <2>1, <1>1, <1>2, <1>8 DEF B
  <2>. QED
    BY <2>1, <2>2, <1>w
<1>9. ASSUME NEW x \in DOMAIN L, x > s
      PROVE  x >= B + n + t /\ x # B /\ R[x] = L[x]
  <2>1. x \in Nat /\ EndOf(L, s) <= x
    BY <1>9, <1>1 DEF Tiles, ListType, Ordered
  <2>2. x >= B + n + t /\ x # s /\ x # B /\ (t > 0 => x # B + n)
    BY <2>1, <1>1, <1>2, <1>3, <1>9 DEF B
  <2>. QED
    BY <2>1, <2>2, <1>w
<1>10. Carved(L, R, s, n, e, B, t)
  BY <1>1, <1>2, <1>3, <1>4, <1>5, <1>6, <1>7, <1>8, <1>9 DEF Carved, B
<1>. QED
  BY <1>10 DEF R, B, t, e

\* alloc cuts a block out of a free chunk: the list still tiles the heap, no two
\* free chunks meet, the block begins on a page and no other block changes.
LEMMA CarveGood ==
  ASSUME NEW L, NEW H \in Nat, Tiles(L, H), Merged(L),
         NEW s \in DOMAIN L, NEW n \in Nat \ {0}, Fits(L, s, n),
         NEW B, B = s + Extra(s), NEW R, R = Carve(L, s, n)
  PROVE  /\ Tiles(R, H) /\ Merged(R)
         /\ B \in DOMAIN R /\ R[B] = Chunk(n, FALSE) /\ B % Page = 0
         /\ B \in DOMAIN L => L[B].free
         /\ KeepsBlocks(L, R, B)
<1>. DEFINE e == Extra(s)
            t == L[s].size - n - e
<1>. HIDE DEF e, t
<1>c. Carved(L, R, s, n, e, B, t)
  BY CarveShape DEF e, t
<1>1. /\ s \in Nat /\ e \in Nat /\ B \in Nat /\ t \in Nat /\ B = s + e
      /\ B % Page = 0 /\ EndOf(L, s) = B + n + t /\ L[s].free
  BY <1>c DEF Carved
<1>2. /\ DOMAIN R = DOMAIN L \cup {B} \cup (IF t > 0 THEN {B + n} ELSE {})
      /\ R[B] = Chunk(n, FALSE)
      /\ e > 0 => R[s] = Chunk(e, TRUE)
      /\ t > 0 => R[B + n] = Chunk(t, TRUE)
  BY <1>c DEF Carved
<1>3. \A x \in DOMAIN L : x < s => EndOf(L, x) <= s /\ x # B /\ x # B + n /\ R[x] = L[x]
  BY <1>c DEF Carved
<1>4. \A x \in DOMAIN L : x > s => x >= B + n + t /\ x # B /\ R[x] = L[x]
  BY <1>c DEF Carved
<1>5. /\ DOMAIN L \subseteq Nat
      /\ \A x \in DOMAIN L : L[x].size \in Nat \ {0} /\ L[x].free \in BOOLEAN /\ EndOf(L, x) <= H
  BY DEF Tiles, ListType, Within
\* The four kinds of chunk of the new list.
<1>6. ASSUME NEW x \in DOMAIN R
      PROVE  \/ x \in DOMAIN L /\ x < s /\ R[x] = L[x] /\ EndOf(R, x) <= s /\ EndOf(R, x) = EndOf(L, x)
             \/ x = s /\ e > 0 /\ R[x] = Chunk(e, TRUE) /\ EndOf(R, x) = B
             \/ x = B /\ R[x] = Chunk(n, FALSE) /\ EndOf(R, x) = B + n
             \/ x = B + n /\ t > 0 /\ R[x] = Chunk(t, TRUE) /\ EndOf(R, x) = B + n + t
             \/ x \in DOMAIN L /\ x >= B + n + t /\ x > s /\ R[x] = L[x] /\ EndOf(R, x) = EndOf(L, x)
  <2>1. CASE x = B
    BY <1>1, <1>2, <2>1 DEF EndOf, Chunk
  <2>2. CASE x = B + n /\ t > 0
    BY <1>1, <1>2, <2>2 DEF EndOf, Chunk
  <2>3. CASE x \in DOMAIN L /\ x < s
    BY <1>3, <2>3 DEF EndOf
  <2>4. CASE x \in DOMAIN L /\ x > s
    BY <1>4, <2>4 DEF EndOf
  <2>5. CASE x = s /\ x # B
    BY <1>1, <1>2, <2>5 DEF EndOf, Chunk
  <2>6. \/ x = B \/ (x = B + n /\ t > 0) \/ (x \in DOMAIN L /\ x < s)
        \/ (x \in DOMAIN L /\ x > s) \/ (x = s /\ x # B)
    BY <1>1, <1>2, <1>5
  <2>. QED
    BY ONLY <2>1, <2>2, <2>3, <2>4, <2>5, <2>6
<1>7. ListType(R)
  <2>1. DOMAIN R \subseteq Nat
    BY <1>1, <1>2, <1>5
  <2>2. \A x \in DOMAIN R : R[x] \in [size : Nat, free : BOOLEAN]
    <3>1. TAKE x \in DOMAIN R
    <3>2. x \in DOMAIN L => L[x] \in [size : Nat, free : BOOLEAN]
      BY DEF Tiles, ListType
    <3>3. \A m \in Nat, f \in BOOLEAN : Chunk(m, f) \in [size : Nat, free : BOOLEAN]
      BY DEF Chunk
    <3>4. Chunk(e, TRUE) \in [size : Nat, free : BOOLEAN] /\ Chunk(t, TRUE) \in [size : Nat, free : BOOLEAN]
          /\ Chunk(n, FALSE) \in [size : Nat, free : BOOLEAN]
      BY <1>1, <3>3
    <3>. QED BY <1>6, <3>2, <3>4, Zenon
  <2>3. R = [x \in DOMAIN R |-> R[x]]
    BY DEF Carve
  <2>. QED BY <2>1, <2>2, <2>3 DEF ListType
<1>8. Within(R, H)
  <2>1. B + n + t <= H
    BY <1>1, <1>5
  <2>. SUFFICES ASSUME NEW x \in DOMAIN R  PROVE R[x].size > 0 /\ EndOf(R, x) <= H
    BY DEF Within
  <2>. QED BY <1>1, <1>5, <1>6, <2>1 DEF Chunk
<1>9. Ordered(R)
  <2>. SUFFICES ASSUME NEW x \in DOMAIN R, NEW y \in DOMAIN R, x < y  PROVE EndOf(R, x) <= y
    BY DEF Ordered
  <2>1. x \in DOMAIN L /\ y \in DOMAIN L => EndOf(L, x) <= y
    BY DEF Tiles, Ordered
  <2>2. x \in Nat /\ y \in Nat
    BY <1>7 DEF ListType
  <2>3. \A z \in DOMAIN R :
          \/ z \in DOMAIN L /\ z < s /\ EndOf(R, z) <= s /\ EndOf(R, z) = EndOf(L, z)
          \/ z = s /\ EndOf(R, z) = B
          \/ z = B /\ EndOf(R, z) = B + n
          \/ z = B + n /\ EndOf(R, z) = B + n + t
          \/ z \in DOMAIN L /\ z >= B + n + t /\ EndOf(R, z) = EndOf(L, z)
    BY <1>6, Zenon
  <2>4. CASE x \in DOMAIN L /\ y \in DOMAIN L /\ EndOf(R, x) = EndOf(L, x)
    BY <2>1, <2>4
  <2>5. CASE ~(x \in DOMAIN L /\ y \in DOMAIN L /\ EndOf(R, x) = EndOf(L, x))
    <3>1. s \in Nat /\ e \in Nat /\ B = s + e /\ n \in Nat /\ t \in Nat
      BY <1>1
    <3>2. \/ y \in DOMAIN L /\ y < s
          \/ y \in DOMAIN L /\ y >= B + n + t
          \/ y = s \/ y = B \/ y = B + n
      BY <2>3, Zenon
    <3>e. EndOf(R, x) \in Nat
      BY <1>7 DEF ListType, EndOf
    <3>3. CASE x \in DOMAIN L /\ x < s /\ EndOf(R, x) <= s /\ EndOf(R, x) = EndOf(L, x)
      <4>1. y = s \/ y = B \/ y = B + n
        BY <2>5, <3>2, <3>3
      <4>. QED BY ONLY <2>2, <3>1, <3>3, <3>e, <4>1
    <3>4. CASE x = s /\ EndOf(R, x) = B
      BY ONLY <2>2, <3>1, <3>2, <3>4, x < y
    <3>5. CASE x = B /\ EndOf(R, x) = B + n
      BY ONLY <2>2, <3>1, <3>2, <3>5, x < y
    <3>6. CASE x = B + n /\ EndOf(R, x) = B + n + t
      BY ONLY <2>2, <3>1, <3>2, <3>6, x < y
    <3>7. CASE x \in DOMAIN L /\ x >= B + n + t /\ EndOf(R, x) = EndOf(L, x)
      <4>1. y = s \/ y = B \/ y = B + n \/ y < s
        BY <2>5, <3>2, <3>7
      <4>. QED BY ONLY <2>2, <3>1, <3>7, <3>e, <4>1, x < y
    <3>. QED BY <2>3, <3>3, <3>4, <3>5, <3>6, <3>7, Zenon
  <2>. QED BY <2>4, <2>5
<1>10. Covers(R, H)
  <2>. SUFFICES ASSUME NEW x \in 0..H - 1  PROVE \E c \in DOMAIN R : c <= x /\ x < EndOf(R, c)
    BY DEF Covers
  <2>1. PICK c \in DOMAIN L : c <= x /\ x < EndOf(L, c)
    BY DEF Tiles, Covers
  <2>2. c \in Nat /\ c \in DOMAIN R
    BY <1>2, <1>5
  <2>3. CASE c # s
    BY <1>3, <1>4, <2>1, <2>2, <2>3, <1>1 DEF EndOf
  <2>4. CASE c = s /\ x < B
    <3>1. e > 0
      BY <1>1, <2>1, <2>4
    <3>. QED BY <3>1, <1>1, <1>2, <2>1, <2>2, <2>4 DEF EndOf, Chunk
  <2>5. CASE c = s /\ x >= B /\ x < B + n
    BY <1>1, <1>2, <2>5 DEF EndOf, Chunk
  <2>6. CASE c = s /\ x >= B + n
    <3>1. t > 0
      BY <1>1, <2>1, <2>6
    <3>. QED BY <3>1, <1>1, <1>2, <2>1, <2>6 DEF EndOf, Chunk
  <2>. QED BY <1>1, <2>2, <2>3, <2>4, <2>5, <2>6
<1>11. Merged(R)
  <2>. SUFFICES ASSUME NEW x \in DOMAIN R, R[x].free, EndOf(R, x) \in DOMAIN R, R[EndOf(R, x)].free
                PROVE  FALSE
    BY DEF Merged
  <2>. DEFINE y == EndOf(R, x)
  <2>1. \A c \in DOMAIN L : ~(L[c].free /\ EndOf(L, c) \in DOMAIN L /\ L[EndOf(L, c)].free)
    BY DEF Merged
  <2>2. CASE x \in DOMAIN L /\ x < s
    <3>1. R[x] = L[x] /\ y <= s /\ y = EndOf(L, x) /\ y \in Nat
      BY <1>3, <1>5, <2>2 DEF EndOf
    <3>2. CASE y = s
      BY <1>1, <2>1, <2>2, <3>1, <3>2
    <3>3. CASE y < s
      <4>1. y \in DOMAIN L
        BY <1>1, <1>2, <3>1, <3>3
      <4>2. R[y] = L[y]
        BY <1>3, <3>3, <4>1
      <4>. QED BY <2>1, <2>2, <3>1, <4>1, <4>2
    <3>. QED BY <1>1, <3>1, <3>2, <3>3
  <2>3. CASE x = s /\ e > 0
    BY <1>1, <1>2, <2>3 DEF EndOf, Chunk
  <2>4. CASE x = B
    BY <1>2, <2>4 DEF Chunk
  <2>5. CASE x = B + n /\ t > 0
    <3>1. y = EndOf(L, s)
      BY <1>1, <1>2, <2>5 DEF EndOf, Chunk
    <3>2. y \in DOMAIN L /\ R[y] = L[y]
      BY <1>1, <1>2, <1>4, <2>5, <3>1
    <3>. QED BY <1>1, <2>1, <3>1, <3>2
  <2>6. CASE x \in DOMAIN L /\ x > s
    <3>1. R[x] = L[x] /\ y = EndOf(L, x) /\ y > x /\ x >= B + n + t /\ x \in Nat /\ y \in Nat
      BY <1>1, <1>4, <1>5, <2>6 DEF EndOf
    <3>2. y \in DOMAIN L /\ R[y] = L[y]
      BY <1>1, <1>2, <1>4, <3>1
    <3>. QED BY <2>1, <2>6, <3>1, <3>2
  <2>. QED BY <1>6, <2>2, <2>3, <2>4, <2>5, <2>6
<1>12. B \in DOMAIN L => L[B].free
  BY <1>1, <1>3, <1>4, <1>5
<1>13. KeepsBlocks(L, R, B)
  <2>1. ASSUME NEW x \in DOMAIN L, x # B, ~L[x].free
        PROVE  x \in DOMAIN R /\ R[x] = L[x]
    BY <1>1, <1>2, <1>3, <1>4, <1>5, <2>1
  <2>2. ASSUME NEW x \in DOMAIN R, x # B, ~R[x].free
        PROVE  x \in DOMAIN L /\ L[x] = R[x]
    BY <1>6, <2>2 DEF Chunk
  <2>. QED BY <2>1, <2>2 DEF KeepsBlocks
<1>. QED
  BY <1>1, <1>2, <1>7, <1>8, <1>9, <1>10, <1>11, <1>12, <1>13 DEF Tiles

-----------------------------------------------------------------------------
(* dealloc                                                                 *)

\* In a list that tiles the heap the next chunk begins where the one before ends.
LEMMA FollowsAdjacent ==
  ASSUME NEW L, NEW H \in Nat, Tiles(L, H), NEW p, NEW n, Follows(L, p, n)
  PROVE  EndOf(L, p) = n
<1>1. p \in DOMAIN L /\ n \in DOMAIN L /\ p \in Nat /\ n \in Nat /\ p < n
  BY DEF Follows, Tiles, ListType
<1>2. \A c \in DOMAIN L : L[c].size \in Nat \ {0} /\ c \in Nat /\ EndOf(L, c) <= H /\ EndOf(L, c) \in Nat
  BY DEF Tiles, ListType, Within, EndOf
<1>3. EndOf(L, p) <= n
  BY <1>1 DEF Tiles, Ordered
<1>4. ASSUME EndOf(L, p) < n  PROVE FALSE
  <2>1. EndOf(L, p) \in 0..H - 1
    <3>1. n <= EndOf(L, n)
      BY <1>1, <1>2 DEF EndOf
    <3>. QED BY <1>1, <1>2, <1>4, <3>1
  <2>2. PICK c \in DOMAIN L : c <= EndOf(L, p) /\ EndOf(L, p) < EndOf(L, c)
    BY <2>1 DEF Tiles, Covers
  <2>3. c <= p \/ n <= c
    BY DEF Follows
  <2>4. c < p
    BY <1>1, <1>2, <1>4, <2>2, <2>3 
  <2>5. EndOf(L, c) <= p
    BY <1>1, <2>4 DEF Tiles, Ordered
  <2>6. p < EndOf(L, p)
    BY <1>1, <1>2 DEF EndOf
  <2>. QED BY <1>1, <1>2, <2>2, <2>5, <2>6
<1>. QED BY <1>1, <1>2, <1>3, <1>4

\* And the chunk that begins where another ends is the next one.
LEMMA AdjacentFollows ==
  ASSUME NEW L, NEW H \in Nat, Tiles(L, H), NEW p \in DOMAIN L, EndOf(L, p) \in DOMAIN L
  PROVE  Follows(L, p, EndOf(L, p))
<1>1. p \in Nat /\ L[p].size \in Nat \ {0}
  BY DEF Tiles, ListType, Within
<1>2. p < EndOf(L, p)
  BY <1>1 DEF EndOf
<1>3. \A x \in DOMAIN L : x <= p \/ EndOf(L, p) <= x
  BY <1>1 DEF Tiles, Ordered, ListType
<1>. QED BY <1>2, <1>3 DEF Follows

\* Two free chunks in a row become one.
Absorbed(L, R, H, p, n) ==
  /\ Tiles(R, H)
  /\ DOMAIN R = DOMAIN L \ {n} /\ p \in DOMAIN R /\ R[p].free
  /\ EndOf(R, p) = EndOf(L, n)
  /\ \A x \in DOMAIN R : x # p => R[x] = L[x] /\ EndOf(R, x) = EndOf(L, x)

LEMMA AbsorbGood ==
  ASSUME NEW L, NEW H \in Nat, Tiles(L, H), NEW p, NEW n, Follows(L, p, n),
         L[p].free, L[n].free
  PROVE  Absorbed(L, Absorb(L, p, n), H, p, n)
<1>. DEFINE D == DOMAIN L \ {n}
            V(x) == IF x = p THEN Chunk(L[p].size + L[n].size, L[p].free) ELSE L[x]
            R == Absorb(L, p, n)
<1>v. R = [x \in D |-> V(x)]
  BY DEF Absorb
<1>. HIDE DEF R
<1>1. p \in DOMAIN L /\ n \in DOMAIN L /\ p \in Nat /\ n \in Nat /\ p < n /\ EndOf(L, p) = n
  BY FollowsAdjacent DEF Follows, Tiles, ListType
<1>2. \A c \in DOMAIN L : L[c].size \in Nat \ {0} /\ c \in Nat /\ EndOf(L, c) <= H /\ EndOf(L, c) \in Nat
  BY DEF Tiles, ListType, Within, EndOf
<1>3. DOMAIN R = D
  BY ONLY <1>v
<1>4. \A x \in D : R[x] = V(x)
  BY ONLY <1>v
<1>5. p \in DOMAIN R /\ R[p] = Chunk(L[p].size + L[n].size, L[p].free)
  <2>1. p \in D
    BY <1>1
  <2>2. V(p) = Chunk(L[p].size + L[n].size, L[p].free)
    OBVIOUS
  <2>3. R[p] = V(p)
    BY <1>4, <2>1, Zenon
  <2>. QED BY <1>3, <2>1, <2>2, <2>3, Zenon
<1>6. R[p].free = L[p].free /\ EndOf(R, p) = EndOf(L, n)
  BY <1>1, <1>2, <1>5 DEF EndOf, Chunk
<1>7. \A x \in DOMAIN R : x # p => R[x] = L[x] /\ EndOf(R, x) = EndOf(L, x) /\ x \in DOMAIN L
  BY <1>3, <1>4 DEF EndOf
<1>8. ListType(R)
  <2>1. \A x \in DOMAIN L : L[x] \in [size : Nat, free : BOOLEAN]
    BY DEF Tiles, ListType
  <2>2. Chunk(L[p].size + L[n].size, L[p].free) \in [size : Nat, free : BOOLEAN]
    <3>1. L[p].size \in Nat /\ L[n].size \in Nat /\ L[p].free \in BOOLEAN
      BY <1>1, <2>1
    <3>. QED BY <3>1 DEF Chunk
  <2>3. \A x \in DOMAIN R : R[x] \in [size : Nat, free : BOOLEAN]
    BY <1>5, <1>7, <2>1, <2>2, Zenon
  <2>4. R = [x \in DOMAIN R |-> R[x]]
    BY <1>v
  <2>5. DOMAIN R \subseteq Nat
    BY <1>2, <1>3
  <2>. QED BY <2>3, <2>4, <2>5 DEF ListType
<1>9. Within(R, H)
  <2>. SUFFICES ASSUME NEW x \in DOMAIN R  PROVE R[x].size > 0 /\ EndOf(R, x) <= H
    BY DEF Within
  <2>1. CASE x = p
    BY <1>1, <1>2, <1>5, <1>6, <2>1 DEF Chunk
  <2>2. CASE x # p
    BY <1>2, <1>7, <2>2
  <2>. QED BY <2>1, <2>2
<1>10. Ordered(R)
  <2>. SUFFICES ASSUME NEW x \in DOMAIN R, NEW y \in DOMAIN R, x < y  PROVE EndOf(R, x) <= y
    BY DEF Ordered
  <2>1. x \in DOMAIN L /\ y \in DOMAIN L /\ y # n
    BY <1>3
  <2>2. \A a, b \in DOMAIN L : a < b => EndOf(L, a) <= b
    BY DEF Tiles, Ordered
  <2>3. CASE x = p
    <3>1. n < y
      BY <1>1, <1>2, <2>1, <2>3 DEF Follows
    <3>. QED BY <1>1, <1>6, <2>1, <2>2, <2>3, <3>1
  <2>4. CASE x # p
    BY <1>7, <2>1, <2>2, <2>4
  <2>. QED BY <2>3, <2>4
<1>11. Covers(R, H)
  <2>. SUFFICES ASSUME NEW x \in 0..H - 1  PROVE \E c \in DOMAIN R : c <= x /\ x < EndOf(R, c)
    BY DEF Covers
  <2>1. PICK c \in DOMAIN L : c <= x /\ x < EndOf(L, c)
    BY DEF Tiles, Covers
  <2>2. CASE c = n \/ c = p
    <3>1. p <= x /\ x < EndOf(L, n)
      BY <1>1, <1>2, <2>1, <2>2 DEF EndOf
    <3>. QED BY <1>5, <1>6, <3>1
  <2>3. CASE c # n /\ c # p
    BY <1>3, <1>7, <2>1, <2>3
  <2>. QED BY <2>2, <2>3
<1>12. Tiles(R, H)
  BY <1>8, <1>9, <1>10, <1>11 DEF Tiles
<1>. QED BY <1>3, <1>5, <1>6, <1>7, <1>12 DEF Absorbed, R

\* Marking a block free moves no chunk.
LEMMA MarkGood ==
  ASSUME NEW L, NEW H \in Nat, Tiles(L, H), NEW s \in DOMAIN L
  PROVE  LET M == MarkFree(L, s) IN
         /\ Tiles(M, H) /\ DOMAIN M = DOMAIN L /\ M[s].free
         /\ \A x \in DOMAIN L : EndOf(M, x) = EndOf(L, x) /\ (x # s => M[x] = L[x])
<1>. DEFINE M == MarkFree(L, s)
<1>1. DOMAIN M = DOMAIN L
  BY DEF MarkFree
<1>2. \A x \in DOMAIN L : x # s => M[x] = L[x]
  BY DEF MarkFree
<1>t. \A x \in DOMAIN L : L[x] \in [size : Nat, free : BOOLEAN]
  BY DEF Tiles, ListType
<1>3. M[s].free = TRUE /\ M[s].size = L[s].size /\ M[s] \in [size : Nat, free : BOOLEAN]
  BY <1>t DEF MarkFree
<1>4. \A x \in DOMAIN L : M[x].size = L[x].size /\ EndOf(M, x) = EndOf(L, x)
  BY <1>2, <1>3 DEF EndOf
<1>5. ListType(M)
  <2>1. \A x \in DOMAIN M : M[x] \in [size : Nat, free : BOOLEAN]
    BY <1>1, <1>2, <1>3, <1>t
  <2>2. M = [x \in DOMAIN M |-> M[x]]
    BY DEF MarkFree
  <2>3. DOMAIN M \subseteq Nat
    BY <1>1 DEF Tiles, ListType
  <2>. QED BY <2>1, <2>2, <2>3 DEF ListType
<1>. HIDE DEF M
<1>6. Tiles(M, H)
  <2>1. Within(M, H)
    BY <1>1, <1>4 DEF Tiles, Within
  <2>2. Ordered(M)
    BY <1>1, <1>4 DEF Tiles, Ordered
  <2>3. Covers(M, H)
    BY <1>1, <1>4 DEF Tiles, Covers
  <2>. QED BY <1>5, <2>1, <2>2, <2>3 DEF Tiles
<1>. QED BY <1>1, <1>2, <1>3, <1>4, <1>6 DEF M

\* A pass of the loop joins the chunk at s with a free chunk before it, or finds
\* that there is none.
LEMMA MergeBackCases ==
  ASSUME NEW L, NEW H \in Nat, Tiles(L, H), NEW s \in DOMAIN L
  PROVE  \/ \E p : Follows(L, p, s) /\ L[p].free /\ MergeBack(L, s) = Absorb(L, p, s)
         \/ /\ MergeBack(L, s) = L
            /\ \A p \in DOMAIN L : EndOf(L, p) = s => ~L[p].free
<1>1. CASE \E p \in DOMAIN L : Follows(L, p, s) /\ L[p].free
  <2>1. PICK p \in DOMAIN L : Follows(L, p, s) /\ L[p].free
    BY <1>1
  <2>. DEFINE q == CHOOSE x \in DOMAIN L : Follows(L, x, s)
  <2>2. q \in DOMAIN L /\ Follows(L, q, s)
    BY <2>1
  <2>. HIDE DEF q
  <2>3. p = q
    BY <2>1, <2>2 DEF Follows, Tiles, ListType
  <2>4. MergeBack(L, s) = Absorb(L, q, s)
    BY <1>1 DEF MergeBack, q
  <2>. QED BY <2>1, <2>3, <2>4
<1>2. CASE ~\E p \in DOMAIN L : Follows(L, p, s) /\ L[p].free
  <2>1. MergeBack(L, s) = L
    BY <1>2 DEF MergeBack
  <2>2. \A p \in DOMAIN L : EndOf(L, p) = s => ~L[p].free
    BY <1>2, AdjacentFollows
  <2>. QED BY <2>1, <2>2
<1>. QED BY <1>1, <1>2

LEMMA KeepsTwice ==
  ASSUME NEW L, NEW M, NEW R, NEW s, KeepsBlocks(L, M, s), KeepsBlocks(M, R, s)
  PROVE  KeepsBlocks(L, R, s)
<1>1. ASSUME NEW x \in DOMAIN L, x # s, ~L[x].free
      PROVE  x \in DOMAIN R /\ R[x] = L[x]
  <2>1. x \in DOMAIN M /\ M[x] = L[x]
    BY <1>1, Zenon DEF KeepsBlocks
  <2>2. ~M[x].free
    BY <1>1, <2>1, Zenon
  <2>. QED BY <1>1, <2>1, <2>2, Zenon DEF KeepsBlocks
<1>2. ASSUME NEW x \in DOMAIN R, x # s, ~R[x].free
      PROVE  x \in DOMAIN L /\ L[x] = R[x]
  <2>1. x \in DOMAIN M /\ M[x] = R[x]
    BY <1>2, Zenon DEF KeepsBlocks
  <2>2. ~M[x].free
    BY <1>2, <2>1, Zenon
  <2>. QED BY <1>2, <2>1, <2>2, Zenon DEF KeepsBlocks
<1>. QED BY <1>1, <1>2 DEF KeepsBlocks

\* A list in which only the chunk at h may be free and be followed by a free one.
MergedBut(L, h) ==
  \A c \in DOMAIN L :
    c # h /\ L[c].free /\ EndOf(L, c) \in DOMAIN L => ~L[EndOf(L, c)].free

\* dealloc, its first pass: the freed chunk is in the chunk at h.
Freed(L, M, s, h) ==
  /\ DOMAIN M \subseteq DOMAIN L
  /\ h \in DOMAIN M /\ M[h].free /\ EndOf(M, h) = EndOf(L, s)
  /\ MergedBut(M, h)
  /\ \A x \in DOMAIN M : x # h => M[x] = L[x] /\ EndOf(M, x) = EndOf(L, x)
  /\ \A x \in DOMAIN L : x \notin DOMAIN M => x = s
  /\ KeepsBlocks(L, M, s)
  /\ s \in DOMAIN M => M[s].free

LEMMA FirstPass ==
  ASSUME NEW L, NEW H \in Nat, Tiles(L, H), Merged(L), NEW s \in DOMAIN L, ~L[s].free
  PROVE  LET M == MergeBack(MarkFree(L, s), s) IN
         Tiles(M, H) /\ \E h : Freed(L, M, s, h)
<1>. DEFINE K == MarkFree(L, s)
            M == MergeBack(K, s)
<1>1. /\ Tiles(K, H) /\ DOMAIN K = DOMAIN L /\ K[s].free
      /\ \A x \in DOMAIN L : EndOf(K, x) = EndOf(L, x) /\ (x # s => K[x] = L[x])
  BY MarkGood
<1>. HIDE DEF K
<1>2. \/ \E p : Follows(K, p, s) /\ K[p].free /\ M = Absorb(K, p, s)
      \/ M = K /\ \A p \in DOMAIN K : EndOf(K, p) = s => ~K[p].free
  BY <1>1, MergeBackCases
<1>. HIDE DEF M
<1>3. \A c \in DOMAIN L : L[c].free /\ EndOf(L, c) \in DOMAIN L => ~L[EndOf(L, c)].free
  BY DEF Merged
<1>4. ASSUME M = K, \A p \in DOMAIN K : EndOf(K, p) = s => ~K[p].free
      PROVE  Tiles(M, H) /\ Freed(L, M, s, s)
  <2>1. MergedBut(K, s)
    <3>. SUFFICES ASSUME NEW c \in DOMAIN K, c # s, K[c].free, EndOf(K, c) \in DOMAIN K,
                         K[EndOf(K, c)].free
                  PROVE  FALSE
      BY DEF MergedBut
    <3>1. c \in DOMAIN L /\ K[c] = L[c] /\ EndOf(K, c) = EndOf(L, c)
      BY <1>1
    <3>2. EndOf(L, c) # s
      BY <1>4, <3>1
    <3>3. K[EndOf(L, c)] = L[EndOf(L, c)]
      BY <1>1, <3>1, <3>2
    <3>. QED BY <1>1, <1>3, <3>1, <3>3, Zenon
  <2>2. KeepsBlocks(L, K, s)
    BY <1>1 DEF KeepsBlocks
  <2>3. Freed(L, K, s, s)
    BY <1>1, <2>1, <2>2 DEF Freed
  <2>. QED BY <1>1, <1>4, <2>3
<1>5. ASSUME NEW p, Follows(K, p, s), K[p].free, M = Absorb(K, p, s)
      PROVE  Tiles(M, H) /\ Freed(L, M, s, p)
  <2>1. /\ Tiles(M, H)
        /\ DOMAIN M = DOMAIN K \ {s} /\ p \in DOMAIN M /\ M[p].free
        /\ EndOf(M, p) = EndOf(K, s)
        /\ \A x \in DOMAIN M : x # p => M[x] = K[x] /\ EndOf(M, x) = EndOf(K, x)
    <3>1. Absorbed(K, Absorb(K, p, s), H, p, s)
      BY <1>1, <1>5, AbsorbGood
    <3>. QED BY <1>5, <3>1 DEF Absorbed
  <2>2. p \in DOMAIN L /\ p # s /\ K[p] = L[p] /\ L[p].free
    BY <1>1, <1>5, <2>1
  <2>3. \A x \in DOMAIN M : x # p => M[x] = L[x] /\ EndOf(M, x) = EndOf(L, x) /\ x \in DOMAIN L
    BY <1>1, <2>1
  <2>4. MergedBut(M, p)
    <3>. SUFFICES ASSUME NEW c \in DOMAIN M, c # p, M[c].free, EndOf(M, c) \in DOMAIN M,
                         M[EndOf(M, c)].free
                  PROVE  FALSE
      BY DEF MergedBut
    <3>1. M[c] = L[c] /\ EndOf(M, c) = EndOf(L, c) /\ c \in DOMAIN L
      BY <2>3
    <3>2. EndOf(L, c) \in DOMAIN L
      BY <1>1, <2>1, <3>1
    <3>3. L[EndOf(L, c)].free
      BY <2>2, <2>3, <3>1
    <3>. QED BY <1>3, <3>1, <3>2, <3>3, Zenon
  <2>5. KeepsBlocks(L, M, s)
    <3>1. ASSUME NEW x \in DOMAIN L, x # s, ~L[x].free  PROVE x \in DOMAIN M /\ M[x] = L[x]
      BY <1>1, <2>1, <2>2, <2>3, <3>1
    <3>2. ASSUME NEW x \in DOMAIN M, x # s, ~M[x].free  PROVE x \in DOMAIN L /\ L[x] = M[x]
      BY <2>1, <2>3, <3>2
    <3>. QED BY <3>1, <3>2 DEF KeepsBlocks
  <2>6. EndOf(M, p) = EndOf(L, s)
    BY <1>1, <2>1
  <2>. QED BY <1>1, <2>1, <2>3, <2>4, <2>5, <2>6 DEF Freed
<1>6. Tiles(M, H) /\ \E h : Freed(L, M, s, h)
  BY <1>2, <1>4, <1>5, Zenon
<1>. QED BY <1>6 DEF M, K

\* dealloc: the list still tiles the heap, no two free chunks meet, the block is
\* no block any more and no other block changes.
LEMMA DeallocGood ==
  ASSUME NEW L, NEW H \in Nat, Tiles(L, H), Merged(L), NEW s \in DOMAIN L, ~L[s].free
  PROVE  LET R == AfterDealloc(L, s) IN
         /\ Tiles(R, H) /\ Merged(R)
         /\ KeepsBlocks(L, R, s)
         /\ s \in DOMAIN R => R[s].free
<1>. DEFINE M == MergeBack(MarkFree(L, s), s)
            R == AfterDealloc(L, s)
<1>1. Tiles(M, H)
  BY FirstPass
<1>2. PICK h : Freed(L, M, s, h)
  BY FirstPass
<1>3. \A c \in DOMAIN L : L[c].free /\ EndOf(L, c) \in DOMAIN L => ~L[EndOf(L, c)].free
  BY DEF Merged
<1>4. s \in Nat /\ s < EndOf(L, s)
  BY DEF Tiles, ListType, Within, EndOf
<1>r. R = IF \E n \in DOMAIN L : Follows(L, s, n) /\ L[n].free
            THEN MergeBack(M, CHOOSE n \in DOMAIN L : Follows(L, s, n))
            ELSE M
  BY DEF AfterDealloc
<1>. HIDE DEF M, R
<1>5. /\ h \in DOMAIN M /\ M[h].free /\ EndOf(M, h) = EndOf(L, s)
      /\ \A x \in DOMAIN M : x # h => M[x] = L[x] /\ EndOf(M, x) = EndOf(L, x) /\ x \in DOMAIN L
      /\ \A x \in DOMAIN L : x \notin DOMAIN M => x = s
      /\ KeepsBlocks(L, M, s)
      /\ s \in DOMAIN M => M[s].free
  BY <1>2 DEF Freed
<1>6. \A c \in DOMAIN M : c # h /\ M[c].free /\ EndOf(M, c) \in DOMAIN M => ~M[EndOf(M, c)].free
  BY <1>2 DEF Freed, MergedBut
<1>h. h \in Nat /\ h < EndOf(L, s)
  BY <1>1, <1>5 DEF Tiles, ListType, Within, EndOf
<1>7. CASE ~\E n \in DOMAIN L : Follows(L, s, n) /\ L[n].free
  <2>1. EndOf(L, s) \in DOMAIN L => ~L[EndOf(L, s)].free
    BY <1>7, AdjacentFollows
  <2>2. Merged(M)
    <3>. SUFFICES ASSUME NEW c \in DOMAIN M, M[c].free, EndOf(M, c) \in DOMAIN M,
                         M[EndOf(M, c)].free
                  PROVE  FALSE
      BY DEF Merged
    <3>1. c = h
      BY <1>6
    <3>2. EndOf(M, c) = EndOf(L, s) /\ EndOf(L, s) # h
      BY <1>5, <1>h, <3>1
    <3>3. EndOf(L, s) \in DOMAIN L /\ M[EndOf(L, s)] = L[EndOf(L, s)]
      BY <1>5, <3>2
    <3>. QED BY <2>1, <3>2, <3>3
  <2>. QED BY <1>1, <1>5, <1>7, <1>r, <2>2 DEF R
<1>8. CASE \E n \in DOMAIN L : Follows(L, s, n) /\ L[n].free
  <2>. DEFINE n == CHOOSE x \in DOMAIN L : Follows(L, s, x)
  <2>1. n \in DOMAIN L /\ Follows(L, s, n)
    BY <1>8
  <2>2. R = MergeBack(M, n)
    BY <1>8, <1>r
  <2>. HIDE DEF n
  <2>3. n = EndOf(L, s)
    BY <2>1, FollowsAdjacent
  <2>4. L[n].free
    <3>1. PICK m \in DOMAIN L : Follows(L, s, m) /\ L[m].free
      BY <1>8
    <3>2. m = EndOf(L, s)
      BY <3>1, FollowsAdjacent
    <3>. QED BY <2>3, <3>1, <3>2
  <2>5. n # h /\ n # s /\ n \in DOMAIN M /\ M[n] = L[n] /\ EndOf(M, n) = EndOf(L, n)
    BY <1>4, <1>5, <1>h, <2>1, <2>3
  <2>6. PICK p : Follows(M, p, n) /\ M[p].free /\ R = Absorb(M, p, n)
    BY <1>1, <1>5, <2>2, <2>3, <2>5, MergeBackCases
  <2>7. /\ Tiles(R, H)
        /\ DOMAIN R = DOMAIN M \ {n} /\ p \in DOMAIN R /\ R[p].free
        /\ EndOf(R, p) = EndOf(M, n)
        /\ \A x \in DOMAIN R : x # p => R[x] = M[x] /\ EndOf(R, x) = EndOf(M, x)
    <3>1. M[n].free
      BY <2>4, <2>5
    <3>2. Follows(M, p, n) /\ M[p].free
      BY <2>6
    <3>3. Absorbed(M, Absorb(M, p, n), H, p, n)
      BY <1>1, <3>1, <3>2, AbsorbGood
    <3>. QED BY <2>6, <3>3 DEF Absorbed
  <2>8. p = h
    <3>1. EndOf(M, p) = n
      BY <1>1, <2>6, FollowsAdjacent
    <3>. QED BY <1>6, <2>4, <2>5, <2>6, <2>7, <3>1
  <2>9. Merged(R)
    <3>. SUFFICES ASSUME NEW c \in DOMAIN R, R[c].free, EndOf(R, c) \in DOMAIN R,
                         R[EndOf(R, c)].free
                  PROVE  FALSE
      BY DEF Merged
    <3>1. CASE c = h
      <4>1. EndOf(R, c) = EndOf(L, n)
        BY <2>5, <2>7, <2>8, <3>1
      <4>2. EndOf(L, n) # h
        <5>1. n \in Nat /\ n < EndOf(L, n)
          BY <2>1 DEF Tiles, ListType, Within, EndOf
        <5>. QED BY <1>h, <2>3, <5>1
      <4>3. EndOf(L, n) \in DOMAIN L /\ R[EndOf(L, n)] = L[EndOf(L, n)]
        BY <1>5, <2>7, <2>8, <4>1, <4>2
      <4>. QED BY <1>3, <2>1, <2>4, <4>1, <4>3
    <3>2. CASE c # h
      <4>1. c \in DOMAIN M /\ R[c] = M[c] /\ EndOf(R, c) = EndOf(M, c)
        BY <2>7, <2>8, <3>2
      <4>2. EndOf(M, c) \in DOMAIN M
        BY <2>7, <4>1
      <4>3. M[EndOf(M, c)].free
        BY <1>5, <2>7, <2>8, <4>1
      <4>. QED BY <1>6, <3>2, <4>1, <4>2, <4>3
    <3>. QED BY <3>1, <3>2
  <2>10. KeepsBlocks(M, R, s)
    <3>1. ASSUME NEW x \in DOMAIN M, x # s, ~M[x].free  PROVE x \in DOMAIN R /\ R[x] = M[x]
      <4>1. x # n /\ x # p
        BY <2>4, <2>5, <2>6, <3>1, Zenon
      <4>. QED BY <2>7, <4>1
    <3>2. ASSUME NEW x \in DOMAIN R, x # s, ~R[x].free  PROVE x \in DOMAIN M /\ M[x] = R[x]
      BY <2>7, <3>2
    <3>. QED BY <3>1, <3>2 DEF KeepsBlocks
  <2>11. KeepsBlocks(L, R, s)
    BY <1>5, <2>10, KeepsTwice
  <2>12. s \in DOMAIN R => R[s].free
    BY <1>5, <2>7
  <2>. QED BY <2>7, <2>9, <2>11, <2>12 DEF R
<1>. QED BY <1>7, <1>8

-----------------------------------------------------------------------------
(* The inductive invariant                                                 *)

Amounts == {Units(bytes) : bytes \in Sizes}

LEMMA AmountsPositive == Amounts \subseteq Nat \ {0}
<1>1. ASSUME NEW bytes \in Nat \ {0}  PROVE Units(bytes) \in Nat \ {0}
  BY DEF Units, kMemoryAlign
<1>. QED BY <1>1, SizesAssumption DEF Amounts

\* A region of one byte or more is a heap of one page or more.
LEMMA HeapSizes == HeapOf(PmemBytes) \in Nat \ {0} /\ HeapOf(LimpBytes) \in Nat \ {0}
<1>1. \A n \in Nat \ {0} : HeapOf(n) \in Nat \ {0}
  BY DEF HeapOf, RoundUpToPage, pagesize, kMemoryAlign
<1>. QED BY <1>1, RegionAssumption

\* The heap has the size of the region or of limp mode; once the region is open all of
\* it is mapped, and nobody uses it before.
Region ==
  /\ mHeapSize \in {0, HeapOf(PmemBytes), HeapOf(LimpBytes)}
  /\ mHeapSize = 0 => DOMAIN mList = {}
  /\ master_fd = "open" => mHeapSize > 0 /\ mapped = HeapOf(PmemBytes)
  /\ master_fd # "open" => \A b \in Buffers : pc[b] = "none"

GoodList == Tiles(mList, mHeapSize) /\ Merged(mList)

IsBlock(L, start, n) == start \in DOMAIN L /\ L[start] = Chunk(n, FALSE) /\ start % Page = 0

Asking == \A b \in Buffers : pc[b] = "allocate" => size[b] \in Amounts
Backed == \A b \in Holding : IsBlock(mList, offset[b], size[b]) /\ size[b] > 0
LostBacked == \A l \in lost : IsBlock(mList, l.start, l.size)
Mapped ==
  \A b \in maps :
    \/ pc[b] = "live"
    \/ pc[b] = "close" /\ [start |-> offset[b], size |-> size[b]] \in lost
OneOwner ==
  /\ \A b, c \in Holding \cup maps : b # c => offset[b] # offset[c]
  /\ \A b \in Holding, l \in lost : l.start # offset[b]
Accounted ==
  \A x \in DOMAIN mList :
    ~mList[x].free => (\E b \in Holding : offset[b] = x) \/ (\E l \in lost : l.start = x)

\* Every block in use belongs to one buffer, or was lost; every buffer has its block.
Owned == Asking /\ Backed /\ LostBacked /\ Mapped /\ OneOwner /\ Accounted

IInv == TypeOK /\ Region /\ GoodList /\ Owned

HoldPcs == {"connect", "undo", "live", "deallocate"}

\* What a step of buffer b leaves of the others.
LEMMA Moves ==
  ASSUME TypeOK, NEW b \in Buffers, NEW from, NEW to \in Pcs, Go(b, from, to)
  PROVE  /\ pc' \in [Buffers -> Pcs] /\ pc[b] = from /\ pc'[b] = to
         /\ \A c \in Buffers : c # b => pc'[c] = pc[c]
         /\ from \in HoldPcs <=> b \in Holding
         /\ to \in HoldPcs <=> b \in Holding'
         /\ \A c : c # b => (c \in Holding' <=> c \in Holding)
<1>1. pc \in [Buffers -> Pcs] /\ pc[b] = from /\ pc' = [pc EXCEPT ![b] = to]
  BY DEF TypeOK, Go
<1>2. pc' \in [Buffers -> Pcs] /\ pc'[b] = to /\ \A c \in Buffers : c # b => pc'[c] = pc[c]
  BY <1>1
<1>. QED BY <1>1, <1>2 DEF Holding, HoldPcs

THEOREM InitIInv == Init => IInv
<1>. SUFFICES ASSUME Init PROVE IInv
  OBVIOUS
<1>1. mList = [start \in {} |-> Chunk(0, TRUE)] /\ DOMAIN mList = {}
  BY DEF Init
<1>2. TypeOK
  <2>1. mList \in [DOMAIN mList -> [size : Nat, free : BOOLEAN]]
    BY <1>1
  <2>. QED BY <1>1, <2>1 DEF Init, TypeOK, Pcs
<1>3. Region
  BY <1>1 DEF Init, Region
<1>4. GoodList
  <2>1. mHeapSize = 0
    BY DEF Init
  <2>2. ListType(mList)
    BY <1>2 DEF TypeOK, ListType
  <2>3. Covers(mList, mHeapSize)
    BY <2>1 DEF Covers
  <2>. QED BY <1>1, <2>2, <2>3 DEF GoodList, Tiles, Merged, Within, Ordered
<1>5. Owned
  BY <1>1 DEF Init, Owned, Asking, Backed, LostBacked, Mapped, OneOwner, Accounted, Holding
<1>. QED BY <1>2, <1>3, <1>4, <1>5 DEF IInv

-----------------------------------------------------------------------------
(* init_pmem_area                                                          *)

\* setSize gives a heap its size once.
LEMMA SetSizeGood ==
  ASSUME IInv, NEW bytes \in {PmemBytes, LimpBytes}, SetSize(bytes)
  PROVE  /\ mHeapSize' \in {HeapOf(PmemBytes), HeapOf(LimpBytes)} /\ mHeapSize' > 0
         /\ mHeapSize' \in Nat /\ ListType(mList')
         /\ Tiles(mList', mHeapSize') /\ Merged(mList')
         /\ \A x \in DOMAIN mList' : ~mList'[x].free => x \in DOMAIN mList /\ mList'[x] = mList[x]
         /\ \A x \in DOMAIN mList : x \in DOMAIN mList' /\ mList'[x] = mList[x]
<1>1. CASE mHeapSize # 0
  <2>1. mHeapSize' = mHeapSize /\ mList' = mList
    BY <1>1 DEF SetSize, heap
  <2>2. mHeapSize \in Nat /\ mHeapSize \in {HeapOf(PmemBytes), HeapOf(LimpBytes)}
    BY <1>1 DEF IInv, TypeOK, Region
  <2>. QED BY <1>1, <2>1, <2>2 DEF IInv, GoodList, Tiles
<1>2. CASE mHeapSize = 0
  <2>. DEFINE H == HeapOf(bytes)
              R == OneChunk(H)
  <2>1. mHeapSize' = H /\ mList' = R
    BY <1>2 DEF SetSize
  <2>2. H \in Nat \ {0} /\ H \in {HeapOf(PmemBytes), HeapOf(LimpBytes)}
    BY HeapSizes
  <2>3. DOMAIN mList = {}
    BY <1>2 DEF IInv, Region
  <2>. HIDE DEF H
  <2>4. DOMAIN R = {0} /\ R[0] = Chunk(H, TRUE)
    BY DEF OneChunk
  <2>5. R \in [{0} -> [size : Nat, free : BOOLEAN]]
    <3>1. Chunk(H, TRUE) \in [size : Nat, free : BOOLEAN]
      BY <2>2 DEF Chunk
    <3>. QED BY <3>1 DEF OneChunk
  <2>. HIDE DEF R
  <2>6. ListType(R)
    BY <2>4, <2>5 DEF ListType
  <2>7. R[0].size = H /\ R[0].free /\ EndOf(R, 0) = H
    BY <2>2, <2>4 DEF Chunk, EndOf
  <2>8. Within(R, H) /\ Ordered(R) /\ Covers(R, H)
    <3>1. Within(R, H)
      <4>. SUFFICES ASSUME NEW c \in DOMAIN R  PROVE R[c].size > 0 /\ EndOf(R, c) <= H
        BY DEF Within
      <4>1. c = 0
        BY <2>4
      <4>2. R[c].size = H /\ EndOf(R, c) = H
        BY <2>7, <4>1, Zenon
      <4>. QED BY <2>2, <4>2
    <3>2. Ordered(R)
      BY <2>4 DEF Ordered
    <3>3. Covers(R, H)
      <4>. SUFFICES ASSUME NEW x \in 0..H - 1  PROVE 0 <= x /\ x < EndOf(R, 0)
        BY <2>4 DEF Covers
      <4>. QED BY <2>2, <2>7
    <3>. QED BY <3>1, <3>2, <3>3
  <2>9. Merged(R)
    BY <2>2, <2>4, <2>7 DEF Merged
  <2>. QED BY <2>1, <2>2, <2>3, <2>4, <2>6, <2>7, <2>8, <2>9 DEF Tiles, H
<1>. QED BY <1>1, <1>2

LEMMA SetSizeIInv ==
  ASSUME IInv, NEW bytes \in {PmemBytes, LimpBytes}, SetSize(bytes), master_fd = "init",
         UNCHANGED <<buffers, maps, lost>>,
         mapped' \in Nat, master_fd' \in {"init", "open", "failed"},
         master_fd' = "open" => mapped' = HeapOf(PmemBytes)
  PROVE  IInv'
<1>1. /\ mHeapSize' \in {HeapOf(PmemBytes), HeapOf(LimpBytes)} /\ mHeapSize' > 0
      /\ mHeapSize' \in Nat /\ ListType(mList')
      /\ Tiles(mList', mHeapSize') /\ Merged(mList')
      /\ \A x \in DOMAIN mList' : ~mList'[x].free => x \in DOMAIN mList /\ mList'[x] = mList[x]
      /\ \A x \in DOMAIN mList : x \in DOMAIN mList' /\ mList'[x] = mList[x]
  BY SetSizeGood
<1>2. pc' = pc /\ size' = size /\ offset' = offset /\ maps' = maps /\ lost' = lost /\ Holding' = Holding
  BY DEF buffers, Holding
<1>3. TypeOK'
  BY <1>1, <1>2 DEF IInv, TypeOK, ListType
<1>4. Region'
  BY <1>1, <1>2, HeapSizes DEF IInv, Region
<1>5. GoodList'
  BY <1>1 DEF GoodList
<1>6. Owned'
  <2>1. Asking' /\ Mapped' /\ OneOwner'
    BY <1>2 DEF IInv, Owned, Asking, Mapped, OneOwner
  <2>2. Backed' /\ LostBacked'
    BY <1>1, <1>2 DEF IInv, Owned, Backed, LostBacked, IsBlock
  <2>3. Accounted'
    BY <1>1, <1>2 DEF IInv, Owned, Accounted
  <2>. QED BY <2>1, <2>2, <2>3 DEF Owned
<1>. QED BY <1>3, <1>4, <1>5, <1>6 DEF IInv

-----------------------------------------------------------------------------
(* Buffers                                                                 *)

\* The parts that a step leaves alone when the heap and the region stay.
LEMMA SameHeap ==
  ASSUME IInv, UNCHANGED <<heap, master>>,
         master_fd = "open" \/ \A c \in Buffers : pc'[c] = pc[c]
  PROVE  GoodList' /\ Region'
BY DEF IInv, GoodList, Region, heap, master

\* Only a process that found the region open is anywhere but at "none".
LEMMA OpenUnlessNone ==
  ASSUME IInv, NEW b \in Buffers, pc[b] # "none"
  PROVE  master_fd = "open"
BY DEF IInv, Region

LEMMA AllocPmemBufferIInv ==
  ASSUME IInv, NEW b \in Buffers, AllocPmemBuffer(b)
  PROVE  IInv'
<1>1. Go(b, "none", "allocate") /\ UNCHANGED <<heap, master, offset, maps, lost>> /\ master_fd = "open"
  BY DEF AllocPmemBuffer
<1>2. PICK bytes \in Sizes : size' = [size EXCEPT ![b] = Units(bytes)]
  BY DEF AllocPmemBuffer
<1>3. Units(bytes) \in Amounts /\ Units(bytes) \in Nat
  BY AmountsPositive DEF Amounts
<1>4. /\ pc' \in [Buffers -> Pcs] /\ pc[b] = "none" /\ pc'[b] = "allocate"
      /\ \A c \in Buffers : c # b => pc'[c] = pc[c]
      /\ b \notin Holding /\ b \notin Holding'
      /\ \A c : c # b => (c \in Holding' <=> c \in Holding)
  BY <1>1, Moves DEF IInv, HoldPcs, Pcs
<1>5. size' \in [Buffers -> Nat] /\ size'[b] = Units(bytes) /\ \A c \in Buffers : c # b => size'[c] = size[c]
  BY <1>2, <1>3 DEF IInv, TypeOK
<1>6. mList' = mList /\ offset' = offset /\ maps' = maps /\ lost' = lost /\ Holding' = Holding
  BY <1>1, <1>4 DEF heap
<1>7. TypeOK'
  BY <1>1, <1>4, <1>5 DEF IInv, TypeOK, heap, master
<1>8. GoodList' /\ Region'
  BY <1>1, SameHeap
<1>9. Owned'
  <2>1. Asking'
    BY <1>3, <1>4, <1>5 DEF IInv, Owned, Asking
  <2>2. Backed' /\ LostBacked' /\ OneOwner' /\ Accounted'
    BY <1>4, <1>5, <1>6 DEF IInv, Owned, Backed, LostBacked, OneOwner, Accounted, Holding
  <2>3. b \notin maps
    BY <1>4 DEF IInv, Owned, Mapped
  <2>4. Mapped'
    BY <1>4, <1>5, <1>6, <2>3 DEF IInv, TypeOK, Owned, Mapped
  <2>. QED BY <2>1, <2>2, <2>4 DEF Owned
<1>. QED BY <1>7, <1>8, <1>9 DEF IInv

\* What alloc does to the list, for the buffer that asked.
LEMMA AllocateShape ==
  ASSUME IInv, NEW b \in Buffers, Allocate(b)
  PROVE  /\ Tiles(mList', mHeapSize) /\ Merged(mList')
         /\ offset'[b] = Placed(mList, size[b])
         /\ IsBlock(mList', offset'[b], size[b]) /\ size[b] \in Nat \ {0} /\ size[b] \in Amounts
         /\ offset'[b] \in DOMAIN mList => mList[offset'[b]].free
         /\ KeepsBlocks(mList, mList', offset'[b])
         /\ offset' \in [Buffers -> Nat]
         /\ \A c \in Buffers : c # b => offset'[c] = offset[c]
<1>1. size[b] \in Amounts /\ size[b] \in Nat \ {0}
  BY AmountsPositive DEF IInv, Owned, Asking, Allocate, Go
<1>2. Tiles(mList, mHeapSize) /\ Merged(mList) /\ mHeapSize \in Nat
  BY DEF IInv, GoodList, TypeOK
<1>. DEFINE s == BestFit(mList, size[b])
            B == s + Extra(s)
            R == Carve(mList, s, size[b])
<1>3. mList' = R /\ offset' = [offset EXCEPT ![b] = B]
  BY DEF Allocate, AfterAlloc, Placed
<1>4. s \in DOMAIN mList /\ Fits(mList, s, size[b])
  BY <1>1, <1>2, BestFitFits DEF Allocate, Tiles
<1>5. B = Placed(mList, size[b])
  BY DEF Placed
<1>. HIDE DEF s
<1>6. /\ Tiles(R, mHeapSize) /\ Merged(R)
      /\ B \in DOMAIN R /\ R[B] = Chunk(size[b], FALSE) /\ B % Page = 0
      /\ B \in DOMAIN mList => mList[B].free
      /\ KeepsBlocks(mList, R, B)
  BY <1>1, <1>2, <1>4, CarveGood
<1>7. B \in Nat
  BY <1>6 DEF Tiles, ListType
<1>. HIDE DEF B, R
<1>8. offset' \in [Buffers -> Nat] /\ offset'[b] = B /\ \A c \in Buffers : c # b => offset'[c] = offset[c]
  BY <1>3, <1>7 DEF IInv, TypeOK
<1>9. IsBlock(mList', offset'[b], size[b])
  BY <1>3, <1>6, <1>8 DEF IsBlock
<1>. QED BY <1>1, <1>3, <1>5, <1>6, <1>8, <1>9

LEMMA AllocateIInv ==
  ASSUME IInv, NEW b \in Buffers, Allocate(b)
  PROVE  IInv'
<1>1. Go(b, "allocate", "connect") /\ UNCHANGED <<mHeapSize, master, size, maps, lost>>
  BY DEF Allocate
<1>2. /\ Tiles(mList', mHeapSize) /\ Merged(mList')
      /\ IsBlock(mList', offset'[b], size[b]) /\ size[b] \in Nat \ {0}
      /\ offset'[b] \in DOMAIN mList => mList[offset'[b]].free
      /\ KeepsBlocks(mList, mList', offset'[b])
      /\ offset' \in [Buffers -> Nat]
      /\ \A c \in Buffers : c # b => offset'[c] = offset[c]
  BY AllocateShape
<1>3. /\ pc' \in [Buffers -> Pcs] /\ pc[b] = "allocate" /\ pc'[b] = "connect"
      /\ \A c \in Buffers : c # b => pc'[c] = pc[c]
      /\ b \notin Holding /\ b \in Holding'
      /\ \A c : c # b => (c \in Holding' <=> c \in Holding)
  BY <1>1, Moves DEF IInv, HoldPcs, Pcs
<1>4. Holding \subseteq Buffers /\ maps \subseteq Buffers /\ b \notin maps /\ Holding' \subseteq Buffers
  BY <1>3 DEF IInv, TypeOK, Holding, Owned, Mapped
\* A block in use is where it was, and not where the new one is.
<1>5. ASSUME NEW x, NEW n, IsBlock(mList, x, n)
      PROVE  x # offset'[b] /\ IsBlock(mList', x, n)
  <2>1. x \in DOMAIN mList /\ ~mList[x].free
    BY <1>5 DEF IsBlock, Chunk
  <2>. QED BY <1>2, <1>5, <2>1 DEF KeepsBlocks, IsBlock
<1>6. \A c \in Holding : c # b /\ IsBlock(mList, offset[c], size[c]) /\ size[c] > 0
  BY <1>3 DEF IInv, Owned, Backed
<1>7. \A l \in lost : IsBlock(mList, l.start, l.size)
  BY DEF IInv, Owned, LostBacked
<1>8. TypeOK'
  BY <1>1, <1>2, <1>3 DEF IInv, TypeOK, master, Tiles, ListType
<1>9. GoodList'
  BY <1>1, <1>2 DEF GoodList
<1>10. Region'
  <2>1. mHeapSize # 0
    BY <1>3, OpenUnlessNone DEF IInv, Region
  <2>2. master_fd = "open"
    BY <1>3, OpenUnlessNone
  <2>. QED BY <1>1, <2>1, <2>2 DEF IInv, Region, master
<1>11. Asking'
  BY <1>1, <1>3 DEF IInv, Owned, Asking
<1>12. Backed'
  <2>. SUFFICES ASSUME NEW c \in Holding' PROVE IsBlock(mList', offset'[c], size[c]) /\ size[c] > 0
    BY <1>1 DEF Backed
  <2>1. CASE c = b
    BY <1>2, <2>1
  <2>2. CASE c # b
    <3>1. c \in Holding /\ offset'[c] = offset[c]
      BY <1>2, <1>3, <1>4, <2>2
    <3>. QED BY <1>5, <1>6, <3>1
  <2>. QED BY <2>1, <2>2
<1>13. LostBacked'
  BY <1>1, <1>5, <1>7 DEF LostBacked
<1>14. Mapped'
  BY <1>1, <1>2, <1>3, <1>4 DEF IInv, Owned, Mapped
<1>15. OneOwner'
  \* The block of a mapped buffer is in use, also if it has been lost.
  <2>1. ASSUME NEW c \in Holding \cup maps  PROVE c # b /\ offset[c] # offset'[b] /\ offset'[c] = offset[c]
    <3>1. CASE c \in Holding
      BY <1>2, <1>4, <1>5, <1>6, <3>1
    <3>2. CASE c \notin Holding
      <4>1. pc[c] = "close" /\ [start |-> offset[c], size |-> size[c]] \in lost
        BY <2>1, <3>2, <1>4 DEF IInv, Owned, Mapped, Holding
      <4>2. IsBlock(mList, offset[c], size[c])
        BY <1>7, <4>1
      <4>. QED BY <1>2, <1>4, <1>5, <2>1, <3>2, <4>2
    <3>. QED BY <3>1, <3>2
  <2>2. \A c \in Holding' \cup maps : c # b => c \in Holding \cup maps
    BY <1>3
  <2>3. \A c, d \in Holding' \cup maps : c # d => offset'[c] # offset'[d]
    <3>. SUFFICES ASSUME NEW c \in Holding' \cup maps, NEW d \in Holding' \cup maps, c # d
                  PROVE  offset'[c] # offset'[d]
      OBVIOUS
    <3>1. CASE c = b
      BY <2>1, <2>2, <3>1
    <3>2. CASE d = b
      BY <2>1, <2>2, <3>2
    <3>3. CASE c # b /\ d # b
      BY <2>1, <2>2, <3>3 DEF IInv, Owned, OneOwner
    <3>. QED BY <3>1, <3>2, <3>3
  <2>4. \A c \in Holding', l \in lost : l.start # offset'[c]
    BY <1>3, <1>5, <1>7, <2>1 DEF IInv, Owned, OneOwner
  <2>. QED BY <1>1, <2>3, <2>4 DEF OneOwner
<1>16. Accounted'
  <2>. SUFFICES ASSUME NEW x \in DOMAIN mList', ~mList'[x].free
                PROVE  (\E c \in Holding' : offset'[c] = x) \/ (\E l \in lost : l.start = x)
    BY <1>1 DEF Accounted
  <2>1. CASE x = offset'[b]
    BY <1>3, <2>1
  <2>2. CASE x # offset'[b]
    <3>1. x \in DOMAIN mList /\ ~mList[x].free
      BY <1>2, <2>2 DEF KeepsBlocks
    <3>. QED BY <1>2, <1>3, <1>4, <1>6, <3>1 DEF IInv, Owned, Accounted
  <2>. QED BY <2>1, <2>2
<1>. QED
  BY <1>8, <1>9, <1>10, <1>11, <1>12, <1>13, <1>14, <1>15, <1>16 DEF IInv, Owned

\* The block of buffer b.
Of(b) == [start |-> offset[b], size |-> size[b]]

\* A step of buffer b that leaves the list alone: it keeps its block, or has none,
\* or its block is lost.
LEMMA QuietIInv ==
  ASSUME IInv, NEW b \in Buffers, NEW from, NEW to \in Pcs, Go(b, from, to), from # "none",
         to # "allocate", UNCHANGED <<heap, master>>,
         size' \in [Buffers -> Nat], offset' \in [Buffers -> Nat],
         \A c \in Buffers : c # b => size'[c] = size[c] /\ offset'[c] = offset[c],
         b \in Holding' \cup maps' =>
           b \in Holding \cup maps /\ size'[b] = size[b] /\ offset'[b] = offset[b],
         b \in Holding' => b \in Holding,
         maps' \subseteq maps \cup {b},
         b \in maps' => to = "live" \/ (to = "close" /\ Of(b) \in lost'),
         \/ lost' = lost /\ (b \in Holding => b \in Holding')
         \/ lost' = lost \cup {Of(b)} /\ b \in Holding /\ b \notin Holding'
  PROVE  IInv'
<1>1. /\ pc' \in [Buffers -> Pcs] /\ pc[b] = from /\ pc'[b] = to
      /\ \A c \in Buffers : c # b => pc'[c] = pc[c]
      /\ \A c : c # b => (c \in Holding' <=> c \in Holding)
  BY Moves DEF IInv
<1>2. mList' = mList /\ mHeapSize' = mHeapSize
  BY DEF heap
<1>3. /\ Holding \subseteq Buffers /\ maps \subseteq Buffers /\ Holding' \subseteq Buffers
      /\ maps' \subseteq Buffers /\ lost' \subseteq lost \cup {Of(b)} /\ lost \subseteq lost'
  BY DEF IInv, TypeOK, Holding
<1>4. TypeOK'
  <2>1. Of(b) \in [start : Nat, size : Nat]
    BY DEF Of, IInv, TypeOK
  <2>. QED BY <1>1, <1>2, <1>3, <2>1 DEF IInv, TypeOK, master
<1>5. GoodList' /\ Region'
  BY <1>1, SameHeap, OpenUnlessNone
<1>6. Asking'
  BY <1>1 DEF IInv, Owned, Asking
<1>7. \A c \in Holding' \cup maps' : c \in Holding \cup maps /\ offset'[c] = offset[c] /\ size'[c] = size[c]
  BY <1>1, <1>3
<1>8. Backed'
  BY <1>1, <1>2, <1>7 DEF IInv, Owned, Backed
<1>9. LostBacked'
  <2>1. b \in Holding => IsBlock(mList, Of(b).start, Of(b).size)
    BY DEF IInv, Owned, Backed, Of
  <2>. QED BY <1>2, <1>3, <2>1 DEF IInv, Owned, LostBacked
<1>10. Mapped'
  <2>. SUFFICES ASSUME NEW c \in maps'
                PROVE  \/ pc'[c] = "live"
                       \/ pc'[c] = "close" /\ [start |-> offset'[c], size |-> size'[c]] \in lost'
    BY DEF Mapped
  <2>1. CASE c = b
    BY <1>1, <1>7, <2>1 DEF Of
  <2>2. CASE c # b
    <3>1. c \in maps /\ offset'[c] = offset[c] /\ size'[c] = size[c] /\ pc'[c] = pc[c]
      BY <1>1, <1>3, <1>7, <2>2
    <3>. QED BY <1>3, <3>1 DEF IInv, Owned, Mapped
  <2>. QED BY <2>1, <2>2
<1>11. OneOwner'
  <2>1. \A c, d \in Holding' \cup maps' : c # d => offset'[c] # offset'[d]
    BY <1>7 DEF IInv, Owned, OneOwner
  <2>2. ASSUME NEW c \in Holding', NEW l \in lost'  PROVE l.start # offset'[c]
    <3>0. c \in Holding /\ offset'[c] = offset[c]
      BY <1>1, <1>7, <2>2
    <3>1. CASE l \in lost
      BY <3>0, <3>1 DEF IInv, Owned, OneOwner
    <3>2. CASE l \notin lost
      <4>1. l = Of(b) /\ b \in Holding /\ c # b
        BY <1>3, <2>2, <3>2
      <4>. QED BY <3>0, <4>1 DEF Of, IInv, Owned, OneOwner
    <3>. QED BY <3>1, <3>2
  <2>. QED BY <2>1, <2>2 DEF OneOwner
<1>12. Accounted'
  <2>. SUFFICES ASSUME NEW x \in DOMAIN mList, ~mList[x].free
                PROVE  (\E c \in Holding' : offset'[c] = x) \/ (\E l \in lost' : l.start = x)
    BY <1>2 DEF Accounted
  <2>1. CASE \E c \in Holding : offset[c] = x
    <3>1. PICK c \in Holding : offset[c] = x
      BY <2>1
    <3>2. CASE c \in Holding'
      BY <1>7, <3>1, <3>2
    <3>3. CASE c \notin Holding'
      <4>1. c = b /\ Of(b) \in lost' /\ Of(b).start = x
        BY <1>1, <3>1, <3>3 DEF Of
      <4>. QED BY <4>1
    <3>. QED BY <3>2, <3>3
  <2>2. CASE \E l \in lost : l.start = x
    BY <1>3, <2>2
  <2>. QED BY <2>1, <2>2 DEF IInv, Owned, Accounted
<1>. QED
  BY <1>4, <1>5, <1>6, <1>8, <1>9, <1>10, <1>11, <1>12 DEF IInv, Owned

\* A step that gives the block of b back.
LEMMA GiveBackIInv ==
  ASSUME IInv, NEW b \in Buffers, NEW from \in {"undo", "deallocate"}, NEW to \in {"none", "close"},
         Go(b, from, to), Deallocate(b),
         size' \in [Buffers -> Nat], offset' \in [Buffers -> Nat],
         \A c \in Buffers : c # b => size'[c] = size[c] /\ offset'[c] = offset[c]
  PROVE  IInv'
<1>1. UNCHANGED <<mHeapSize, master, maps, lost>> /\ mList' = AfterDealloc(mList, offset[b])
  BY DEF Deallocate
<1>2. /\ pc' \in [Buffers -> Pcs] /\ pc[b] = from /\ pc'[b] = to
      /\ \A c \in Buffers : c # b => pc'[c] = pc[c]
      /\ b \in Holding /\ b \notin Holding'
      /\ \A c : c # b => (c \in Holding' <=> c \in Holding)
  BY Moves DEF IInv, HoldPcs, Pcs
<1>3. /\ Holding \subseteq Buffers /\ maps \subseteq Buffers /\ Holding' \subseteq Buffers /\ b \notin maps
  BY <1>2 DEF IInv, TypeOK, Holding, Owned, Mapped
<1>4. IsBlock(mList, offset[b], size[b])
  BY <1>2 DEF IInv, Owned, Backed
<1>5. offset[b] \in DOMAIN mList /\ ~mList[offset[b]].free
  BY <1>4 DEF IsBlock, Chunk
<1>6. Tiles(mList, mHeapSize) /\ Merged(mList) /\ mHeapSize \in Nat
  BY DEF IInv, GoodList, TypeOK
<1>7. /\ Tiles(mList', mHeapSize) /\ Merged(mList')
      /\ KeepsBlocks(mList, mList', offset[b])
      /\ offset[b] \in DOMAIN mList' => mList'[offset[b]].free
  BY <1>1, <1>5, <1>6, DeallocGood
\* Every other block in use is where it was.
<1>8. ASSUME NEW x, NEW n, x # offset[b], IsBlock(mList, x, n)
      PROVE  IsBlock(mList', x, n)
  <2>1. x \in DOMAIN mList /\ ~mList[x].free
    BY <1>8 DEF IsBlock, Chunk
  <2>. QED BY <1>7, <1>8, <2>1 DEF KeepsBlocks, IsBlock
<1>9. TypeOK'
  BY <1>1, <1>2, <1>3, <1>7 DEF IInv, TypeOK, master, Tiles, ListType
<1>10. GoodList'
  BY <1>1, <1>7 DEF GoodList
<1>11. Region'
  <2>1. mHeapSize # 0 /\ master_fd = "open"
    BY <1>2, OpenUnlessNone DEF IInv, Region
  <2>. QED BY <1>1, <2>1 DEF IInv, Region, master
<1>12. Asking'
  BY <1>2 DEF IInv, Owned, Asking
<1>13. \A c \in Holding' : c \in Holding /\ c # b /\ offset'[c] = offset[c] /\ size'[c] = size[c] /\ offset[c] # offset[b]
  BY <1>2, <1>3 DEF IInv, Owned, OneOwner
<1>14. Backed'
  BY <1>8, <1>13 DEF IInv, Owned, Backed
<1>15. LostBacked'
  BY <1>1, <1>2, <1>8 DEF IInv, Owned, LostBacked, OneOwner
<1>16. Mapped'
  BY <1>1, <1>2, <1>3 DEF IInv, Owned, Mapped
<1>17. OneOwner'
  <2>1. \A c \in Holding' \cup maps : c \in Holding \cup maps /\ offset'[c] = offset[c]
    BY <1>3, <1>13
  <2>2. \A c, d \in Holding' \cup maps : c # d => offset'[c] # offset'[d]
    BY <2>1 DEF IInv, Owned, OneOwner
  <2>3. \A c \in Holding', l \in lost : l.start # offset'[c]
    BY <1>13 DEF IInv, Owned, OneOwner
  <2>. QED BY <1>1, <2>2, <2>3 DEF OneOwner
<1>18. Accounted'
  <2>. SUFFICES ASSUME NEW x \in DOMAIN mList', ~mList'[x].free
                PROVE  (\E c \in Holding' : offset'[c] = x) \/ (\E l \in lost : l.start = x)
    BY <1>1 DEF Accounted
  <2>1. x # offset[b]
    BY <1>7
  <2>2. x \in DOMAIN mList /\ ~mList[x].free
    BY <1>7, <2>1 DEF KeepsBlocks
  <2>3. ASSUME NEW c \in Holding, offset[c] = x  PROVE c \in Holding' /\ offset'[c] = x
    BY <1>2, <1>3, <2>1, <2>3
  <2>. QED BY <2>2, <2>3 DEF IInv, Owned, Accounted
<1>. QED
  BY <1>9, <1>10, <1>11, <1>12, <1>14, <1>15, <1>16, <1>17, <1>18 DEF IInv, Owned

\* What the end of a call leaves of its arguments.
LEMMA ForgetLeaves ==
  ASSUME IInv, NEW b \in Buffers, Forget(b)
  PROVE  /\ size' \in [Buffers -> Nat] /\ offset' \in [Buffers -> Nat]
         /\ \A c \in Buffers : c # b => size'[c] = size[c] /\ offset'[c] = offset[c]
BY DEF IInv, TypeOK, Forget

\* Where a buffer's step leaves it among those that have a block.
LEMMA HoldMoves ==
  ASSUME IInv, NEW b \in Buffers, NEW from, NEW to \in Pcs, Go(b, from, to)
  PROVE  /\ b \in Holding <=> from \in HoldPcs
         /\ b \in Holding' <=> to \in HoldPcs
         /\ b \in maps => from \in {"live", "close"}
         /\ b \in maps /\ from = "close" => Of(b) \in lost
BY Moves DEF IInv, Owned, Mapped, Of

THEOREM NextIInv == IInv /\ [Next]_vars => IInv'
<1>. SUFFICES ASSUME IInv, [Next]_vars PROVE IInv'
  OBVIOUS
<1>. USE DEF Pcs, HoldPcs
<1>0. size \in [Buffers -> Nat] /\ offset \in [Buffers -> Nat]
  BY DEF IInv, TypeOK
<1>1. CASE UNCHANGED vars
  BY <1>1 DEF vars, heap, master, buffers, IInv, TypeOK, Region, GoodList, Owned, Asking, Backed,
             LostBacked, Mapped, OneOwner, Accounted, Holding
<1>2. CASE CannotOpen
  <2>1. UNCHANGED <<heap, mapped, buffers, maps, lost>> /\ master_fd = "init" /\ master_fd' \in {"init", "failed"}
    BY <1>2 DEF CannotOpen
  <2>2. TypeOK' /\ GoodList' /\ Region'
    BY <2>1 DEF heap, buffers, IInv, TypeOK, GoodList, Region
  <2>3. Owned'
    BY <2>1 DEF heap, buffers, IInv, Owned, Asking, Backed, LostBacked, Mapped, OneOwner, Accounted, Holding
  <2>. QED BY <2>2, <2>3 DEF IInv
<1>3. CASE CannotMap
  <2>1. PICK bytes \in {PmemBytes, LimpBytes} : SetSize(bytes)
    BY <1>3 DEF CannotMap
  <2>2. mapped' \in Nat
    BY <1>3 DEF CannotMap, IInv, TypeOK
  <2>. QED BY <1>3, <2>1, <2>2, SetSizeIInv DEF CannotMap
<1>4. CASE LimpMode
  <2>1. mapped' \in Nat
    BY <1>4, HeapSizes DEF LimpMode
  <2>2. master_fd' = "init" /\ master_fd = "init" /\ SetSize(LimpBytes) /\ UNCHANGED <<buffers, maps, lost>>
    BY <1>4 DEF LimpMode
  <2>. QED BY <2>1, <2>2, SetSizeIInv
<1>5. CASE InitPmemArea
  <2>1. mapped' \in Nat
    BY <1>5, HeapSizes DEF InitPmemArea
  <2>. QED BY <1>5, <2>1, SetSizeIInv DEF InitPmemArea
<1>6. ASSUME NEW b \in Buffers, AllocPmemBuffer(b)  PROVE IInv'
  BY <1>6, AllocPmemBufferIInv
<1>7. ASSUME NEW b \in Buffers, Allocate(b)  PROVE IInv'
  BY <1>7, AllocateIInv
<1>8. ASSUME NEW b \in Buffers, NoMemory(b)  PROVE IInv'
  <2>1. /\ Go(b, "allocate", "refused") /\ UNCHANGED <<heap, master>>
        /\ size' = size /\ offset' = offset /\ maps' = maps /\ lost' = lost
    BY <1>8 DEF NoMemory
  <2>2. b \notin Holding /\ b \notin Holding' /\ b \notin maps
    BY <2>1, HoldMoves
  <2>. QED BY <1>0, <2>1, <2>2, QuietIInv
<1>9. ASSUME NEW b \in Buffers, TryAshmem(b)  PROVE IInv'
  <2>1. Go(b, "refused", "none") /\ UNCHANGED <<heap, master>> /\ maps' = maps /\ lost' = lost /\ Forget(b)
    BY <1>9 DEF TryAshmem
  <2>2. b \notin Holding /\ b \notin Holding' /\ b \notin maps
    BY <2>1, HoldMoves
  <2>. QED BY <2>1, <2>2, ForgetLeaves, QuietIInv
<1>10. ASSUME NEW b \in Buffers, MapPmem(b)  PROVE IInv'
  <2>1. /\ Go(b, "connect", "live") /\ UNCHANGED <<heap, master>>
        /\ size' = size /\ offset' = offset /\ maps' = maps \cup {b} /\ lost' = lost
    BY <1>10 DEF MapPmem
  <2>2. b \in Holding /\ b \in Holding'
    BY <2>1, HoldMoves
  <2>. QED BY <1>0, <2>1, <2>2, QuietIInv
<1>11. ASSUME NEW b \in Buffers, CannotConnect(b)  PROVE IInv'
  <2>1. /\ Go(b, "connect", "undo") /\ UNCHANGED <<heap, master>>
        /\ size' = size /\ offset' = offset /\ maps' = maps /\ lost' = lost
    BY <1>11 DEF CannotConnect
  <2>2. b \in Holding /\ b \in Holding' /\ b \notin maps
    BY <2>1, HoldMoves
  <2>. QED BY <1>0, <2>1, <2>2, QuietIInv
<1>12. ASSUME NEW b \in Buffers, Undo(b)  PROVE IInv'
  <2>1. Go(b, "undo", "none") /\ Deallocate(b) /\ Forget(b)
    BY <1>12 DEF Undo
  <2>. QED BY <2>1, ForgetLeaves, GiveBackIInv
<1>13. ASSUME NEW b \in Buffers, UnmapPmem(b)  PROVE IInv'
  <2>1. /\ Go(b, "live", "deallocate") /\ UNCHANGED <<heap, master>>
        /\ size' = size /\ offset' = offset /\ maps' = maps \ {b} /\ lost' = lost
    BY <1>13 DEF UnmapPmem
  <2>2. b \in Holding /\ b \in Holding'
    BY <2>1, HoldMoves
  <2>. QED BY <1>0, <2>1, <2>2, QuietIInv
<1>14. ASSUME NEW b \in Buffers, FreeBlock(b)  PROVE IInv'
  <2>1. Go(b, "deallocate", "close") /\ Deallocate(b) /\ size' = size /\ offset' = offset
    BY <1>14 DEF FreeBlock
  <2>. QED BY <1>0, <2>1, GiveBackIInv
<1>15. ASSUME NEW b \in Buffers, CannotUnmap(b)  PROVE IInv'
  <2>1. /\ Go(b, "live", "close") /\ UNCHANGED <<heap, master>>
        /\ size' = size /\ offset' = offset /\ maps' = maps /\ lost' = lost \cup {Of(b)}
    BY <1>15 DEF CannotUnmap, Of
  <2>2. b \in Holding /\ b \notin Holding'
    BY <2>1, HoldMoves
  <2>. QED BY <1>0, <2>1, <2>2, QuietIInv
<1>16. ASSUME NEW b \in Buffers, Close(b)  PROVE IInv'
  <2>1. Go(b, "close", "none") /\ UNCHANGED <<heap, master>> /\ maps' = maps \ {b} /\ lost' = lost /\ Forget(b)
    BY <1>16 DEF Close
  <2>2. b \notin Holding /\ b \notin Holding'
    BY <2>1, HoldMoves
  <2>. QED BY <2>1, <2>2, ForgetLeaves, QuietIInv
<1>. QED
  BY <1>1, <1>2, <1>3, <1>4, <1>5, <1>6, <1>7, <1>8, <1>9, <1>10, <1>11, <1>12, <1>13, <1>14, <1>15,
     <1>16, Zenon DEF Next

THEOREM Invariant == Spec => []IInv
<1>1. Init => IInv
  BY InitIInv
<1>2. IInv /\ [Next]_vars => IInv'
  BY NextIInv
<1>. QED BY <1>1, <1>2, PTL DEF Spec

-----------------------------------------------------------------------------
(* The safety properties                                                   *)

\* Every variable has a value of its kind, whatever is allocated and freed.
THEOREM TypeCorrect == Spec => []TypeOK
<1>1. IInv => TypeOK
  BY DEF IInv
<1>. QED BY <1>1, Invariant, PTL

\* The chunks always tile the heap (allocator.cpp: alloc and dealloc).
THEOREM AlwaysTiled == Spec => []Tiled
<1>1. IInv => Tiled
  BY DEF IInv, GoodList, Tiles, Within, Ordered, Covers, Tiled, End, EndOf
<1>. QED BY <1>1, Invariant, PTL

\* dealloc merges whatever can be merged, in any order of the frees.
THEOREM AlwaysCoalesced == Spec => []Coalesced
<1>1. IInv => Coalesced
  BY DEF IInv, GoodList, Merged, Coalesced, End, EndOf
<1>. QED BY <1>1, Invariant, PTL

\* Two blocks in use that begin at different places are apart, on whole pages.
LEMMA BlocksApart ==
  ASSUME IInv, NEW x, NEW n, NEW y, NEW m, IsBlock(mList, x, n), IsBlock(mList, y, m), x < y
  PROVE  x \in Nat /\ y \in Nat /\ n \in Nat \ {0} /\ m \in Nat \ {0} /\ x + n <= y
<1>1. x \in DOMAIN mList /\ y \in DOMAIN mList /\ mList[x].size = n /\ mList[y].size = m
  BY DEF IsBlock, Chunk
<1>. QED BY <1>1 DEF IInv, GoodList, Tiles, ListType, Within, Ordered, EndOf

\* The block of a buffer that has one, or whose sub-heap is still mapped.
LEMMA BlockOf ==
  ASSUME IInv, NEW b \in Holding \cup maps
  PROVE  IsBlock(mList, offset[b], size[b]) /\ b \in Buffers
<1>1. CASE b \in Holding
  BY <1>1 DEF IInv, Owned, Backed, Holding
<1>2. CASE b \notin Holding
  <2>1. b \in Buffers /\ [start |-> offset[b], size |-> size[b]] \in lost
    BY <1>2 DEF IInv, TypeOK, Owned, Mapped, Holding
  <2>. QED BY <2>1 DEF IInv, Owned, LostBacked
<1>. QED BY <1>1, <1>2

LEMMA PagesApart ==
  ASSUME NEW x \in Nat, NEW n \in Nat \ {0}, NEW y \in Nat, NEW m \in Nat \ {0},
         y % Page = 0, x + n <= y
  PROVE  Pages(x, n) \cap Pages(y, m) = {}
<1>1. (x + n - 1) \div Page < y \div Page
  BY DEF Page, pagesize, kMemoryAlign
<1>. QED BY <1>1 DEF Pages, Page, pagesize, kMemoryAlign

\* What a client has mapped is on no page of another's block, for any number of
\* buffers and threads.
THEOREM NeverSharedPage == Spec => []NoSharedPage
<1>1. ASSUME IInv PROVE NoSharedPage
  <2>. SUFFICES ASSUME NEW b \in maps, NEW c \in Holding \cup maps, b # c
                PROVE  Pages(offset[b], size[b]) \cap Pages(offset[c], size[c]) = {}
    BY DEF NoSharedPage
  <2>1. IsBlock(mList, offset[b], size[b]) /\ IsBlock(mList, offset[c], size[c])
    BY <1>1, BlockOf
  <2>2. offset[b] # offset[c] /\ offset[b] \in Nat /\ offset[c] \in Nat
    BY <1>1, BlockOf DEF IInv, TypeOK, Owned, OneOwner
  <2>3. CASE offset[b] < offset[c]
    BY <1>1, <2>1, <2>3, BlocksApart, PagesApart DEF IsBlock
  <2>4. CASE offset[c] < offset[b]
    BY <1>1, <2>1, <2>4, BlocksApart, PagesApart DEF IsBlock
  <2>. QED BY <2>2, <2>3, <2>4
<1>. QED BY <1>1, Invariant, PTL

\* No block reaches past what is mapped at master_base, whichever of the sizes the heap
\* took from initialisations that failed, as long as that is not more than the region has.
THEOREM AlwaysMapped == Spec => []BlocksMapped
<1>1. ASSUME IInv PROVE BlocksMapped
  <2>. SUFFICES ASSUME NEW b \in Holding, mHeapSize <= HeapOf(PmemBytes)
                PROVE  offset[b] + size[b] <= mapped
    BY DEF BlocksMapped
  <2>1. b \in Buffers /\ pc[b] # "none"
    BY DEF Holding
  <2>2. mHeapSize <= mapped /\ mHeapSize \in Nat /\ mapped \in Nat
    BY <1>1, <2>1, OpenUnlessNone DEF IInv, Region, TypeOK
  <2>3. IsBlock(mList, offset[b], size[b])
    BY <1>1, BlockOf
  <2>4. offset[b] + size[b] <= mHeapSize
    BY <1>1, <2>3 DEF IsBlock, Chunk, IInv, GoodList, Tiles, Within, EndOf
  <2>5. offset[b] \in Nat /\ size[b] \in Nat
    BY <1>1, <2>1 DEF IInv, TypeOK
  <2>. QED BY <2>2, <2>4, <2>5
<1>. QED BY <1>1, Invariant, PTL

-----------------------------------------------------------------------------
(* The best fit among chunks implements the pool of blocks                 *)

\* If there is room for a block on a page anywhere in the heap, there is a chunk
\* that fits it: no room is split between two chunks, because they are coalesced.
LEMMA RoomFits ==
  ASSUME NEW L, NEW H \in Nat, Tiles(L, H), Merged(L),
         NEW n \in Nat \ {0}, NEW s \in Nat, s % Page = 0, s + n <= H,
         \A x \in DOMAIN L : ~L[x].free => s + n <= x \/ EndOf(L, x) <= s
  PROVE  HasFit(L, n)
<1>1. \A c \in DOMAIN L : L[c].size \in Nat \ {0} /\ c \in Nat /\ EndOf(L, c) <= H
                          /\ EndOf(L, c) \in Nat /\ EndOf(L, c) = c + L[c].size
  BY DEF Tiles, ListType, Within, EndOf
<1>2. \A c, d \in DOMAIN L : c < d => EndOf(L, c) <= d
  BY DEF Tiles, Ordered
<1>3. \A x \in 0..H - 1 : \E c \in DOMAIN L : c <= x /\ x < EndOf(L, c)
  BY DEF Tiles, Covers
<1>4. PICK c \in DOMAIN L : c <= s /\ s < EndOf(L, c)
  BY <1>3
<1>5. L[c].free
  BY <1>1, <1>4
<1>6. ASSUME EndOf(L, c) < s + n  PROVE FALSE
  <2>1. EndOf(L, c) \in 0..H - 1
    BY <1>1, <1>6
  <2>2. PICK d \in DOMAIN L : d <= EndOf(L, c) /\ EndOf(L, c) < EndOf(L, d)
    BY <1>3, <2>1
  <2>3. c < d
    BY <1>1, <1>2, <1>4, <2>2
  <2>4. d = EndOf(L, c)
    BY <1>1, <1>2, <2>2, <2>3
  <2>5. ~L[d].free
    BY <1>5, <2>4 DEF Merged
  <2>6. s + n <= d \/ EndOf(L, d) <= s
    BY <2>5
  <2>. QED BY <1>1, <1>4, <1>6, <2>2, <2>4, <2>6
<1>7. Extra(c) \in Nat /\ c + Extra(c) <= s
  <2>1. c \in Nat
    BY <1>1
  <2>2. Extra(c) \in 0..Page - 1 /\ \A x \in Nat : x >= c /\ x % Page = 0 => x >= c + Extra(c)
    BY <2>1, ExtraFacts
  <2>3. Page \in Nat
    BY DEF Page, pagesize, kMemoryAlign
  <2>. QED BY <1>4, <2>1, <2>2, <2>3
<1>8. L[c].size >= n + Extra(c)
  BY <1>1, <1>4, <1>6, <1>7
<1>. QED BY <1>5, <1>8 DEF HasFit, Fits

Asked == [b \in Buffers |-> IF pc[b] = "allocate" THEN size[b] ELSE 0]
Held ==
  [b \in Buffers |->
     IF b \in Holding THEN [start |-> offset[b], size |-> size[b]]
                      ELSE [start |-> 0, size |-> 0]]
Refused == {b \in Buffers : pc[b] = "refused"}

LEMMA HeldBlock ==
  ASSUME IInv, NEW b \in Holding
  PROVE  b \in Buffers /\ Held[b] = Of(b) /\ Of(b) # [start |-> 0, size |-> 0]
<1>1. b \in Buffers /\ size[b] > 0 /\ size[b] \in Nat
  BY DEF IInv, TypeOK, Owned, Backed, Holding
<1>2. Of(b).size = size[b] /\ Of(b) \in [start : Nat, size : Nat]
  BY <1>1 DEF Of, IInv, TypeOK
<1>. QED BY <1>1, <1>2 DEF Held, Of

\* What one buffer's step changes of what the pool sees.
LEMMA PoolMoves ==
  ASSUME IInv, NEW b \in Buffers, NEW from, NEW to \in Pcs, Go(b, from, to),
         \A c \in Buffers : c # b => size'[c] = size[c] /\ offset'[c] = offset[c]
  PROVE  /\ Asked' = [Asked EXCEPT ![b] = IF to = "allocate" THEN size'[b] ELSE 0]
         /\ Held' = [Held EXCEPT ![b] = IF to \in HoldPcs
                                          THEN [start |-> offset'[b], size |-> size'[b]]
                                          ELSE [start |-> 0, size |-> 0]]
         /\ Refused' = IF to = "refused" THEN Refused \cup {b} ELSE Refused \ {b}
<1>1. /\ pc'[b] = to
      /\ \A c \in Buffers : c # b => pc'[c] = pc[c]
      /\ to \in HoldPcs <=> b \in Holding'
      /\ \A c : c # b => (c \in Holding' <=> c \in Holding)
  BY Moves DEF IInv
<1>2. Asked' = [Asked EXCEPT ![b] = IF to = "allocate" THEN size'[b] ELSE 0]
  BY <1>1 DEF Asked
<1>3. Held' = [Held EXCEPT ![b] = IF to \in HoldPcs
                                    THEN [start |-> offset'[b], size |-> size'[b]]
                                    ELSE [start |-> 0, size |-> 0]]
  BY <1>1 DEF Held
<1>4. Refused' = IF to = "refused" THEN Refused \cup {b} ELSE Refused \ {b}
  BY <1>1 DEF Refused
<1>. QED BY <1>2, <1>3, <1>4

\* alloc grants room that nobody has.
LEMMA GrantRoom ==
  ASSUME IInv, NEW b \in Buffers, Allocate(b)
  PROVE  /\ offset'[b] \in 0..mHeapSize /\ offset'[b] % Page = 0
         /\ offset'[b] + size[b] <= mHeapSize
         /\ \A c \in Holding : offset'[b] + size[b] <= offset[c] \/ offset[c] + size[c] <= offset'[b]
         /\ \A l \in lost : offset'[b] + size[b] <= l.start \/ l.start + l.size <= offset'[b]
<1>. DEFINE B == offset'[b]
<1>1. /\ Tiles(mList', mHeapSize)
      /\ IsBlock(mList', B, size[b]) /\ size[b] \in Nat \ {0}
      /\ B \in DOMAIN mList => mList[B].free
      /\ KeepsBlocks(mList, mList', B)
  BY AllocateShape
<1>. HIDE DEF B
<1>2. mHeapSize \in Nat
  BY DEF IInv, TypeOK
<1>3. B \in Nat /\ B + size[b] <= mHeapSize
  BY <1>1 DEF Tiles, ListType, Within, EndOf, IsBlock, Chunk
<1>4. ASSUME NEW x, NEW m, IsBlock(mList, x, m)
      PROVE  B + size[b] <= x \/ x + m <= B
  <2>1. x \in DOMAIN mList /\ ~mList[x].free
    BY <1>4 DEF IsBlock, Chunk
  <2>2. x # B /\ x \in DOMAIN mList' /\ mList'[x] = Chunk(m, FALSE)
    BY <1>1, <1>4, <2>1 DEF KeepsBlocks, IsBlock
  <2>3. x \in Nat /\ B \in DOMAIN mList' /\ EndOf(mList', x) = x + m /\ EndOf(mList', B) = B + size[b]
    BY <1>1, <2>2 DEF Tiles, ListType, IsBlock, EndOf, Chunk
  <2>. QED BY <1>1, <1>3, <2>2, <2>3 DEF Tiles, Ordered
<1>5. \A c \in Holding : IsBlock(mList, offset[c], size[c])
  BY DEF IInv, Owned, Backed
<1>6. \A l \in lost : IsBlock(mList, l.start, l.size)
  BY DEF IInv, Owned, LostBacked
<1>7. B % Page = 0
  BY <1>1 DEF IsBlock
<1>. QED BY <1>1, <1>2, <1>3, <1>4, <1>5, <1>6, <1>7 DEF B

\* alloc refuses only what nobody could be given.
LEMMA RefuseRoom ==
  ASSUME IInv, NEW b \in Buffers, NoMemory(b),
         NEW s \in 0..mHeapSize, s % Page = 0, s + size[b] <= mHeapSize,
         \A c \in Holding : s + size[b] <= offset[c] \/ offset[c] + size[c] <= s,
         \A l \in lost : l.size > 0 => s + size[b] <= l.start \/ l.start + l.size <= s
  PROVE  FALSE
<1>1. size[b] \in Nat \ {0}
  BY AmountsPositive DEF IInv, Owned, Asking, NoMemory, Go
<1>2. Tiles(mList, mHeapSize) /\ Merged(mList) /\ mHeapSize \in Nat
  BY DEF IInv, GoodList, TypeOK
<1>3. ASSUME NEW x \in DOMAIN mList, ~mList[x].free
      PROVE  s + size[b] <= x \/ EndOf(mList, x) <= s
  <2>1. CASE \E c \in Holding : offset[c] = x
    <3>1. PICK c \in Holding : offset[c] = x
      BY <2>1
    <3>2. mList[x] = Chunk(size[c], FALSE)
      BY <3>1 DEF IInv, Owned, Backed, IsBlock
    <3>3. EndOf(mList, x) = offset[c] + size[c]
      BY <3>1, <3>2 DEF EndOf, Chunk
    <3>. QED BY <3>1, <3>3
  <2>2. CASE \E l \in lost : l.start = x
    <3>1. PICK l \in lost : l.start = x
      BY <2>2
    <3>2. mList[x] = Chunk(l.size, FALSE)
      BY <3>1 DEF IInv, Owned, LostBacked, IsBlock
    <3>3. EndOf(mList, x) = l.start + l.size /\ l.size = mList[x].size
      BY <3>1, <3>2 DEF EndOf, Chunk
    <3>4. l.size > 0
      BY <1>2, <3>3 DEF Tiles, Within
    <3>. QED BY <3>1, <3>3, <3>4
  <2>. QED BY <1>3, <2>1, <2>2 DEF IInv, Owned, Accounted
<1>4. HasFit(mList, size[b])
  BY <1>1, <1>2, <1>3, RoomFits
<1>. QED BY <1>4 DEF NoMemory

\* The pool's variables, as module Gralloc gives them.
Nothing == [start |-> 0, size |-> 0]

LEMMA PoolGrant ==
  ASSUME IInv, NEW b \in Buffers, Allocate(b)
  PROVE  Pool!Grant(b)
<1>1. /\ Go(b, "allocate", "connect") /\ UNCHANGED <<mHeapSize, master, size, maps, lost>>
  BY DEF Allocate
<1>2. \A c \in Buffers : c # b => size'[c] = size[c] /\ offset'[c] = offset[c]
  BY <1>1, AllocateShape
<1>3. /\ Asked' = [Asked EXCEPT ![b] = 0]
      /\ Held' = [Held EXCEPT ![b] = [start |-> offset'[b], size |-> size[b]]]
      /\ Refused' = Refused \ {b}
  BY <1>1, <1>2, PoolMoves DEF HoldPcs, Pcs
<1>4. Asked[b] = size[b] /\ size[b] \in Nat \ {0} /\ b \notin Refused
  BY <1>1, AllocateShape DEF Asked, Refused, Go
<1>5. /\ offset'[b] \in 0..mHeapSize /\ offset'[b] % Page = 0
      /\ offset'[b] + size[b] <= mHeapSize
      /\ \A c \in Holding : offset'[b] + size[b] <= offset[c] \/ offset[c] + size[c] <= offset'[b]
      /\ \A l \in lost : offset'[b] + size[b] <= l.start \/ l.start + l.size <= offset'[b]
  BY GrantRoom
<1>6. ASSUME NEW block \in {Held[c] : c \in Buffers} \cup lost, block # Nothing
      PROVE  offset'[b] + size[b] <= block.start \/ block.start + block.size <= offset'[b]
  <2>1. CASE block \in lost
    BY <1>5, <2>1
  <2>2. CASE block \notin lost
    <3>1. PICK c \in Buffers : block = Held[c]
      BY <1>6, <2>2
    <3>2. c \in Holding
      BY <1>6, <3>1 DEF Held, Nothing
    <3>3. block.start = offset[c] /\ block.size = size[c]
      BY <3>1, <3>2 DEF Held
    <3>. QED BY <1>5, <3>2, <3>3
  <2>. QED BY <2>1, <2>2
<1>7. Pool!Room(offset'[b], size[b])
  BY <1>5, <1>6 DEF Pool!Room, Pool!Blocks, Pool!Apart, Pool!Nothing, Pool!Block, Held, Nothing
<1>8. offset'[b] \in Pool!Places
  BY <1>5 DEF Pool!Places
<1>9. Refused' = Refused
  BY <1>3, <1>4
<1>. QED
  BY <1>1, <1>3, <1>4, <1>7, <1>8, <1>9 DEF Pool!Grant, Pool!Block, Asked, Held, Refused

LEMMA PoolRefuse ==
  ASSUME IInv, NEW b \in Buffers, NoMemory(b)
  PROVE  Pool!Refuse(b)
<1>1. /\ Go(b, "allocate", "refused") /\ UNCHANGED <<heap, master, size, offset, maps, lost>>
  BY DEF NoMemory
<1>2. b \notin Holding
  BY <1>1, HoldMoves DEF HoldPcs, Pcs
<1>3. /\ Asked' = [Asked EXCEPT ![b] = 0]
      /\ Held' = [Held EXCEPT ![b] = Nothing]
      /\ Refused' = Refused \cup {b}
  BY <1>1, PoolMoves DEF HoldPcs, Pcs, Nothing
<1>4. Asked[b] = size[b] /\ size[b] \in Nat \ {0} /\ Held[b] = Nothing
  <2>1. size[b] \in Nat \ {0}
    BY <1>1, AmountsPositive DEF IInv, Owned, Asking, Go
  <2>. QED BY <1>1, <1>2, <2>1 DEF Asked, Held, Nothing, Go
<1>5. Held' = Held
  BY <1>3, <1>4 DEF Held
<1>6. ASSUME NEW s \in Pool!Places, Pool!Room(s, size[b])  PROVE FALSE
  <2>1. s \in 0..mHeapSize /\ s % Page = 0
    BY DEF Pool!Places
  <2>2. /\ s + size[b] <= mHeapSize
        /\ \A block \in {Held[c] : c \in Buffers} \cup lost :
             block # Nothing => s + size[b] <= block.start \/ block.start + block.size <= s
    BY <1>6 DEF Pool!Room, Pool!Blocks, Pool!Apart, Pool!Nothing, Pool!Block, Held, Nothing
  <2>3. ASSUME NEW c \in Holding
        PROVE  s + size[b] <= offset[c] \/ offset[c] + size[c] <= s
    <3>1. c \in Buffers /\ Held[c] = Of(c) /\ Of(c) # Nothing
      BY HeldBlock DEF Nothing
    <3>. QED BY <2>2, <3>1 DEF Of
  <2>4. ASSUME NEW l \in lost, l.size > 0
        PROVE  s + size[b] <= l.start \/ l.start + l.size <= s
    <3>1. l # Nothing
      BY <2>4 DEF Nothing
    <3>. QED BY <2>2, <3>1
  <2>. QED BY <2>1, <2>2, <2>3, <2>4, RefuseRoom
<1>. QED
  BY <1>1, <1>3, <1>4, <1>5, <1>6 DEF Pool!Refuse, Asked, Held, Refused, heap

\* A step that the pool does not see.
PoolStutter == Asked' = Asked /\ Held' = Held /\ Refused' = Refused /\ mHeapSize' = mHeapSize /\ lost' = lost

LEMMA PoolStep ==
  ASSUME IInv, [Next]_vars
  PROVE  Pool!PNext \/ PoolStutter
<1>. USE DEF Pcs, HoldPcs
<1>1. CASE UNCHANGED vars
  BY <1>1 DEF vars, heap, master, buffers, PoolStutter, Asked, Held, Refused, Holding
\* The initialisation gives the heap its size, or keeps it.
<1>2. ASSUME NEW bytes \in {PmemBytes, LimpBytes}, SetSize(bytes), UNCHANGED <<buffers, maps, lost>>
      PROVE  Pool!PNext \/ PoolStutter
  <2>1. Asked' = Asked /\ Held' = Held /\ Refused' = Refused
    BY <1>2 DEF buffers, Asked, Held, Refused, Holding
  <2>2. CASE mHeapSize = 0
    <3>1. mHeapSize' \in Nat
      BY <1>2, SetSizeGood
    <3>2. Pool!SetHeap
      BY <1>2, <2>1, <2>2, <3>1 DEF Pool!SetHeap, Asked, Held, Refused
    <3>. QED BY <3>2 DEF Pool!PNext
  <2>3. CASE mHeapSize # 0
    BY <1>2, <2>1, <2>3 DEF SetSize, heap, PoolStutter
  <2>. QED BY <2>2, <2>3
<1>3. CASE CannotOpen
  BY <1>3 DEF CannotOpen, heap, buffers, PoolStutter, Asked, Held, Refused, Holding
<1>4. CASE CannotMap \/ LimpMode \/ InitPmemArea
  BY <1>2, <1>4 DEF CannotMap, LimpMode, InitPmemArea
<1>5. ASSUME NEW b \in Buffers, AllocPmemBuffer(b)  PROVE Pool!PNext
  <2>1. Go(b, "none", "allocate") /\ UNCHANGED <<heap, master, offset, maps, lost>>
    BY <1>5 DEF AllocPmemBuffer
  <2>2. PICK bytes \in Sizes : size' = [size EXCEPT ![b] = Units(bytes)]
    BY <1>5 DEF AllocPmemBuffer
  <2>3. size'[b] = Units(bytes) /\ \A c \in Buffers : c # b => size'[c] = size[c]
    BY <2>2 DEF IInv, TypeOK
  <2>4. /\ Asked' = [Asked EXCEPT ![b] = Units(bytes)]
        /\ Held' = [Held EXCEPT ![b] = Nothing]
        /\ Refused' = Refused \ {b}
    BY <2>1, <2>3, PoolMoves DEF Nothing
  <2>5. Asked[b] = 0 /\ Held[b] = Nothing /\ b \notin Refused
    BY <2>1, HoldMoves DEF Asked, Held, Refused, Nothing, Go
  <2>6. Held' = Held /\ Refused' = Refused
    BY <2>4, <2>5 DEF Held
  <2>7. Units(bytes) \in {Units(n) : n \in Sizes}
    OBVIOUS
  <2>8. Pool!Ask(b)
    BY <2>1, <2>4, <2>5, <2>6, <2>7
       DEF Pool!Ask, Pool!Nothing, Pool!Block, Asked, Held, Refused, Nothing, heap
  <2>. QED BY <2>8 DEF Pool!PNext
<1>6. ASSUME NEW b \in Buffers, Allocate(b)  PROVE Pool!PNext
  BY <1>6, PoolGrant DEF Pool!PNext
<1>7. ASSUME NEW b \in Buffers, NoMemory(b)  PROVE Pool!PNext
  BY <1>7, PoolRefuse DEF Pool!PNext
<1>8. ASSUME NEW b \in Buffers, TryAshmem(b)  PROVE Pool!PNext
  <2>1. Go(b, "refused", "none") /\ UNCHANGED <<heap, lost>> /\ Forget(b)
    BY <1>8 DEF TryAshmem
  <2>2. /\ Asked' = [Asked EXCEPT ![b] = 0]
        /\ Held' = [Held EXCEPT ![b] = Nothing]
        /\ Refused' = Refused \ {b}
    BY <2>1, ForgetLeaves, PoolMoves DEF Nothing
  <2>3. Asked[b] = 0 /\ Held[b] = Nothing /\ b \in Refused
    BY <2>1, HoldMoves DEF Asked, Held, Refused, Nothing, Go
  <2>4. Asked' = Asked /\ Held' = Held
    BY <2>2, <2>3 DEF Asked, Held
  <2>5. Pool!GiveUp(b)
    BY <2>1, <2>2, <2>3, <2>4 DEF Pool!GiveUp, Asked, Held, Refused, heap
  <2>. QED BY <2>5 DEF Pool!PNext
\* The buffer has its block before and after, or neither.
<1>9. ASSUME NEW b \in Buffers, NEW from, NEW to \in Pcs, Go(b, from, to),
             from \notin {"none", "allocate", "refused"}, to \notin {"allocate", "refused"},
             from \in HoldPcs <=> to \in HoldPcs,
             \A c \in Buffers : c # b => size'[c] = size[c] /\ offset'[c] = offset[c],
             to \in HoldPcs => size'[b] = size[b] /\ offset'[b] = offset[b],
             mHeapSize' = mHeapSize, lost' = lost
      PROVE  PoolStutter
  <2>1. /\ Asked' = [Asked EXCEPT ![b] = 0]
        /\ Held' = [Held EXCEPT ![b] = IF to \in HoldPcs
                                         THEN [start |-> offset'[b], size |-> size'[b]] ELSE Nothing]
        /\ Refused' = Refused \ {b}
    BY <1>9, PoolMoves DEF Nothing
  <2>2. Asked[b] = 0 /\ b \notin Refused
    BY <1>9 DEF Asked, Refused, Go
  <2>3. Held[b] = IF to \in HoldPcs THEN [start |-> offset'[b], size |-> size'[b]] ELSE Nothing
    BY <1>9, HoldMoves DEF Held, Nothing
  <2>4. Asked' = Asked /\ Refused' = Refused
    BY <2>1, <2>2 DEF Asked
  <2>5. Held' = Held
    BY <2>1, <2>3 DEF Held
  <2>. QED BY <1>9, <2>4, <2>5 DEF PoolStutter
<1>10. ASSUME NEW b \in Buffers, MapPmem(b) \/ CannotConnect(b) \/ UnmapPmem(b)  PROVE PoolStutter
  <2>1. size' = size /\ offset' = offset /\ mHeapSize' = mHeapSize /\ lost' = lost
    BY <1>10 DEF MapPmem, CannotConnect, UnmapPmem, heap
  <2>2. Go(b, "connect", "live") \/ Go(b, "connect", "undo") \/ Go(b, "live", "deallocate")
    BY <1>10 DEF MapPmem, CannotConnect, UnmapPmem
  <2>. QED BY <1>9, <2>1, <2>2
<1>11. ASSUME NEW b \in Buffers, Close(b)  PROVE PoolStutter
  <2>1. Go(b, "close", "none") /\ Forget(b) /\ mHeapSize' = mHeapSize /\ lost' = lost
    BY <1>11 DEF Close, heap
  <2>. QED BY <1>9, <2>1, ForgetLeaves
\* The block goes back, or is lost.
<1>12. ASSUME NEW b \in Buffers, NEW from \in HoldPcs, NEW to \in {"none", "close"}, Go(b, from, to),
              \A c \in Buffers : c # b => size'[c] = size[c] /\ offset'[c] = offset[c],
              mHeapSize' = mHeapSize, lost' = lost \/ lost' = lost \cup {Of(b)}
       PROVE  Pool!PNext
  <2>1. /\ Asked' = [Asked EXCEPT ![b] = 0]
        /\ Held' = [Held EXCEPT ![b] = Nothing]
        /\ Refused' = Refused \ {b}
    BY <1>12, PoolMoves DEF Nothing
  <2>2. Asked[b] = 0 /\ b \notin Refused /\ b \in Holding
    BY <1>12, HoldMoves DEF Asked, Refused, Go
  <2>3. Held[b] = Of(b) /\ Held[b] # Nothing
    BY <2>2, HeldBlock DEF Nothing
  <2>4. Asked' = Asked /\ Refused' = Refused
    BY <2>1, <2>2 DEF Asked
  <2>5. CASE lost' = lost
    <3>1. Pool!GiveBack(b)
      BY <1>12, <2>1, <2>3, <2>4, <2>5
         DEF Pool!GiveBack, Pool!Nothing, Pool!Block, Asked, Held, Refused, Nothing
    <3>. QED BY <3>1 DEF Pool!PNext
  <2>6. CASE lost' = lost \cup {Of(b)}
    <3>1. Pool!Lose(b)
      BY <1>12, <2>1, <2>3, <2>4, <2>6
         DEF Pool!Lose, Pool!Nothing, Pool!Block, Asked, Held, Refused, Nothing
    <3>. QED BY <3>1 DEF Pool!PNext
  <2>. QED BY <1>12, <2>5, <2>6
<1>13. ASSUME NEW b \in Buffers, Undo(b)  PROVE Pool!PNext
  <2>1. Go(b, "undo", "none") /\ Forget(b) /\ mHeapSize' = mHeapSize /\ lost' = lost
    BY <1>13 DEF Undo, Deallocate
  <2>. QED BY <1>12, <2>1, ForgetLeaves
<1>14. ASSUME NEW b \in Buffers, FreeBlock(b)  PROVE Pool!PNext
  <2>1. /\ Go(b, "deallocate", "close") /\ size' = size /\ offset' = offset
        /\ mHeapSize' = mHeapSize /\ lost' = lost
    BY <1>14 DEF FreeBlock, Deallocate
  <2>. QED BY <1>12, <2>1
<1>15. ASSUME NEW b \in Buffers, CannotUnmap(b)  PROVE Pool!PNext
  <2>1. /\ Go(b, "live", "close") /\ size' = size /\ offset' = offset
        /\ mHeapSize' = mHeapSize /\ lost' = lost \cup {Of(b)}
    BY <1>15 DEF CannotUnmap, Of, heap
  <2>. QED BY <1>12, <2>1
<1>. QED
  BY <1>1, <1>3, <1>4, <1>5, <1>6, <1>7, <1>8, <1>10, <1>11, <1>13, <1>14, <1>15, Zenon DEF Next

\* The best fit, the splits and the merges, with any number of threads between
\* them, do what module BlockPool promises.
THEOREM PoolImplemented == Spec => ImplementsPool
<1>1. Init => Pool!PInit
  <2>. SUFFICES ASSUME Init PROVE Pool!PInit
    OBVIOUS
  <2>1. mHeapSize = 0 /\ lost = {} /\ Refused = {}
    BY DEF Init, Refused
  <2>2. Asked = [b \in Buffers |-> 0] /\ Held = [b \in Buffers |-> Nothing]
    BY DEF Init, Asked, Held, Holding, Nothing
  <2>. QED BY <2>1, <2>2 DEF Pool!PInit, Pool!Nothing, Pool!Block, Asked, Held, Refused, Nothing
<1>2. IInv /\ [Next]_vars => [Pool!PNext]_(Pool!pvars)
  BY PoolStep DEF PoolStutter, Pool!pvars, Asked, Held, Refused
<1>. QED BY <1>1, <1>2, Invariant, PTL DEF Spec, ImplementsPool, Pool!PSpec
===============================================================================
