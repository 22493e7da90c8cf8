---------------------------- MODULE EngineProofs ----------------------------
(* Proofs about the sequential engines, for every value of their constants: *)
(* the device arena, the transactional transitions, the scoring pipeline    *)
(* and the CUDA engine; and about the training and evaluation programs.     *)
EXTENDS DeviceArena, ElasticTransition, GpuPipeline, CudaEngine, RankPrograms,
        SafetyGuard, SetLemmas, SequenceTheorems

-----------------------------------------------------------------------------
(* The device arena: the blocks tile the backing allocation, an allocation  *)
(* fails only if no aligned run of free bytes is long enough, and live      *)
(* slices belong to their callers until they free them.                     *)

(* What insert_free needs of a free map, and keeps.                         *)
Joined(F) == \A b, c \in F : End(b) # c.offset

FreeMap(F) == F \subseteq BlockSet /\ Disjoint(F) /\ Joined(F)

Covered(x, S) == \E b \in S : Within(x, b)

-----------------------------------------------------------------------------
(* Blocks                                                                   *)

(* Two blocks lie apart if no byte is in both.                              *)
LEMMA ApartByBytes ==
    ASSUME NEW b, NEW c,
           b.offset \in Nat, b.size \in Nat \ {0},
           c.offset \in Nat, c.size \in Nat \ {0},
           \A x \in Nat : ~(Within(x, b) /\ Within(x, c))
    PROVE  Apart(b, c)
<1>1. ~(Within(b.offset, b) /\ Within(b.offset, c))
  OBVIOUS
<1>2. ~(Within(c.offset, b) /\ Within(c.offset, c))
  OBVIOUS
<1> QED
  BY <1>1, <1>2 DEF Apart, Within, End

(* And blocks that lie apart share no byte.                                 *)
LEMMA BytesOfApart ==
    ASSUME NEW b, NEW c, NEW x \in Nat,
           b.offset \in Nat, b.size \in Nat \ {0},
           c.offset \in Nat, c.size \in Nat \ {0},
           Apart(b, c)
    PROVE  ~(Within(x, b) /\ Within(x, c))
BY DEF Apart, Within, End

(* At most one free block touches b from the left, and it is found.         *)
LEMMA LeftFound ==
    ASSUME NEW F, FreeMap(F), NEW b \in BlockSet, \A c \in F : Apart(b, c)
    PROVE  /\ \A p, q \in TouchingLeft(F, b) : p = q
           /\ \A c \in F : End(c) = b.offset => c \in TouchingLeft(F, b)
           /\ \A p \in TouchingLeft(F, b) : p \in F /\ End(p) = b.offset
<1>1. ASSUME NEW p \in TouchingLeft(F, b), NEW q \in TouchingLeft(F, b), p # q
      PROVE  FALSE
  <2>1. p \in BlockSet /\ q \in BlockSet /\ p \in F /\ q \in F
        /\ End(p) = b.offset /\ End(q) = b.offset
    BY DEF FreeMap, TouchingLeft
  <2>2. Apart(p, q)
    BY <1>1, <2>1 DEF FreeMap, Disjoint
  <2> QED
    BY <2>1, <2>2 DEF Apart, End, BlockSet
<1>2. ASSUME NEW c \in F, End(c) = b.offset
      PROVE  c \in TouchingLeft(F, b)
  <2>1. c \in BlockSet /\ c.offset < b.offset
    BY <1>2 DEF FreeMap, End, BlockSet
  <2>2. ASSUME NEW d \in F, d.offset < b.offset
        PROVE  d.offset <= c.offset
    <3>1. d \in BlockSet /\ (d = c \/ Apart(c, d))
      BY DEF FreeMap, Disjoint
    <3> QED
      BY <1>2, <2>1, <2>2, <3>1 DEF Apart, End, BlockSet
  <2> QED
    BY <1>2, <2>1, <2>2 DEF TouchingLeft
<1> QED
  BY <1>1, <1>2 DEF TouchingLeft

(* The same on the right.                                                   *)
LEMMA RightFound ==
    ASSUME NEW F, FreeMap(F), NEW b \in BlockSet, \A c \in F : Apart(b, c)
    PROVE  /\ \A p, q \in TouchingRight(F, b) : p = q
           /\ \A c \in F : End(b) = c.offset => c \in TouchingRight(F, b)
           /\ \A p \in TouchingRight(F, b) : p \in F /\ End(b) = p.offset
<1>1. ASSUME NEW p \in TouchingRight(F, b), NEW q \in TouchingRight(F, b),
             p # q
      PROVE  FALSE
  <2>1. p \in BlockSet /\ q \in BlockSet /\ p \in F /\ q \in F
        /\ End(b) = p.offset /\ End(b) = q.offset
    BY DEF FreeMap, TouchingRight
  <2>2. Apart(p, q)
    BY <1>1, <2>1 DEF FreeMap, Disjoint
  <2> QED
    BY <2>1, <2>2 DEF Apart, End, BlockSet
<1>2. ASSUME NEW c \in F, End(b) = c.offset
      PROVE  c \in TouchingRight(F, b)
  <2>1. c \in BlockSet /\ c.offset > b.offset
    BY <1>2 DEF FreeMap, End, BlockSet
  <2>2. ASSUME NEW d \in F, d.offset > b.offset
        PROVE  d.offset >= c.offset
    <3>1. d \in BlockSet /\ Apart(b, d)
      BY DEF FreeMap
    <3> QED
      BY <1>2, <2>1, <2>2, <3>1 DEF Apart, End, BlockSet
  <2> QED
    BY <1>2, <2>1, <2>2 DEF TouchingRight
<1> QED
  BY <1>1, <1>2 DEF TouchingRight

(* Joining b with its left neighbour: the same bytes, and nothing touches   *)
(* the wider block from the left any more.                                  *)
LEMMA LeftJoined ==
    ASSUME NEW F, FreeMap(F), NEW b \in BlockSet, \A c \in F : Apart(b, c),
           NEW wide, wide = JoinLeft(F, b),
           NEW rest, rest = F \ TouchingLeft(F, b)
    PROVE  /\ FreeMap(rest) /\ wide \in BlockSet
           /\ \A c \in rest : Apart(wide, c) /\ End(c) # wide.offset
           /\ \A x \in Nat : Within(x, wide) \/ Covered(x, rest)
                                <=> Within(x, b) \/ Covered(x, F)
<1>1. FreeMap(rest)
  BY DEF FreeMap, Disjoint, Joined
<1>2. CASE TouchingLeft(F, b) = {}
  <2>1. wide = b /\ rest = F
    BY <1>2 DEF JoinLeft
  <2>2. \A c \in F : End(c) # b.offset
    BY <1>2, LeftFound
  <2> QED
    BY <1>1, <2>1, <2>2
<1>3. CASE TouchingLeft(F, b) # {}
  <2> DEFINE p == CHOOSE p \in TouchingLeft(F, b) : TRUE
  <2>1. p \in TouchingLeft(F, b)
    BY <1>3
  <2>2. p \in F /\ End(p) = b.offset /\ p \in BlockSet
    BY <2>1, LeftFound DEF FreeMap
  <2>3. TouchingLeft(F, b) = {p}
    BY <2>1, LeftFound
  <2>4. wide = Block(p.offset, b.size + p.size)
    BY <1>3 DEF JoinLeft
  <2> HIDE DEF p
  <2>5. /\ wide \in BlockSet /\ wide.offset = p.offset
        /\ End(wide) = End(b)
    BY <2>2, <2>4 DEF Block, BlockSet, End
  <2>6. ASSUME NEW c \in rest
        PROVE  Apart(wide, c) /\ End(c) # wide.offset
    <3>1. c \in F /\ c \in BlockSet /\ c # p
      BY <2>3 DEF FreeMap
    <3>2. Apart(b, c) /\ Apart(p, c) /\ End(c) # p.offset
      BY <2>2, <3>1 DEF FreeMap, Disjoint, Joined
    <3> QED
      BY <2>2, <2>5, <3>1, <3>2 DEF Apart, End, BlockSet
  <2>7. ASSUME NEW x \in Nat
        PROVE  Within(x, wide) <=> Within(x, b) \/ Within(x, p)
    BY <2>2, <2>5 DEF Within, End, BlockSet
  <2>8. ASSUME NEW x \in Nat
        PROVE  Covered(x, F) <=> Covered(x, rest) \/ Within(x, p)
    BY <2>2, <2>3 DEF Covered
  <2> QED
    BY <1>1, <2>5, <2>6, <2>7, <2>8
<1> QED
  BY <1>2, <1>3

(* Joining a block that nothing touches from the left with its right        *)
(* neighbour.                                                               *)
LEMMA RightJoined ==
    ASSUME NEW F, FreeMap(F), NEW b \in BlockSet,
           \A c \in F : Apart(b, c) /\ End(c) # b.offset,
           NEW wide, wide = JoinRight(F, b),
           NEW rest, rest = F \ TouchingRight(F, b)
    PROVE  /\ FreeMap(rest) /\ wide \in BlockSet
           /\ \A c \in rest : /\ Apart(wide, c) /\ End(c) # wide.offset
                              /\ End(wide) # c.offset
           /\ \A x \in Nat : Within(x, wide) \/ Covered(x, rest)
                                <=> Within(x, b) \/ Covered(x, F)
<1>1. FreeMap(rest)
  BY DEF FreeMap, Disjoint, Joined
<1>2. CASE TouchingRight(F, b) = {}
  <2>1. wide = b /\ rest = F
    BY <1>2 DEF JoinRight
  <2>2. \A c \in F : End(b) # c.offset
    BY <1>2, RightFound
  <2> QED
    BY <1>1, <2>1, <2>2
<1>3. CASE TouchingRight(F, b) # {}
  <2> DEFINE n == CHOOSE n \in TouchingRight(F, b) : TRUE
  <2>1. n \in TouchingRight(F, b)
    BY <1>3
  <2>2. n \in F /\ End(b) = n.offset /\ n \in BlockSet
    BY <2>1, RightFound DEF FreeMap
  <2>3. TouchingRight(F, b) = {n}
    BY <2>1, RightFound
  <2>4. wide = Block(b.offset, b.size + n.size)
    BY <1>3 DEF JoinRight
  <2> HIDE DEF n
  <2>5. /\ wide \in BlockSet /\ wide.offset = b.offset
        /\ End(wide) = End(n)
    BY <2>2, <2>4 DEF Block, BlockSet, End
  <2>6. ASSUME NEW c \in rest
        PROVE  /\ Apart(wide, c) /\ End(c) # wide.offset
               /\ End(wide) # c.offset
    <3>1. c \in F /\ c \in BlockSet /\ c # n
      BY <2>3 DEF FreeMap
    <3>2. Apart(b, c) /\ Apart(n, c) /\ End(n) # c.offset /\ End(c) # b.offset
      BY <2>2, <3>1 DEF FreeMap, Disjoint, Joined
    <3> QED
      BY <2>2, <2>5, <3>1, <3>2 DEF Apart, End, BlockSet
  <2>7. ASSUME NEW x \in Nat
        PROVE  Within(x, wide) <=> Within(x, b) \/ Within(x, n)
    BY <2>2, <2>5 DEF Within, End, BlockSet
  <2>8. ASSUME NEW x \in Nat
        PROVE  Covered(x, F) <=> Covered(x, rest) \/ Within(x, n)
    BY <2>2, <2>3 DEF Covered
  <2> QED
    BY <1>1, <2>5, <2>6, <2>7, <2>8
<1> QED
  BY <1>2, <1>3

(* insert_free adds exactly the bytes of b to the map, and joins it with    *)
(* whatever it touches.                                                     *)
LEMMA InsertFree ==
    ASSUME NEW F, FreeMap(F), NEW b \in BlockSet, \A c \in F : Apart(b, c),
           NEW G, G = insert_free(F, b)
    PROVE  /\ FreeMap(G)
           /\ \A x \in Nat : Covered(x, G) <=> Within(x, b) \/ Covered(x, F)
<1> DEFINE wide  == JoinLeft(F, b)
           rest  == F \ TouchingLeft(F, b)
           all   == JoinRight(rest, wide)
           other == rest \ TouchingRight(rest, wide)
<1>1. b.size # 0
  BY DEF BlockSet
<1>2. G = Put(other, all)
  BY <1>1 DEF insert_free
<1>3. /\ FreeMap(rest) /\ wide \in BlockSet
      /\ \A c \in rest : Apart(wide, c) /\ End(c) # wide.offset
      /\ \A x \in Nat : Within(x, wide) \/ Covered(x, rest)
                           <=> Within(x, b) \/ Covered(x, F)
  BY LeftJoined
<1> HIDE DEF wide, rest
<1>4. /\ FreeMap(other) /\ all \in BlockSet
      /\ \A c \in other : /\ Apart(all, c) /\ End(c) # all.offset
                          /\ End(all) # c.offset
      /\ \A x \in Nat : Within(x, all) \/ Covered(x, other)
                           <=> Within(x, wide) \/ Covered(x, rest)
  BY <1>3, RightJoined
<1> HIDE DEF all, other
<1>5. \A c \in other : c.offset # all.offset
  BY <1>4 DEF FreeMap, Apart, End, BlockSet
<1>6. G = other \cup {all}
  BY <1>2, <1>5 DEF Put
<1>7. FreeMap(G)
  <2>1. G \subseteq BlockSet
    BY <1>4, <1>6 DEF FreeMap
  <2>2. Disjoint(G)
    BY <1>4, <1>6 DEF FreeMap, Disjoint, Apart
  <2>3. End(all) # all.offset
    BY <1>4 DEF End, BlockSet
  <2>4. Joined(G)
    BY <1>4, <1>6, <2>3 DEF FreeMap, Joined
  <2> QED
    BY <2>1, <2>2, <2>4 DEF FreeMap
<1>8. \A x \in Nat : Covered(x, G) <=> Within(x, all) \/ Covered(x, other)
  BY <1>6 DEF Covered
<1> QED
  BY <1>3, <1>4, <1>7, <1>8

-----------------------------------------------------------------------------
(* Alignment                                                                *)

(* align_up yields the first aligned offset that is not below its argument. *)
LEMMA AlignUp ==
    ASSUME NEW o \in Nat
    PROVE  /\ align_up(o) \in Nat /\ o <= align_up(o)
           /\ \A s \in Nat : s % Align = 0 /\ o <= s => align_up(o) <= s
<1> DEFINE q == (o + Align - 1) \div Align
<1>0. Align \in Nat /\ Align > 0
  BY ArenaAssumption
<1>1. q \in Nat /\ q * Align <= o + Align - 1 /\ o + Align - 1 < q * Align + Align
  BY <1>0
<1>2. align_up(o) = q * Align
  BY DEF align_up
<1> HIDE DEF q
<1>3. q * Align \in Nat
  BY <1>0, <1>1
<1>4. ASSUME NEW s \in Nat, s % Align = 0, o <= s
      PROVE  q * Align <= s
  <2>1. PICK k \in Nat : s = k * Align
    BY <1>0, <1>4
  <2>2. SUFFICES ASSUME k < q PROVE FALSE
    BY <1>0, <1>1, <2>1
  <2>3. k + 1 <= q
    BY <1>1, <2>2
  <2>4. (k + 1) * Align <= q * Align
    BY <1>0, <1>1, <2>3
  <2>5. s + Align <= q * Align
    BY <1>0, <2>1, <2>4
  <2> QED
    BY <1>0, <1>1, <1>3, <1>4, <2>5
<1> QED
  BY <1>0, <1>1, <1>2, <1>3, <1>4

-----------------------------------------------------------------------------
(* Cutting and joining                                                      *)

(* insert_free of a block that may have no bytes.                           *)
LEMMA InsertAny ==
    ASSUME NEW F, FreeMap(F), NEW o \in Nat, NEW n \in Nat,
           \A x \in Nat : Within(x, Block(o, n)) => ~Covered(x, F),
           NEW G, G = insert_free(F, Block(o, n))
    PROVE  /\ FreeMap(G)
           /\ \A x \in Nat : Covered(x, G)
                                <=> Within(x, Block(o, n)) \/ Covered(x, F)
<1>1. CASE n = 0
  <2>1. G = F
    BY <1>1 DEF insert_free, Block
  <2>2. \A x \in Nat : ~Within(x, Block(o, n))
    BY <1>1 DEF Within, End, Block
  <2> QED
    BY <2>1, <2>2
<1>2. CASE n # 0
  <2>1. Block(o, n) \in BlockSet
    BY <1>2 DEF Block, BlockSet
  <2>2. ASSUME NEW c \in F PROVE Apart(Block(o, n), c)
    <3>1. c \in BlockSet
      BY DEF FreeMap
    <3>2. \A x \in Nat : ~(Within(x, Block(o, n)) /\ Within(x, c))
      BY DEF Covered
    <3> QED
      BY <2>1, <3>1, <3>2, ApartByBytes DEF BlockSet
  <2> QED
    BY <2>1, <2>2, InsertFree
<1> QED
  BY <1>1, <1>2

(* Taking one block out of a free map.                                      *)
LEMMA Without ==
    ASSUME FreeMap(free), NEW b \in free
    PROVE  /\ FreeMap(free \ {b}) /\ b \in BlockSet
           /\ \A x \in Nat : Covered(x, free \ {b})
                                <=> Covered(x, free) /\ ~Within(x, b)
<1>1. FreeMap(free \ {b}) /\ b \in BlockSet
  BY DEF FreeMap, Disjoint, Joined
<1>2. ASSUME NEW x \in Nat, Within(x, b), NEW c \in free \ {b}
      PROVE  ~Within(x, c)
  <2>1. c \in BlockSet /\ Apart(b, c)
    BY DEF FreeMap, Disjoint
  <2> QED
    BY <1>1, <1>2, <2>1, BytesOfApart DEF BlockSet
<1> QED
  BY <1>1, <1>2 DEF Covered

(* Cut gives back exactly the bytes of the block outside [from, to).        *)
LEMMA CutOut ==
    ASSUME FreeMap(free), NEW b \in free, NEW from \in Nat, NEW to \in Nat,
           b.offset <= from, from < to, to <= End(b),
           NEW G, G = Cut(b, from, to)
    PROVE  /\ FreeMap(G)
           /\ \A x \in Nat : Covered(x, G)
                                <=> Covered(x, free) /\ ~(from <= x /\ x < to)
<1> DEFINE rest == free \ {b}
           head == Block(b.offset, from - b.offset)
           tail == Block(to, End(b) - to)
           F1   == insert_free(rest, head)
<1>1. /\ FreeMap(rest) /\ b \in BlockSet
      /\ \A x \in Nat : Covered(x, rest) <=> Covered(x, free) /\ ~Within(x, b)
  BY Without
<1>2. /\ b.offset \in Nat /\ from - b.offset \in Nat /\ End(b) - to \in Nat
      /\ \A x \in Nat : Within(x, head) <=> Within(x, b) /\ x < from
      /\ \A x \in Nat : Within(x, tail) <=> Within(x, b) /\ x >= to
  BY <1>1 DEF Within, End, Block, BlockSet
<1>3. \A x \in Nat : Within(x, b) => Covered(x, free)
  BY DEF Covered
<1>4. G = insert_free(F1, tail)
  BY DEF Cut
<1> HIDE DEF rest
<1>5. \A x \in Nat : Within(x, head) => ~Covered(x, rest)
  BY <1>1, <1>2
<1>6. /\ FreeMap(F1)
      /\ \A x \in Nat : Covered(x, F1) <=> Within(x, head) \/ Covered(x, rest)
  BY <1>1, <1>2, <1>5, InsertAny
<1> HIDE DEF F1
<1>7. \A x \in Nat : Within(x, tail) => ~Covered(x, F1)
  BY <1>1, <1>2, <1>6
<1>8. /\ FreeMap(G)
      /\ \A x \in Nat : Covered(x, G) <=> Within(x, tail) \/ Covered(x, F1)
  BY <1>2, <1>4, <1>6, <1>7, InsertAny
<1>9. \A x \in Nat : Within(x, b) => b.offset <= x /\ x < End(b)
  BY DEF Within
<1>10. ASSUME NEW x \in Nat
       PROVE  Covered(x, G) <=> Covered(x, free) /\ ~(from <= x /\ x < to)
  <2>1. from <= x /\ x < to => Within(x, b)
    BY <1>1 DEF Within, End, BlockSet
  <2>2. Covered(x, G) <=> \/ Within(x, b) /\ x >= to
                          \/ Within(x, b) /\ x < from
                          \/ Covered(x, free) /\ ~Within(x, b)
    BY <1>1, <1>2, <1>6, <1>8
  <2> QED
    BY <1>3, <2>1, <2>2
<1> QED
  BY <1>8, <1>10

-----------------------------------------------------------------------------
(* The inductive invariant                                                  *)

(* Free and live blocks share no byte and together hold those below         *)
(* Capacity and no others.                                                  *)
Layout(F, A) ==
    /\ FreeMap(F)
    /\ A \subseteq SliceSet /\ Disjoint(A)
    /\ \A x \in Nat : ~(Covered(x, F) /\ Covered(x, A))
    /\ \A x \in Nat : Covered(x, F) \/ Covered(x, A) <=> x < Capacity

(* Cookies are never used twice, so that a slice's cookie names it.         *)
CookiesFresh ==
    /\ alloc_map \subseteq given /\ given \subseteq SliceSet
    /\ \A s \in given : s.cookie < next_cookie
    /\ \A s, t \in given : s.cookie = t.cookie => s = t

ArenaInv ==
    /\ Layout(free, alloc_map)
    /\ CookiesFresh
    /\ HeldAreLive
    /\ used \in Nat /\ next_cookie \in Nat \ {0}

(* The arena starts, and starts again, with all its bytes free.             *)
LEMMA WholeLayout == Layout(WholeArena, {})
<1>1. CASE Capacity = 0
  BY <1>1 DEF WholeArena, Layout, FreeMap, Disjoint, Joined, Covered
<1>2. CASE Capacity # 0
  <2>1. WholeArena = {Block(0, Capacity)} /\ Capacity \in Nat \ {0}
    BY <1>2, ArenaAssumption DEF WholeArena
  <2>2. /\ Block(0, Capacity) \in BlockSet
        /\ End(Block(0, Capacity)) # Block(0, Capacity).offset
        /\ \A x \in Nat : Within(x, Block(0, Capacity)) <=> x < Capacity
    BY <2>1 DEF Block, BlockSet, End, Within
  <2>3. FreeMap(WholeArena)
    BY <2>1, <2>2 DEF FreeMap, Disjoint, Joined
  <2>4. \A x \in Nat : Covered(x, WholeArena) <=> x < Capacity
    BY <2>1, <2>2 DEF Covered
  <2>5. \A x \in Nat : ~Covered(x, {})
    BY DEF Covered
  <2> QED
    BY <2>3, <2>4, <2>5 DEF Layout, Disjoint
<1> QED
  BY <1>1, <1>2

-----------------------------------------------------------------------------
(* Every operation keeps the invariant                                      *)

(* allocate moves exactly the bytes of the new slice from free to live.     *)
LEMMA ArenaAllocateKeeps ==
    ASSUME ArenaInv, NEW size \in Sizes, allocate(size)
    PROVE  ArenaInv'
<1> DEFINE b     == FirstFit(size)
           start == align_up(b.offset)
           slice == Slice(start, size, next_cookie)
<1>1. size \in Nat \ {0}
  BY ArenaAssumption DEF allocate
<1>2. b \in Fits(size)
  <2> DEFINE S == {c.offset : c \in Fits(size)}
  <2>1. S \subseteq Nat /\ S # {}
    BY DEF Fits, ArenaInv, Layout, FreeMap, BlockSet, allocate
  <2>2. \E m \in S : \A n \in S : m <= n
    BY <2>1, LeastElement
  <2>3. \E c \in Fits(size) : \A d \in Fits(size) : c.offset <= d.offset
    BY <2>2
  <2> QED
    BY <2>3 DEF FirstFit
<1>3. /\ free' = Cut(b, start, start + size)
      /\ alloc_map' = alloc_map \cup {slice}
      /\ given' = given \cup {slice} /\ held' = held \cup {slice}
      /\ used' = used + size /\ next_cookie' = next_cookie + 1
  BY DEF allocate
<1>4. /\ b \in free /\ b \in BlockSet /\ FreeMap(free)
      /\ start + size <= End(b)
  BY <1>2 DEF Fits, ArenaInv, Layout, FreeMap
<1> HIDE DEF b
<1>5. start \in Nat /\ b.offset <= start
  BY <1>4, AlignUp DEF BlockSet
<1> HIDE DEF start
<1>6. /\ slice \in SliceSet /\ slice.cookie = next_cookie
      /\ \A x \in Nat : Within(x, slice) <=> start <= x /\ x < start + size
  BY <1>1, <1>5 DEF Slice, SliceSet, ArenaInv, Within, End
<1> HIDE DEF slice
<1>7. start + size \in Nat /\ start < start + size
  BY <1>1, <1>5
<1>8. /\ FreeMap(free')
      /\ \A x \in Nat : Covered(x, free')
             <=> Covered(x, free) /\ ~Within(x, slice)
  BY <1>3, <1>4, <1>5, <1>6, <1>7, CutOut
<1>9. \A x \in Nat : Within(x, slice) => Covered(x, free)
  BY <1>4, <1>5, <1>6, <1>7 DEF Covered, Within, End, BlockSet
<1>10. \A x \in Nat : Covered(x, alloc_map')
                        <=> Covered(x, alloc_map) \/ Within(x, slice)
  BY <1>3 DEF Covered
<1>11. ASSUME NEW a \in alloc_map PROVE Apart(slice, a) /\ Apart(a, slice)
  <2>1. a \in SliceSet
    BY DEF ArenaInv, Layout
  <2>2. \A x \in Nat : ~(Within(x, slice) /\ Within(x, a))
    BY <1>9 DEF ArenaInv, Layout, Covered
  <2>3. Apart(slice, a)
    BY <1>6, <2>1, <2>2, ApartByBytes DEF SliceSet
  <2> QED
    BY <2>3 DEF Apart
<1>12. Layout(free', alloc_map')
  <2>1. Disjoint(alloc_map') /\ alloc_map' \subseteq SliceSet
    BY <1>3, <1>6, <1>11 DEF ArenaInv, Layout, Disjoint
  <2> QED
    BY <1>8, <1>9, <1>10, <2>1 DEF ArenaInv, Layout
<1>13. CookiesFresh'
  <2>1. \A s \in given : s.cookie < next_cookie /\ s.cookie \in Nat
    BY DEF ArenaInv, CookiesFresh, SliceSet
  <2>2. next_cookie \in Nat
    BY DEF ArenaInv
  <2>3. \A s \in given' : s.cookie < next_cookie'
    BY <1>3, <1>6, <2>1, <2>2
  <2>4. \A s, t \in given' : s.cookie = t.cookie => s = t
    BY <1>3, <1>6, <2>1, <2>2 DEF ArenaInv, CookiesFresh
  <2> QED
    BY <1>3, <1>6, <2>3, <2>4 DEF ArenaInv, CookiesFresh
<1>14. HeldAreLive'
  BY <1>3 DEF ArenaInv, HeldAreLive
<1>15. used' \in Nat /\ next_cookie' \in Nat \ {0}
  BY <1>1, <1>3 DEF ArenaInv
<1> QED
  BY <1>12, <1>13, <1>14, <1>15 DEF ArenaInv

(* free moves exactly the bytes of the slice back.                          *)
LEMMA FreeKeeps ==
    ASSUME ArenaInv, NEW slice \in given, Free(slice)
    PROVE  ArenaInv'
<1>1. PICK a \in Named(slice) :
        /\ alloc_map' = alloc_map \ {a}
        /\ used' = IF used > a.size THEN used - a.size ELSE 0
        /\ free' = insert_free(free, Block(a.offset, a.size))
  BY DEF Free
<1>2. /\ held' = held \ {slice}
      /\ next_cookie' = next_cookie /\ given' = given
  BY DEF Free
<1>3. a \in alloc_map /\ a \in SliceSet /\ a = slice
  BY DEF Named, ArenaInv, Layout, CookiesFresh
<1>4. a.offset \in Nat /\ a.size \in Nat
  BY <1>3 DEF SliceSet
<1>5. \A x \in Nat : Within(x, Block(a.offset, a.size)) <=> Within(x, a)
  BY <1>4 DEF Within, End, Block
<1>6. \A x \in Nat : Within(x, a) => Covered(x, alloc_map)
  BY <1>3 DEF Covered
<1>7. FreeMap(free)
  BY DEF ArenaInv, Layout
<1>8. \A x \in Nat : Within(x, Block(a.offset, a.size)) => ~Covered(x, free)
  BY <1>5, <1>6 DEF ArenaInv, Layout
<1>9. /\ FreeMap(free')
      /\ \A x \in Nat : Covered(x, free') <=> Within(x, a) \/ Covered(x, free)
  BY <1>1, <1>4, <1>5, <1>7, <1>8, InsertAny
<1>10. \A x \in Nat : Covered(x, alloc_map')
                        <=> Covered(x, alloc_map) /\ ~Within(x, a)
  <2>1. ASSUME NEW x \in Nat, Within(x, a), NEW c \in alloc_map \ {a}
        PROVE  ~Within(x, c)
    <3>1. c \in SliceSet /\ Apart(a, c)
      BY <1>3 DEF ArenaInv, Layout, Disjoint
    <3> QED
      BY <1>3, <2>1, <3>1, BytesOfApart DEF SliceSet
  <2> QED
    BY <1>1, <2>1 DEF Covered
<1>11. Layout(free', alloc_map')
  <2>1. Disjoint(alloc_map') /\ alloc_map' \subseteq SliceSet
    BY <1>1 DEF ArenaInv, Layout, Disjoint
  <2> QED
    BY <1>6, <1>9, <1>10, <2>1 DEF ArenaInv, Layout
<1>12. CookiesFresh'
  BY <1>1, <1>2 DEF ArenaInv, CookiesFresh
<1>13. HeldAreLive'
  BY <1>1, <1>2, <1>3 DEF ArenaInv, HeldAreLive
<1>14. used' \in Nat /\ next_cookie' \in Nat \ {0}
  BY <1>1, <1>2, <1>4 DEF ArenaInv
<1> QED
  BY <1>11, <1>12, <1>13, <1>14 DEF ArenaInv

(* A slice that is not live is not held, so freeing it changes nothing.     *)
LEMMA FreeStaleKeeps ==
    ASSUME ArenaInv, NEW slice \in given, FreeStale(slice)
    PROVE  ArenaInv'
<1>1. slice \notin alloc_map
  BY DEF FreeStale, Named
<1>2. held' = held
  BY <1>1 DEF FreeStale, ArenaInv, HeldAreLive
<1> QED
  BY <1>2 DEF FreeStale, ArenaInv, HeldAreLive, CookiesFresh

(* reset frees everything and keeps the cookies of stale slices unused.     *)
LEMMA ResetKeeps ==
    ASSUME ArenaInv, reset
    PROVE  ArenaInv'
BY WholeLayout DEF reset, CookieAfterReset, ArenaInv, HeldAreLive, CookiesFresh

-----------------------------------------------------------------------------
(* Theorems                                                                 *)

(* The invariant says what the properties say.                              *)
LEMMA InvTiled ==
    ASSUME ArenaInv
    PROVE  TypeOK /\ Tiled
<1>1. TypeOK
  BY DEF ArenaInv, Layout, FreeMap, CookiesFresh, HeldAreLive, TypeOK
<1>2. ASSUME NEW b \in free, NEW a \in alloc_map
      PROVE  Apart(b, a)
  <2>1. b \in BlockSet /\ a \in SliceSet
    BY <1>1 DEF TypeOK
  <2>2. \A x \in Nat : ~(Within(x, b) /\ Within(x, a))
    BY DEF ArenaInv, Layout, Covered
  <2> QED
    BY <2>1, <2>2, ApartByBytes DEF BlockSet, SliceSet
<1>3. ASSUME NEW b \in free \cup alloc_map
      PROVE  End(b) <= Capacity
  <2>1. b.offset \in Nat /\ b.size \in Nat \ {0}
    BY <1>1 DEF TypeOK, BlockSet, SliceSet
  <2>2. End(b) \in Nat /\ End(b) - 1 \in Nat /\ Within(End(b) - 1, b)
    BY <2>1 DEF End, Within
  <2>3. Covered(End(b) - 1, free) \/ Covered(End(b) - 1, alloc_map)
    BY <2>2 DEF Covered
  <2>4. End(b) - 1 < Capacity
    BY <2>2, <2>3 DEF ArenaInv, Layout
  <2> QED
    BY <2>2, <2>4, ArenaAssumption
<1>4. ASSUME NEW x \in 0 .. Capacity - 1
      PROVE  \E b \in free \cup alloc_map : Within(x, b)
  <2>1. x \in Nat /\ x < Capacity
    BY ArenaAssumption
  <2> QED
    BY <2>1 DEF ArenaInv, Layout, Covered
<1> QED
  BY <1>1, <1>2, <1>3, <1>4 DEF Tiled, ArenaInv, Layout, FreeMap

(* A block that holds the first byte of a run of free bytes holds all of    *)
(* it: the free map has no seams.                                           *)
LEMMA InvFindsSpace ==
    ASSUME ArenaInv
    PROVE  FindsSpace
<1> SUFFICES ASSUME NEW size \in Sizes \ {0}, NEW start \in 0 .. Capacity - size,
                    start % Align = 0,
                    \A x \in start .. start + size - 1 : Covered(x, free)
             PROVE  Fits(size) # {}
  BY DEF FindsSpace, Covered
<1>1. size \in Nat \ {0} /\ start \in Nat
  BY ArenaAssumption
<1>2. PICK b \in free : Within(start, b)
  <2>1. start \in start .. start + size - 1
    BY <1>1
  <2> QED
    BY <2>1 DEF Covered
<1>3. b \in BlockSet
  BY DEF ArenaInv, Layout, FreeMap
<1>4. start + size <= End(b)
  <2>1. SUFFICES ASSUME End(b) < start + size PROVE FALSE
    BY <1>1, <1>3 DEF End, BlockSet
  <2>2. End(b) \in start .. start + size - 1
    BY <1>1, <1>2, <1>3, <2>1 DEF End, BlockSet, Within
  <2>3. PICK c \in free : Within(End(b), c)
    BY <2>2 DEF Covered
  <2>4. c \in BlockSet /\ c # b
    <3>1. c \in BlockSet
      BY DEF ArenaInv, Layout, FreeMap
    <3>2. ~Within(End(b), b)
      BY <1>3 DEF Within, End, BlockSet
    <3> QED
      BY <2>3, <3>1, <3>2
  <2>5. Apart(b, c) /\ End(b) # c.offset
    BY <2>4 DEF ArenaInv, Layout, FreeMap, Disjoint, Joined
  <2> QED
    BY <1>3, <2>3, <2>4, <2>5 DEF Apart, Within, End, BlockSet
<1>5. align_up(b.offset) \in Nat /\ align_up(b.offset) <= start
  <2>1. b.offset \in Nat /\ b.offset <= start
    BY <1>2, <1>3 DEF Within, BlockSet
  <2> QED
    BY <1>1, <2>1, AlignUp
<1>6. align_up(b.offset) + size <= End(b)
  BY <1>1, <1>3, <1>4, <1>5 DEF End, BlockSet
<1> QED
  BY <1>6 DEF Fits

(* The invariant is inductive: every operation of the arena keeps it.       *)
THEOREM ArenaInvAlways == Spec => []ArenaInv
<1>1. Init => ArenaInv
  BY WholeLayout DEF Init, ArenaInv, CookiesFresh, HeldAreLive
<1>2. ArenaInv /\ [Next]_vars => ArenaInv'
  <2> SUFFICES ASSUME ArenaInv, [Next]_vars PROVE ArenaInv'
    OBVIOUS
  <2>1. CASE \E size \in Sizes : allocate(size)
    BY <2>1, ArenaAllocateKeeps
  <2>2. CASE \E slice \in given : Free(slice)
    BY <2>2, FreeKeeps
  <2>3. CASE \E slice \in given : FreeStale(slice)
    BY <2>3, FreeStaleKeeps
  <2>4. CASE reset
    BY <2>4, ResetKeeps
  <2>5. CASE UNCHANGED vars
    BY <2>5 DEF vars, ArenaInv, Layout, CookiesFresh, HeldAreLive
  <2> QED
    BY <2>1, <2>2, <2>3, <2>4, <2>5 DEF Next
<1> QED
  BY <1>1, <1>2, PTL DEF Spec

(* Type correctness of the arena.                                           *)
THEOREM ArenaTypeCorrect == Spec => []TypeOK
<1>1. ArenaInv => TypeOK
  BY InvTiled
<1> QED
  BY <1>1, ArenaInvAlways, PTL

(* Every byte of the device allocation is in exactly one block, after any   *)
(* sequence of allocate, free and reset.                                    *)
THEOREM TiledAlways == Spec => []Tiled
<1>1. ArenaInv => Tiled
  BY InvTiled
<1> QED
  BY <1>1, ArenaInvAlways, PTL

(* allocate refuses a request only if no aligned run of free bytes is long  *)
(* enough for it.                                                           *)
THEOREM FindsSpaceAlways == Spec => []FindsSpace
<1>1. ArenaInv => FindsSpace
  BY InvFindsSpace
<1> QED
  BY <1>1, ArenaInvAlways, PTL

(* What callers hold is what the arena holds for them: double frees and     *)
(* frees from before a reset are harmless.                                  *)
THEOREM HeldAlwaysLive == Spec => []HeldAreLive
<1>1. ArenaInv => HeldAreLive
  BY DEF ArenaInv
<1> QED
  BY <1>1, ArenaInvAlways, PTL

-----------------------------------------------------------------------------
(* Transactional transitions                                                *)

InGraph(t) == \E i \in DOMAIN graph.tiers : graph.tiers[i] = t

Declared(from, to) == \E i \in DOMAIN graph.transitions : graph.transitions[i] = <<from, to>>

GraphOk ==
    /\ graph = [tiers |-> graph.tiers, transitions |-> graph.transitions]
    /\ graph.tiers \in Seq(Tiers) /\ graph.transitions \in Seq(Tiers \X Tiers)
    /\ \A i \in DOMAIN graph.transitions :
          InGraph(graph.transitions[i][1]) /\ InGraph(graph.transitions[i][2])

Failures == {"PrepareFailed", "ValidationFailed", "CommitFailed"}

(* Where the representation is in each phase of a transaction.              *)
PhaseOk ==
    /\ tx.phase = "idle" => holder.scratch = NoTier /\ tx.outcome = "none"
    /\ tx.phase \in {"prepare", "validate", "commit"} =>
          holder.current = tx.before /\ InGraph(tx.before) /\ tx.outcome = "none"
    /\ tx.phase = "prepare" => holder.scratch = NoTier
    /\ tx.phase \in {"validate", "commit"} => holder.scratch = tx.target
    /\ tx.phase \in {"commit", "release"} => Declared(tx.before, tx.target)
    /\ tx.phase = "release" =>
          /\ holder.current = tx.target /\ holder.scratch = NoTier
          /\ tx.outcome = "none"
    /\ tx.phase = "rollback" => InGraph(tx.before) /\ tx.outcome \in Failures
    /\ tx.phase = "done" /\ tx.outcome # "RollbackFailed" =>
          /\ holder.scratch = NoTier /\ InGraph(holder.current)
          /\ tx.outcome \in Failures => holder.current = tx.before
          /\ tx.outcome = "Committed" =>
                holder.current = tx.target /\ Declared(tx.before, tx.target)

(* The inductive invariant behind WholeOrReported.                          *)
TransitionInv ==
    /\ GraphOk
    /\ holder = [current |-> holder.current, scratch |-> holder.scratch]
    /\ tx = [phase |-> tx.phase, target |-> tx.target, before |-> tx.before,
             outcome |-> tx.outcome]
    /\ tx.phase \in {"idle", "prepare", "validate", "commit", "release", "rollback", "done"}
    /\ tx.phase = "idle" => holder.current = NoTier \/ InGraph(holder.current)
    /\ PhaseOk

(* A descriptor that the machine accepts is one of its tiers: find returns  *)
(* the first of that name, and the ranks agree.                             *)
LEMMA AcceptedIsTier ==
    ASSUME NEW tiers \in Seq(Tiers), NEW t \in Tiers, validate_descriptor(tiers, t)
    PROVE  \E i \in DOMAIN tiers : tiers[i] = t
<1> DEFINE Listing == {i \in DOMAIN tiers : tiers[i].name = t.name}
           First(i) == tiers[i].name = t.name /\ \A j \in 1 .. i - 1 : tiers[j].name # t.name
<1>1. Listing # {} /\ Listing \subseteq Nat
  BY DEF validate_descriptor, find
<1>2. PICK m \in Listing : \A n \in Listing : m <= n
  BY <1>1, LeastElement
<1>3. First(m)
  <2>1. \A j \in 1 .. m - 1 : j \in DOMAIN tiers /\ j \notin Listing
    BY <1>2
  <2> QED BY <1>2, <2>1
<1>4. find(tiers, t.name) = tiers[CHOOSE i \in DOMAIN tiers : First(i)]
  BY <1>1 DEF find
<1>5. PICK i \in DOMAIN tiers : find(tiers, t.name) = tiers[i] /\ tiers[i].name = t.name
  BY <1>2, <1>3, <1>4
<1>6. tiers[i] \in Tiers /\ tiers[i].rank = t.rank
  BY <1>5 DEF validate_descriptor
<1> QED BY <1>5, <1>6 DEF Tiers

-----------------------------------------------------------------------------
(* The graph that try_new accepts.                                          *)
LEMMA TryNewKeeps ==
    ASSUME TransitionInv, NEW tiers \in Seq(Tiers), NEW edges \in Seq(Tiers \X Tiers),
           try_new(tiers, edges)
    PROVE  TransitionInv'
<1>1. graph' = [tiers |-> tiers, transitions |-> edges] /\ UNCHANGED <<holder, tx>>
  BY DEF try_new
<1>2. \A i \in DOMAIN edges : edges[i][1] \in Tiers /\ edges[i][2] \in Tiers
  OBVIOUS
<1>3. \A i \in DOMAIN edges :
         /\ \E j \in DOMAIN tiers : tiers[j] = edges[i][1]
         /\ \E j \in DOMAIN tiers : tiers[j] = edges[i][2]
  BY <1>2, AcceptedIsTier DEF try_new
<1>4. GraphOk'
  BY <1>1, <1>3 DEF GraphOk, InGraph
<1>5. /\ \A t : ~InGraph(t)
      /\ \A s, t : ~Declared(s, t)
  BY DEF try_new, NoGraph, InGraph, Declared
<1>6. PhaseOk'
  BY <1>1, <1>5 DEF TransitionInv, PhaseOk, InGraph, Declared
<1> QED BY <1>1, <1>4, <1>5, <1>6 DEF TransitionInv

(* A chain of tiers found by name is a list of edges.                       *)
LEMMA FromListsKeeps ==
    ASSUME TransitionInv, NEW tiers \in Seq(Tiers), NEW names \in NameLists,
           machine_from_lists(tiers, names)
    PROVE  TransitionInv'
<1> DEFINE edges == [i \in DOMAIN names |-> <<find(tiers, names[i][1]), find(tiers, names[i][2])>>]
<1>1. names \in Seq(STRING \X STRING)
  BY TransitionAssumption
<1>2. \A i \in DOMAIN names, k \in 1 .. 2 : find(tiers, names[i][k]) \in Tiers
  <2> TAKE i \in DOMAIN names, k \in 1 .. 2
  <2> DEFINE name == names[i][k]
             Listing == {j \in DOMAIN tiers : tiers[j].name = name}
             First(j) == tiers[j].name = name /\ \A h \in 1 .. j - 1 : tiers[h].name # name
  <2>1. find(tiers, name) # NoTier
    BY DEF machine_from_lists
  <2>2. Listing # {} /\ Listing \subseteq Nat
    BY <2>1 DEF find
  <2>3. PICK m \in Listing : \A n \in Listing : m <= n
    BY <2>2, LeastElement
  <2>4. \A j \in 1 .. m - 1 : j \in DOMAIN tiers /\ j \notin Listing
    BY <2>3
  <2>5. First(m)
    BY <2>3, <2>4
  <2>6. find(tiers, name) = tiers[CHOOSE j \in DOMAIN tiers : First(j)]
    BY <2>2 DEF find
  <2>7. \E j \in DOMAIN tiers : find(tiers, name) = tiers[j]
    BY <2>3, <2>5, <2>6
  <2> QED BY <2>7
<1>3. edges \in Seq(Tiers \X Tiers)
  BY <1>1, <1>2
<1>4. try_new(tiers, edges)
  BY DEF machine_from_lists
<1> QED BY <1>3, <1>4, TryNewKeeps

(* Steps that leave the graph alone.                                        *)
LEMMA SameGraph ==
    ASSUME UNCHANGED graph, GraphOk
    PROVE  /\ GraphOk'
           /\ \A t : InGraph(t)' <=> InGraph(t)
           /\ \A s, t : Declared(s, t)' <=> Declared(s, t)
  BY DEF GraphOk, InGraph, Declared

LEMMA MovesKeep ==
    ASSUME TransitionInv, NEW t \in Descriptors, NewState(t) \/ try_move(t) \/ Begin(t)
    PROVE  TransitionInv'
<1>1. t \in Tiers /\ GraphOk /\ UNCHANGED graph
  BY TransitionAssumption DEF NewState, try_move, Begin, TransitionInv
<1>2. validate_descriptor(graph.tiers, t) => InGraph(t)
  BY <1>1, AcceptedIsTier DEF GraphOk, InGraph
<1>3. CASE NewState(t)
  <2>1. InGraph(t) /\ holder.current = NoTier /\ tx' = tx
    BY <1>2, <1>3 DEF NewState
  <2>2. holder' = [current |-> t, scratch |-> holder.scratch]
    BY <1>3 DEF NewState, TransitionInv
  <2>3. NoTier \notin Tiers /\ \A s : InGraph(s) => s \in Tiers
    <3>1. NoTier \notin Tiers
      BY DEF NoTier, Tiers
    <3> QED BY <1>1, <3>1 DEF GraphOk, InGraph
  <2>4. \A s, u : Declared(s, u) => u \in Tiers
    BY <1>1 DEF GraphOk, Declared
  <2> QED BY <1>1, <2>1, <2>2, <2>3, <2>4, SameGraph DEF TransitionInv, PhaseOk, InGraph, Declared
<1>4. CASE try_move(t)
  <2>1. InGraph(t)
    BY <1>2, <1>4 DEF try_move, transition
  <2>2. holder' = [current |-> t, scratch |-> NoTier] /\ tx' = NoTx
    BY <1>4 DEF try_move, Usable, TransitionInv, PhaseOk
  <2> QED BY <1>1, <2>1, <2>2, SameGraph DEF TransitionInv, PhaseOk, NoTx, InGraph
<1>5. CASE Begin(t)
  BY <1>1, <1>5, SameGraph DEF Begin, Usable, TransitionInv, PhaseOk, InGraph, Declared
<1> QED BY <1>3, <1>4, <1>5

LEMMA PhasesKeep ==
    ASSUME TransitionInv, NEW ok \in BOOLEAN,
           prepare(ok) \/ validate(ok) \/ commit(ok) \/ rollback_or(ok) \/ release
    PROVE  TransitionInv'
<1>1. GraphOk /\ UNCHANGED graph
  BY DEF prepare, validate, commit, rollback_or, release, TransitionInv
<1>2. /\ GraphOk'
      /\ \A t : InGraph(t)' <=> InGraph(t)
      /\ \A s, t : Declared(s, t)' <=> Declared(s, t)
  BY <1>1, SameGraph
<1>3. CASE prepare(ok)
  <2>1. /\ tx.phase = "prepare" /\ tx.outcome = "none"
        /\ holder.current = tx.before /\ InGraph(tx.before) /\ holder.scratch = NoTier
    BY <1>3 DEF prepare, TransitionInv, PhaseOk
  <2>2. /\ tx' = [phase |-> IF ok THEN "validate" ELSE "rollback", target |-> tx.target,
                  before |-> tx.before, outcome |-> IF ok THEN "none" ELSE "PrepareFailed"]
        /\ holder'.current = tx.before
        /\ holder' = [current |-> holder'.current, scratch |-> holder'.scratch]
        /\ ok => holder'.scratch = tx.target
    BY <1>3, <2>1 DEF prepare, Phase, AfterFailure, TransitionInv
  <2> QED BY <1>2, <2>1, <2>2 DEF TransitionInv, PhaseOk, Failures, InGraph
<1>4. CASE validate(ok)
  <2>1. /\ tx.phase = "validate" /\ tx.outcome = "none"
        /\ holder.current = tx.before /\ InGraph(tx.before) /\ holder.scratch = tx.target
    BY <1>4 DEF validate, TransitionInv, PhaseOk
  <2>2. /\ tx' = [phase |-> IF ok THEN "commit" ELSE "rollback", target |-> tx.target,
                  before |-> tx.before, outcome |-> IF ok THEN "none" ELSE "ValidationFailed"]
        /\ holder' = holder /\ holder = [current |-> holder.current, scratch |-> holder.scratch]
        /\ ok => Declared(tx.before, tx.target)
    BY <1>4, <2>1 DEF validate, Phase, AfterFailure, transition, Declared, TransitionInv
  <2> QED BY <1>2, <2>1, <2>2 DEF TransitionInv, PhaseOk, Failures, InGraph, Declared
<1>5. CASE commit(ok)
  <2>1. /\ tx.phase = "commit" /\ tx.outcome = "none"
        /\ holder.current = tx.before /\ InGraph(tx.before) /\ holder.scratch = tx.target
        /\ Declared(tx.before, tx.target)
    BY <1>5 DEF commit, TransitionInv, PhaseOk
  <2>2. /\ tx' = [phase |-> IF ok THEN "release" ELSE "rollback", target |-> tx.target,
                  before |-> tx.before, outcome |-> IF ok THEN "none" ELSE "CommitFailed"]
    BY <1>5, <2>1 DEF commit, Phase, AfterFailure, TransitionInv
  <2>3. /\ holder' = [current |-> holder'.current, scratch |-> holder'.scratch]
        /\ ok => holder'.current = tx.target /\ holder'.scratch = NoTier
    <3>1. CASE holder' = [current |-> holder.scratch, scratch |-> NoTier]
      BY <3>1, <2>1
    <3>2. CASE ~ok /\ holder' = holder
      BY <3>2 DEF TransitionInv
    <3> QED BY <1>5, <3>1, <3>2 DEF commit
  <2> QED BY <1>2, <2>1, <2>2, <2>3 DEF TransitionInv, PhaseOk, Failures, InGraph, Declared
<1>6. CASE rollback_or(ok)
  <2>1. tx.phase = "rollback" /\ InGraph(tx.before) /\ tx.outcome \in Failures
    BY <1>6 DEF rollback_or, TransitionInv, PhaseOk
  <2>2. /\ tx' = [phase |-> "done", target |-> tx.target, before |-> tx.before,
                  outcome |-> IF ok THEN tx.outcome ELSE "RollbackFailed"]
    BY <1>6 DEF rollback_or, TransitionInv
  <2>3. /\ holder' = [current |-> holder'.current, scratch |-> holder'.scratch]
        /\ ok => holder'.current = tx.before /\ holder'.scratch = NoTier
    <3>1. CASE ok
      BY <1>6, <3>1 DEF rollback_or
    <3>2. CASE ~ok
      BY <1>6, <3>2 DEF rollback_or, TransitionInv
    <3> QED BY <3>1, <3>2
  <2> QED BY <1>2, <2>1, <2>2, <2>3 DEF TransitionInv, PhaseOk, Failures, InGraph, Declared
<1>7. CASE release
  <2>1. /\ tx.phase = "release" /\ holder.current = tx.target /\ holder.scratch = NoTier
        /\ Declared(tx.before, tx.target)
    BY <1>7 DEF release, TransitionInv, PhaseOk
  <2>2. /\ tx' = [phase |-> "done", target |-> tx.target, before |-> tx.before,
                  outcome |-> "Committed"]
        /\ holder' = holder /\ holder = [current |-> holder.current, scratch |-> holder.scratch]
    BY <1>7 DEF release, TransitionInv
  <2>3. InGraph(tx.target)
    BY <1>1, <2>1 DEF GraphOk, Declared
  <2> QED BY <1>2, <2>1, <2>2, <2>3 DEF TransitionInv, PhaseOk, Failures, InGraph, Declared
<1> QED BY <1>3, <1>4, <1>5, <1>6, <1>7

(* run_transaction never leaves a half-made representation that it does not *)
(* report as RollbackFailed, over any tier graph and any failing phases.    *)
THEOREM TransitionsWhole == TransitionSpec => []WholeOrReported
<1>1. TransitionInit => TransitionInv
  BY DEF TransitionInit, TransitionInv, GraphOk, PhaseOk, NoGraph, NoTx, InGraph, Declared
<1>2. TransitionInv /\ [TransitionNext]_transitionVars => TransitionInv'
  <2> SUFFICES ASSUME TransitionInv, [TransitionNext]_transitionVars PROVE TransitionInv'
    OBVIOUS
  <2>1. ASSUME NEW tiers \in TierLists, NEW edges \in EdgeLists, try_new(tiers, edges)
        PROVE  TransitionInv'
    BY <2>1, TransitionAssumption, TryNewKeeps
  <2>2. ASSUME NEW tiers \in TierLists, NEW names \in NameLists, machine_from_lists(tiers, names)
        PROVE  TransitionInv'
    BY <2>2, TransitionAssumption, FromListsKeeps
  <2>3. CASE UNCHANGED transitionVars
    BY <2>3 DEF transitionVars, TransitionInv, GraphOk, PhaseOk, InGraph, Declared
  <2> QED
    BY <2>1, <2>2, <2>3, MovesKeep, PhasesKeep DEF TransitionNext
<1>3. TransitionInv => WholeOrReported
  BY DEF TransitionInv, PhaseOk, WholeOrReported, Usable, InGraph, Declared, Failures
<1> QED BY <1>1, <1>2, <1>3, PTL DEF TransitionSpec

-----------------------------------------------------------------------------
(* The scoring pipeline                                                     *)

(* What a pipeline of n slots holds: the mirror shows what the device holds *)
(* wherever it was ever written, and the resident slots what was accepted.  *)
Mirrored(p, a, n) ==
    /\ p.resident \in 0 .. n
    /\ p.mirror \in [1 .. n -> PipeTiles \cup {ZeroTile}]
    /\ p.dev \in [1 .. n -> PipeTiles \cup {Unset}]
    /\ DOMAIN a = 1 .. p.resident
    /\ \A s \in 1 .. n : p.mirror[s] # ZeroTile => p.dev[s] = p.mirror[s]
    /\ \A s \in 1 .. p.resident : a[s] = p.mirror[s] /\ a[s] \in PipeTiles

PipeFields == {"resident", "mirror", "dev", "coarse", "sign"}

PipeInv ==
    /\ \/ pipe = NoPipe /\ accepted = <<>>
       \/ /\ DOMAIN pipe = PipeFields
          /\ \E n \in Nat \ {0} : Mirrored(pipe, accepted, n)
    /\ ScoresAreOfAccepted

LEMMA LenOfFunction ==
    ASSUME NEW n \in Nat, NEW S, NEW f \in [1 .. n -> S]
    PROVE  f \in Seq(S) /\ Len(f) = n
  OBVIOUS

LEMMA NewPipelineKeeps ==
    ASSUME PipeInv, NEW n \in PipeCapacity, NewPipeline(n)
    PROVE  PipeInv'
<1>1. n \in Nat \ {0} /\ pipe = NoPipe /\ accepted' = accepted /\ answered' = NoAnswer
  BY PipeAssumption DEF NewPipeline
<1>2. accepted = <<>>
  <2>1. DOMAIN NoPipe # PipeFields
    BY DEF NoPipe, PipeFields
  <2> QED BY <1>1, <2>1 DEF PipeInv
<1>3. DOMAIN pipe' = PipeFields
  BY DEF NewPipeline, PipeFields
<1>4. Mirrored(pipe', accepted', n)
  BY <1>1, <1>2 DEF NewPipeline, Mirrored, Const
<1> QED BY <1>1, <1>3, <1>4 DEF PipeInv, ScoresAreOfAccepted

(* The device may hold anything in a slot the mirror shows as blank: what   *)
(* follows is about callers that upload no blank tile.                      *)
NoBlankTiles == ZeroTile \notin PipeTiles

(* q is p with the batch in the mirror and on the device.                   *)
Copied(q, p, n, start, tiles) ==
    /\ DOMAIN q = PipeFields /\ q.resident = p.resident
    /\ q.mirror \in [1 .. n -> PipeTiles \cup {ZeroTile}]
    /\ q.dev \in [1 .. n -> PipeTiles \cup {Unset}]
    /\ \A s \in 1 .. n :
          /\ q.mirror[s] = IF s - start \in 1 .. Len(tiles) THEN tiles[s - start] ELSE p.mirror[s]
          /\ q.mirror[s] # ZeroTile => q.dev[s] = q.mirror[s]

LEMMA BatchCopied ==
    ASSUME NoBlankTiles, NEW n \in Nat, NEW p, NEW a, DOMAIN p = PipeFields, Mirrored(p, a, n),
           NEW start \in Nat, NEW tiles \in Seq(PipeTiles), start + Len(tiles) <= n
    PROVE  Copied(Batch(p, start, tiles), p, n, start, tiles)
<1> DEFINE new == [s \in 1 .. n |-> IF s - start \in 1 .. Len(tiles) THEN tiles[s - start] ELSE p.mirror[s]]
           dev == [s \in 1 .. n |-> IF new[s] = p.mirror[s] THEN p.dev[s] ELSE new[s]]
           q == Batch(p, start, tiles)
<1>1. Len(p.mirror) = n
  BY LenOfFunction DEF Mirrored
<1>2. q = [p EXCEPT !.mirror = new, !.dev = dev]
  BY <1>1 DEF Batch
<1>3. /\ DOMAIN q = PipeFields /\ q.resident = p.resident
      /\ q.mirror = new /\ q.dev = dev
  BY <1>2 DEF PipeFields
<1>4. \A s \in 1 .. n : s - start \in 1 .. Len(tiles) => tiles[s - start] \in PipeTiles
  OBVIOUS
<1>5. new \in [1 .. n -> PipeTiles \cup {ZeroTile}]
  BY <1>4 DEF Mirrored
<1>6. \A s \in 1 .. n : new[s] # p.mirror[s] => new[s] \in PipeTiles
  BY <1>4
<1>7. \A s \in 1 .. n :
         dev[s] \in PipeTiles \cup {Unset} /\ (new[s] # ZeroTile => dev[s] = new[s])
  BY <1>6 DEF Mirrored
<1> HIDE DEF q, dev
<1>8. dev \in [1 .. n -> PipeTiles \cup {Unset}]
  BY <1>7 DEF dev
<1> QED BY <1>3, <1>5, <1>7, <1>8 DEF q, Copied

(* write_slot, over slots that are resident already or come to be: after a  *)
(* batch that stopped half-way the accepted tiles are what they were.       *)
LEMMA WriteSlotKeeps ==
    ASSUME NoBlankTiles, NEW n \in Nat, DOMAIN pipe = PipeFields, Mirrored(pipe, accepted, n),
           NEW start \in Nat, NEW tiles \in Seq(PipeTiles), NEW done \in Nat, NEW after \in 0 .. n,
           start + Len(tiles) <= after, pipe.resident <= after,
           start <= pipe.resident, after > pipe.resident => start = pipe.resident,
           after > pipe.resident => after = start + Len(tiles),
           done = 0 \/ start = pipe.resident,
           write_slot(start, tiles, done, after)
    PROVE  DOMAIN pipe' = PipeFields /\ Mirrored(pipe', accepted', n)
<1>1. CASE /\ pipe' = [Batch(pipe, start, tiles) EXCEPT !.resident = after]
           /\ accepted' = [s \in 1 .. after |->
                  IF s > start /\ s <= start + Len(tiles) THEN tiles[s - start] ELSE accepted[s]]
  <2> DEFINE q == Batch(pipe, start, tiles)
  <2>1. Copied(q, pipe, n, start, tiles)
    BY BatchCopied
  <2> HIDE DEF q
  <2>2. /\ DOMAIN pipe' = PipeFields /\ pipe'.resident = after
        /\ pipe'.mirror = q.mirror /\ pipe'.dev = q.dev
    BY <1>1, <2>1 DEF q, PipeFields, Copied
  <2>3. \A s \in 1 .. after : accepted'[s] = q.mirror[s] /\ accepted'[s] \in PipeTiles
    <3> TAKE s \in 1 .. after
    <3>1. CASE s - start \in 1 .. Len(tiles)
      <4>1. s \in 1 .. n /\ s > start /\ s <= start + Len(tiles) /\ tiles[s - start] \in PipeTiles
        BY <3>1
      <4>2. q.mirror[s] = tiles[s - start]
        BY <2>1, <3>1, <4>1 DEF Copied
      <4>3. accepted'[s] = tiles[s - start]
        BY <1>1, <4>1
      <4> QED BY <4>1, <4>2, <4>3
    <3>2. CASE s - start \notin 1 .. Len(tiles)
      <4>1. s \in 1 .. n /\ s <= pipe.resident /\ ~(s > start /\ s <= start + Len(tiles))
        BY <3>2 DEF Mirrored
      <4>2. q.mirror[s] = pipe.mirror[s]
        BY <2>1, <3>2, <4>1 DEF Copied
      <4>3. accepted'[s] = accepted[s]
        BY <1>1, <4>1
      <4> QED BY <4>1, <4>2, <4>3 DEF Mirrored
    <3> QED BY <3>1, <3>2
  <2> QED BY <1>1, <2>1, <2>2, <2>3 DEF Mirrored, Copied
<1>2. CASE /\ done < Len(tiles)
           /\ pipe' = CopyFails(Batch(pipe, start, SubSeq(tiles, 1, done)), start + done + 1, tiles[done + 1])
           /\ accepted' = accepted
  <2> DEFINE part == SubSeq(tiles, 1, done)
             q == Batch(pipe, start, part)
  <2>1. part \in Seq(PipeTiles) /\ Len(part) = done
    BY <1>2
  <2>2. Copied(q, pipe, n, start, part)
    <3>1. start + Len(part) <= n
      BY <1>2, <2>1
    <3> HIDE DEF part
    <3> QED BY <2>1, <3>1, BatchCopied
  <2>3. pipe' = q
    BY <1>2 DEF CopyFails
  <2> HIDE DEF q, part
  <2>4. \A s \in 1 .. pipe.resident : q.mirror[s] = pipe.mirror[s]
    <3> TAKE s \in 1 .. pipe.resident
    <3>1. s \in 1 .. n /\ s - start \notin 1 .. Len(part)
      BY <2>1 DEF Mirrored
    <3> QED BY <2>2, <3>1 DEF Copied
  <2> QED BY <1>2, <2>2, <2>3, <2>4 DEF Mirrored, Copied
<1> QED BY <1>1, <1>2 DEF write_slot

(* The batches that callers pass.                                           *)
LEMMA BatchesTyped == Batches \subseteq Seq(PipeTiles)
  BY PipeAssumption DEF Batches, SeqOf

LEMMA UploadKeeps ==
    ASSUME NoBlankTiles, PipeInv, NEW tiles \in Batches, NEW done \in 0 .. MaxBatch - 1,
           upload(tiles, done)
    PROVE  PipeInv'
<1>1. tiles \in Seq(PipeTiles) /\ done \in Nat
  BY BatchesTyped, PipeAssumption
<1>2. pipe # NoPipe /\ answered' = NoAnswer
  BY DEF upload
<1>3. DOMAIN pipe = PipeFields
  BY <1>2 DEF PipeInv
<1>4. PICK n \in Nat \ {0} : Mirrored(pipe, accepted, n)
  BY <1>2 DEF PipeInv
<1>5. pipe.resident \in Nat /\ Len(pipe.mirror) = n
  BY <1>4, LenOfFunction DEF Mirrored
<1>6. pipe.resident + Len(tiles) \in 0 .. n
  BY <1>1, <1>5 DEF upload, capacity_tiles
<1>7. write_slot(pipe.resident, tiles, done, pipe.resident + Len(tiles))
  BY DEF upload
<1>8. Len(tiles) \in Nat
  BY <1>1
<1>9. DOMAIN pipe' = PipeFields /\ Mirrored(pipe', accepted', n)
  BY <1>1, <1>3, <1>4, <1>5, <1>6, <1>7, <1>8, WriteSlotKeeps
<1> QED BY <1>2, <1>9 DEF PipeInv, ScoresAreOfAccepted

LEMMA UpdateKeeps ==
    ASSUME NoBlankTiles, PipeInv, NEW slot \in Nat, NEW t \in PipeTiles, update_slot(slot, t)
    PROVE  PipeInv'
<1>1. pipe # NoPipe
  BY DEF update_slot, NoPipe
<1>2. DOMAIN pipe = PipeFields
  BY <1>1 DEF PipeInv
<1>3. PICK n \in Nat \ {0} : Mirrored(pipe, accepted, n)
  BY <1>1 DEF PipeInv
<1>4. pipe.resident \in 0 .. n /\ slot + 1 <= pipe.resident
  BY <1>3 DEF Mirrored, update_slot
<1>5. <<t>> \in Seq(PipeTiles) /\ Len(<<t>>) = 1
  OBVIOUS
<1>6. write_slot(slot, <<t>>, 0, pipe.resident) /\ answered' = NoAnswer
  BY DEF update_slot
<1>7. /\ n \in Nat /\ 0 \in Nat /\ slot + Len(<<t>>) <= pipe.resident
      /\ slot <= pipe.resident /\ ~(pipe.resident > pipe.resident)
      /\ pipe.resident <= pipe.resident
  BY <1>3, <1>4, <1>5
<1>8. DOMAIN pipe' = PipeFields /\ Mirrored(pipe', accepted', n)
  <2> DEFINE tiles == <<t>>
  <2> HIDE DEF tiles
  <2> QED BY <1>2, <1>3, <1>4, <1>5, <1>6, <1>7, WriteSlotKeeps DEF tiles
<1> QED BY <1>6, <1>8 DEF PipeInv, ScoresAreOfAccepted

(* score_into hands out the scores of the accepted tiles, or nothing.       *)
LEMMA ScoreKeeps ==
    ASSUME NoBlankTiles, PipeInv, NEW q \in Queries, NEW s \in Queries,
           NEW len \in 0 .. MaxScores, NEW fault,
           score_into(q, s, len, fault)
    PROVE  PipeInv'
<1> DEFINE copied == [pipe EXCEPT !.coarse = IF Reached(fault, "coarse") THEN q ELSE @,
                                  !.sign = IF Reached(fault, "sign") THEN s ELSE @]
           scores == [i \in 1 .. pipe.resident |-> <<copied.coarse, copied.sign, pipe.dev[i]>>]
           buf == Const(len, Untouched)
<1>1. /\ pipe # NoPipe /\ len >= pipe.resident /\ accepted' = accepted
      /\ answered' = [from |-> "gpu", q |-> q, s |-> s, ok |-> fault = "none", tiles |-> accepted,
                      out |-> IF fault = "none" THEN Overwrite(buf, scores) ELSE buf]
      /\ pipe' = pipe \/ pipe' = copied
  BY DEF score_into
<1>2. DOMAIN pipe = PipeFields
  BY <1>1 DEF PipeInv
<1>3. PICK n \in Nat \ {0} : Mirrored(pipe, accepted, n)
  BY <1>1 DEF PipeInv
<1>4. /\ DOMAIN copied = PipeFields /\ copied.resident = pipe.resident
      /\ copied.mirror = pipe.mirror /\ copied.dev = pipe.dev
  BY <1>2 DEF PipeFields
<1>5. DOMAIN pipe' = PipeFields /\ Mirrored(pipe', accepted', n)
  <2> HIDE DEF copied
  <2>1. CASE pipe' = pipe
    BY <1>1, <1>2, <1>3, <2>1
  <2>2. CASE pipe' = copied
    BY <1>1, <1>3, <1>4, <2>2 DEF Mirrored
  <2> QED BY <1>1, <2>1, <2>2
<1>6. fault = "none" => copied.coarse = q /\ copied.sign = s
  BY <1>2 DEF Reached, Steps, PipeFields
<1>7. \A i \in 1 .. pipe.resident : pipe.dev[i] = accepted[i]
  BY <1>3 DEF Mirrored, NoBlankTiles
<1>8. Len(scores) = pipe.resident
  <2>1. scores \in [1 .. pipe.resident -> {scores[i] : i \in 1 .. pipe.resident}]
    OBVIOUS
  <2>2. pipe.resident \in Nat
    BY <1>3 DEF Mirrored
  <2> HIDE DEF scores
  <2> QED BY <2>1, <2>2, LenOfFunction
<1>9. \A i \in 1 .. len : fault = "none" =>
         Overwrite(buf, scores)[i] = IF i <= pipe.resident THEN <<q, s, accepted[i]>> ELSE Untouched
  <2> HIDE DEF copied
  <2> QED BY <1>3, <1>6, <1>7, <1>8 DEF Overwrite, Const, Mirrored
<1>10. DOMAIN answered'.out = 1 .. len
  BY <1>1 DEF Overwrite, Const
<1>11. ScoresAreOfAccepted'
  <2> SUFFICES ASSUME NEW i \in 1 .. len
               PROVE  IF fault = "none" /\ i \in 1 .. pipe.resident
                      THEN answered'.out[i] = <<q, s, accepted[i]>>
                      ELSE answered'.out[i] = Untouched
    <3>1. /\ answered'.from = "gpu" /\ answered'.q = q /\ answered'.s = s
          /\ answered'.ok <=> fault = "none"
          /\ answered'.tiles = accepted
      BY <1>1
    <3>2. DOMAIN accepted = 1 .. pipe.resident
      BY <1>3 DEF Mirrored
    <3> HIDE DEF scores, copied, buf
    <3> QED BY <1>10, <3>1, <3>2 DEF ScoresAreOfAccepted
  <2> HIDE DEF scores, copied
  <2>1. CASE fault = "none"
    <3>1. answered'.out[i] = Overwrite(buf, scores)[i]
      BY <1>1, <2>1
    <3>2. i \in 1 .. pipe.resident <=> i <= pipe.resident
      BY <1>3 DEF Mirrored
    <3> QED BY <1>9, <2>1, <3>1, <3>2
  <2>2. CASE fault # "none"
    BY <1>1, <2>2 DEF Const
  <2> QED BY <2>1, <2>2
<1> QED BY <1>5, <1>11 DEF PipeInv

(* Before the first tile that is refused, each score is of its tile.        *)
LEMMA CpuKeeps ==
    ASSUME PipeInv, pipe = NoPipe, NEW tiles \in Batches, NEW q \in Queries, NEW s \in Queries,
           NEW len \in 0 .. MaxScores, score_tiles_cpu(tiles, q, s, len)
    PROVE  PipeInv'
<1> DEFINE refused == Scored(tiles)
           n == IF refused = 0 THEN Len(tiles) ELSE refused - 1
           scores == [i \in 1 .. n |-> <<q, s, tiles[i]>>]
           out == answered'.out
<1>1. tiles \in Seq(PipeTiles) /\ len \in Nat
  BY BatchesTyped, PipeAssumption
<1>2. /\ answered'.from = "cpu" /\ answered'.q = q /\ answered'.s = s /\ answered'.tiles = tiles
      /\ out = try_score_tiles_cpu(tiles, q, s, Cleared(len))
      /\ UNCHANGED <<pipe, accepted>>
  BY DEF score_tiles_cpu
<1>3. Scored(tiles) \in 0 .. Len(tiles)
  <2> DEFINE I == {i \in 1 .. Len(tiles) : ~Valid(tiles[i])}
  <2>1. Scored(tiles) = IF I # {} THEN Min(I) ELSE 0
    BY DEF Scored, SelectInSeq
  <2>2. CASE I # {}
    <3>1. \E m \in I : \A k \in I : m <= k
      <4>1. I \subseteq Nat
        OBVIOUS
      <4> HIDE DEF I
      <4> QED BY <2>2, <4>1, LeastElement
    <3>2. Min(I) \in I
      BY <3>1 DEF Min
    <3> QED BY <1>1, <2>1, <2>2, <3>2
  <2> QED BY <1>1, <2>1, <2>2
<1>4. n \in 0 .. Len(tiles)
  BY <1>1, <1>3
<1> HIDE DEF n, refused
<1>5. Len(scores) = n
  <2>1. scores \in [1 .. n -> {scores[i] : i \in 1 .. n}]
    OBVIOUS
  <2>2. n \in Nat
    BY <1>1, <1>4
  <2> HIDE DEF scores
  <2> QED BY <2>1, <2>2, LenOfFunction
<1>6. \/ out = Cleared(len)
      \/ out = Overwrite(Cleared(len), scores)
  BY <1>2 DEF try_score_tiles_cpu, n, refused
<1>7. \A i \in 1 .. len :
         out[i] = Zeroed \/ (i \in 1 .. n /\ out[i] = <<q, s, tiles[i]>>)
  <2> TAKE i \in 1 .. len
  <2>1. Cleared(len) = [k \in 1 .. len |-> Zeroed]
    BY DEF Cleared, Const
  <2>2. CASE out = Cleared(len)
    BY <2>1, <2>2
  <2>3. CASE out = Overwrite(Cleared(len), scores)
    <3>1. out[i] = IF i <= n THEN scores[i] ELSE Zeroed
      BY <1>5, <2>1, <2>3 DEF Overwrite
    <3> QED BY <1>1, <1>4, <3>1
  <2> QED BY <1>6, <2>2, <2>3
<1>8. DOMAIN out = 1 .. len
  BY <1>6 DEF Overwrite, Cleared, Const
<1>9. ScoresAreOfAccepted'
  <2>1. \A i \in 1 .. n : i \in DOMAIN tiles
    BY <1>1, <1>4
  <2> HIDE DEF scores
  <2> QED BY <1>2, <1>7, <1>8, <2>1 DEF ScoresAreOfAccepted
<1> QED BY <1>2, <1>9 DEF PipeInv, Mirrored

(* A pipeline that is given no blank tile hands out the scores of the tiles *)
(* it accepted last, through every sequence of failed copies, launches and  *)
(* half-finished batches, at every capacity.                                *)
THEOREM PipelineScores == NoBlankTiles /\ PipeSpec => []ScoresAreOfAccepted
<1> SUFFICES ASSUME NoBlankTiles PROVE PipeSpec => []ScoresAreOfAccepted
  OBVIOUS
<1>1. PipeInit => PipeInv
  BY DEF PipeInit, PipeInv, ScoresAreOfAccepted
<1>2. ASSUME PipeInv, [PipeNext]_pipeVars PROVE PipeInv'
  <2>1. ASSUME NEW n \in PipeCapacity, NewPipeline(n) PROVE PipeInv'
    BY <1>2, <2>1, NewPipelineKeeps
  <2>2. ASSUME NEW tiles \in Batches, NEW done \in 0 .. MaxBatch - 1, upload(tiles, done) PROVE PipeInv'
    BY <1>2, <2>2, UploadKeeps
  <2>3. ASSUME NEW slot \in 0 .. capacity_tiles - 1, NEW t \in PipeTiles, update_slot(slot, t) PROVE PipeInv'
    BY <1>2, <2>3, UpdateKeeps
  <2>4. ASSUME NEW q \in Queries, NEW s \in Queries, NEW len \in 0 .. MaxScores, NEW i \in DOMAIN Steps,
               score_into(q, s, len, Steps[i])
        PROVE  PipeInv'
    BY <1>2, <2>4, ScoreKeeps
  <2>5. ASSUME pipe = NoPipe, NEW tiles \in Batches, NEW q \in Queries, NEW s \in Queries,
               NEW len \in 0 .. MaxScores, score_tiles_cpu(tiles, q, s, len)
        PROVE  PipeInv'
    BY <1>2, <2>5, CpuKeeps
  <2>6. CASE UNCHANGED pipeVars
    BY <1>2, <2>6 DEF pipeVars, PipeInv, Mirrored, ScoresAreOfAccepted
  <2> QED BY <1>2, <2>1, <2>2, <2>3, <2>4, <2>5, <2>6 DEF PipeNext
<1>3. PipeInv => ScoresAreOfAccepted
  BY DEF PipeInv
<1> QED BY <1>1, <1>2, <1>3, PTL DEF PipeSpec

-----------------------------------------------------------------------------
(* The CUDA engine                                                          *)

CudaObjects == [kind : {"engine", "alloc", "stream", "module", "function"},
                id : Nat, owner : Nat, at : Nat, len : Nat]

CudaTyped ==
    /\ contexts \in Nat /\ made \in Nat /\ current \in Nat /\ live \subseteq Nat
    /\ objects \subseteq CudaObjects /\ mem \subseteq CudaObjects
    /\ loaded \subseteq [id : Nat, ctx : Nat]

(* Numbers are given out once.                                              *)
Numbered ==
    /\ \A a \in mem : a.id <= made
    /\ \A x \in loaded : x.id <= made
    /\ \A o \in objects : o.kind \in {"module", "function"} => o.id <= made

IsCode(o) == o.kind \in {"module", "function"}

(* Handles of one module agree on its context, and so does the driver.      *)
CodeAgrees ==
    /\ \A o, r \in objects : IsCode(o) /\ IsCode(r) /\ o.id = r.id => o.owner = r.owner /\ o.at = r.at
    /\ \A o \in objects, x \in loaded : IsCode(o) /\ o.id = x.id => x.ctx = o.at

CudaInv ==
    /\ CudaTyped /\ Numbered /\ CodeAgrees
    /\ IsFiniteSet(mem) /\ Alive("alloc") \subseteq mem
    /\ DriverStateOwned

LEMMA CudaInitial == CudaInit => CudaInv
  BY FS_EmptySet
  DEF CudaInit, CudaInv, CudaTyped, Numbered, CodeAgrees, Alive, DriverStateOwned,
      BackingCountExact, ContextOutlivesObjects, TouchesOwnMemory

LEMMA NewEngineKeeps ==
    ASSUME CudaInv, NewEngine
    PROVE  CudaInv'
<1> DEFINE c == contexts + 1
           e == Object("engine", 0, c, c, 0)
<1>1. c \in Nat /\ e \in CudaObjects /\ e.kind = "engine" /\ e.owner = c
  BY DEF CudaInv, CudaTyped, Object, CudaObjects
<1>2. /\ contexts' = c /\ live' = live \cup {c} /\ current' = c /\ objects' = objects \cup {e}
      /\ touched' = {} /\ UNCHANGED <<made, mem, loaded, backing>>
  BY DEF NewEngine
<1> HIDE DEF c, e
<1>3. CudaTyped' /\ Numbered' /\ CodeAgrees'
  BY <1>1, <1>2 DEF CudaInv, CudaTyped, Numbered, CodeAgrees, IsCode
<1>4. IsFiniteSet(mem)' /\ (Alive("alloc") \subseteq mem)'
  BY <1>1, <1>2 DEF CudaInv, Alive
<1>5. DriverStateOwned'
  BY <1>1, <1>2
  DEF CudaInv, DriverStateOwned, BackingCountExact, ContextOutlivesObjects, TouchesOwnMemory, Alive
<1> QED BY <1>3, <1>4, <1>5 DEF CudaInv

(* A new object of a live context, numbered made + 1 if it is a module.     *)
LEMMA MakeKeeps ==
    ASSUME CudaInv, NEW o \in CudaObjects, NEW cur \in Nat, Make(o, cur),
           o.owner \in live, o.kind # "function", IsCode(o) => o.id = made + 1,
           UNCHANGED loaded
           \/ (o.kind = "module" /\ loaded' = loaded \cup {[id |-> o.id, ctx |-> o.at]})
    PROVE  /\ CudaTyped' \/ ~(mem' \subseteq CudaObjects)
           /\ \A x \in loaded' : x.id <= made'
           /\ \A x \in objects' : IsCode(x) => x.id <= made'
           /\ CodeAgrees' /\ ContextOutlivesObjects' /\ touched' = {}
<1>1. /\ made' = made + 1 /\ current' = cur /\ objects' = objects \cup {o}
      /\ touched' = {} /\ contexts' = contexts /\ live' = live
  BY DEF Make
<1>2. o.id \in Nat /\ o.at \in Nat
  BY DEF CudaObjects
<1>3. /\ \A x \in objects : IsCode(x) => x.id \in Nat /\ x.id <= made
      /\ \A x \in loaded : x.id \in Nat /\ x.id <= made
      /\ made \in Nat
  BY DEF CudaInv, CudaTyped, Numbered, CudaObjects, IsCode
<1>4. PICK new \in [id : Nat, ctx : Nat] : new.id = o.id /\ new.ctx = o.at
                                           /\ new = [id |-> o.id, ctx |-> o.at]
  BY <1>2
<1>5. loaded' = loaded \/ (o.kind = "module" /\ loaded' = loaded \cup {new})
  BY <1>4
<1>6. loaded' \subseteq [id : Nat, ctx : Nat] /\ loaded \subseteq loaded'
  BY <1>5 DEF CudaInv, CudaTyped
<1>7. CudaTyped' \/ ~(mem' \subseteq CudaObjects)
  BY <1>1, <1>6 DEF CudaInv, CudaTyped
<1>8. \A x \in loaded' : x.id <= made'
  BY <1>1, <1>3, <1>4, <1>5 DEF IsCode
<1>9. \A x \in objects' : IsCode(x) => x.id <= made'
  BY <1>1, <1>3
<1>10. CodeAgrees'
  <2>1. \A x, r \in objects' : IsCode(x) /\ IsCode(r) /\ x.id = r.id =>
           x.owner = r.owner /\ x.at = r.at
    BY <1>1, <1>3 DEF CudaInv, CodeAgrees
  <2>2. \A x \in objects', l \in loaded' : IsCode(x) /\ x.id = l.id => l.ctx = x.at
    BY <1>1, <1>3, <1>4, <1>5 DEF CudaInv, CodeAgrees, IsCode
  <2> QED BY <2>1, <2>2 DEF CodeAgrees
<1>11. ContextOutlivesObjects'
  BY <1>1, <1>6 DEF CudaInv, DriverStateOwned, ContextOutlivesObjects, Alive
<1> QED BY <1>1, <1>7, <1>8, <1>9, <1>10, <1>11

LEMMA AllocateKeeps ==
    ASSUME CudaInv, NEW e \in Alive("engine"), NEW len \in Lengths, cuda_allocate(e, len)
    PROVE  CudaInv'
<1> DEFINE a == Object("alloc", made + 1, e.owner, e.owner, len)
<1>1. e \in CudaObjects /\ e.owner \in Nat /\ e.owner \in live /\ made \in Nat
  BY DEF CudaInv, CudaTyped, Alive, CudaObjects, DriverStateOwned, ContextOutlivesObjects
<1>2. /\ a \in CudaObjects /\ a.kind = "alloc" /\ a.owner = e.owner /\ a.id = made + 1
      /\ ~IsCode(a)
  BY <1>1, CudaAssumption DEF CudaObjects, Object, IsCode
<1>3. CASE /\ Make(a, e.owner) /\ mem' = mem \cup {a} /\ CountAllocation(TRUE)
           /\ UNCHANGED loaded
  <2> HIDE DEF a
  <2>1. a \notin mem
    BY <1>1, <1>2 DEF CudaInv, Numbered
  <2>2. IsFiniteSet(mem') /\ Cardinality(mem') = Cardinality(mem) + 1
    BY <1>3, <2>1, FS_AddElement DEF CudaInv
  <2>3. mem' \subseteq CudaObjects
    BY <1>2, <1>3 DEF CudaInv, CudaTyped
  <2>4. /\ CudaTyped'
        /\ \A x \in loaded' : x.id <= made'
        /\ \A x \in objects' : IsCode(x) => x.id <= made'
        /\ CodeAgrees' /\ ContextOutlivesObjects' /\ touched' = {}
    BY <1>1, <1>2, <1>3, <2>3, MakeKeeps
  <2>5. \A x \in mem : x.id \in Nat /\ x.id <= made
    BY DEF CudaInv, CudaTyped, CudaObjects, Numbered
  <2>6. Numbered'
    BY <1>1, <1>2, <1>3, <2>4, <2>5 DEF Numbered, Make, IsCode
  <2>7. (Alive("alloc") \subseteq mem)'
    BY <1>3 DEF CudaInv, Alive, Make
  <2>8. BackingCountExact'
    BY <1>3, <2>2 DEF BackingCountExact, CountAllocation, CudaInv, DriverStateOwned
  <2>9. TouchesOwnMemory'
    BY <2>4 DEF TouchesOwnMemory
  <2> QED BY <2>2, <2>4, <2>6, <2>7, <2>8, <2>9 DEF CudaInv, DriverStateOwned
<1>4. CASE /\ current' = e.owner /\ touched' = {} /\ CountAllocation(FALSE)
           /\ UNCHANGED <<contexts, made, live, mem, loaded, objects>>
  BY <1>1, <1>4
  DEF CudaInv, CudaTyped, Numbered, CodeAgrees, Alive, CountAllocation, DriverStateOwned,
      BackingCountExact, ContextOutlivesObjects, TouchesOwnMemory
<1> QED BY <1>3, <1>4 DEF cuda_allocate

LEMMA MakesKeep ==
    ASSUME CudaInv, NEW e \in Alive("engine"), NewStream(e) \/ load_ptx(e)
    PROVE  CudaInv'
<1> DEFINE s == Object("stream", made + 1, e.owner, e.owner, 0)
           m == Object("module", made + 1, e.owner, current, 0)
<1>1. e \in CudaObjects /\ e.owner \in Nat /\ e.owner \in live /\ made \in Nat /\ current \in Nat
  BY DEF CudaInv, CudaTyped, Alive, CudaObjects, DriverStateOwned, ContextOutlivesObjects
<1>2. s \in CudaObjects /\ s.kind = "stream" /\ s.owner = e.owner /\ ~IsCode(s)
  BY <1>1 DEF CudaObjects, Object, IsCode
<1>3. /\ m \in CudaObjects /\ m.kind = "module" /\ m.owner = e.owner /\ m.at = current
      /\ m.id = made + 1
  BY <1>1 DEF CudaObjects, Object
<1>4. PICK o \in CudaObjects, cur \in Nat :
         /\ Make(o, cur) /\ o.owner \in live /\ o.kind \in {"stream", "module"}
         /\ IsCode(o) => o.id = made + 1
         /\ UNCHANGED loaded
            \/ (o.kind = "module" /\ loaded' = loaded \cup {[id |-> o.id, ctx |-> o.at]})
  <2> HIDE DEF s, m
  <2>1. CASE NewStream(e)
    <3>1. Make(s, e.owner) /\ UNCHANGED loaded
      BY <2>1 DEF NewStream, s
    <3> QED BY <1>1, <1>2, <3>1
  <2>2. CASE load_ptx(e)
    <3>1. Make(m, current) /\ loaded' = loaded \cup {[id |-> made + 1, ctx |-> current]}
      BY <2>2 DEF load_ptx, m
    <3> QED BY <1>1, <1>3, <3>1
  <2> QED BY <2>1, <2>2
<1>5. UNCHANGED <<mem, backing>>
  BY DEF NewStream, load_ptx
<1>6. mem' \subseteq CudaObjects
  BY <1>5 DEF CudaInv, CudaTyped
<1>7. /\ CudaTyped'
      /\ \A x \in loaded' : x.id <= made'
      /\ \A x \in objects' : IsCode(x) => x.id <= made'
      /\ CodeAgrees' /\ ContextOutlivesObjects' /\ touched' = {}
  BY <1>4, <1>6, MakeKeeps
<1>8. \A x \in mem : x.id \in Nat /\ x.id <= made
  BY DEF CudaInv, CudaTyped, CudaObjects, Numbered
<1>9. Numbered'
  BY <1>1, <1>4, <1>5, <1>7, <1>8 DEF Numbered, Make, IsCode
<1>10. (Alive("alloc") \subseteq mem)'
  BY <1>4, <1>5 DEF CudaInv, Alive, Make
<1>11. BackingCountExact' /\ TouchesOwnMemory' /\ IsFiniteSet(mem')
  BY <1>5, <1>7 DEF BackingCountExact, TouchesOwnMemory, CudaInv, DriverStateOwned
<1> QED BY <1>7, <1>9, <1>10, <1>11 DEF CudaInv, DriverStateOwned

(* A function is of the module it was taken from.                           *)
LEMMA GetFunctionKeeps ==
    ASSUME CudaInv, NEW m \in Alive("module"), get_function(m)
    PROVE  CudaInv'
<1> DEFINE f == Object("function", m.id, m.owner, m.at, 0)
<1>1. m \in objects /\ m \in CudaObjects /\ m.kind = "module" /\ m.owner \in live
  BY DEF CudaInv, CudaTyped, Alive, DriverStateOwned, ContextOutlivesObjects
<1>2. /\ f \in CudaObjects /\ f.kind = "function" /\ f.id = m.id /\ f.owner = m.owner
      /\ f.at = m.at
  BY <1>1 DEF CudaObjects, Object
<1>3. PICK x \in loaded : x.id = m.id
  BY DEF get_function
<1>4. x.ctx = m.at /\ x \in [id : Nat, ctx : Nat]
  BY <1>1, <1>3 DEF CudaInv, CudaTyped, CodeAgrees, IsCode
<1>5. [id |-> f.id, ctx |-> f.at] \in loaded
  BY <1>2, <1>3, <1>4
<1>6. /\ objects' = objects \cup {f} /\ touched' = {}
      /\ UNCHANGED <<contexts, made, live, current, mem, loaded, backing>>
  BY DEF get_function
<1> HIDE DEF f
<1>7. CudaTyped' /\ Numbered'
  BY <1>1, <1>2, <1>6 DEF CudaInv, CudaTyped, Numbered
<1>8. CodeAgrees'
  BY <1>1, <1>2, <1>6 DEF CudaInv, CodeAgrees, IsCode
<1>9. IsFiniteSet(mem') /\ (Alive("alloc") \subseteq mem)'
  BY <1>2, <1>6 DEF CudaInv, Alive
<1>10. DriverStateOwned'
  BY <1>1, <1>2, <1>5, <1>6
  DEF CudaInv, DriverStateOwned, BackingCountExact, ContextOutlivesObjects, TouchesOwnMemory, Alive
<1> QED BY <1>7, <1>8, <1>9, <1>10 DEF CudaInv

(* A call that only sets the context and hands ranges to the driver.        *)
LEMMA TouchKeeps ==
    ASSUME CudaInv, UNCHANGED <<contexts, made, live, mem, loaded, objects, backing>>,
           current' \in Nat,
           \A range \in touched' :
              \E a \in Alive("alloc") : range.alloc = a /\ range.to <= a.len
    PROVE  CudaInv'
<1>1. CudaTyped' /\ Numbered' /\ CodeAgrees' /\ IsFiniteSet(mem') /\ (Alive("alloc") \subseteq mem)'
  BY DEF CudaInv, CudaTyped, Numbered, CodeAgrees, Alive
<1>2. BackingCountExact' /\ ContextOutlivesObjects'
  BY DEF CudaInv, DriverStateOwned, BackingCountExact, ContextOutlivesObjects, Alive
<1>3. TouchesOwnMemory'
  <2>1. \A a \in Alive("alloc") : a \in mem /\ a.owner \in live
    BY DEF CudaInv, Alive, DriverStateOwned, ContextOutlivesObjects
  <2> QED BY <2>1 DEF TouchesOwnMemory
<1> QED BY <1>1, <1>2, <1>3 DEF CudaInv, DriverStateOwned

LEMMA RangeIn ==
    ASSUME NEW a \in CudaObjects, NEW offset \in Nat, NEW need \in Nat,
           InRange(offset, need, a.len)
    PROVE  /\ ByteRange(a, offset, need).alloc = a
           /\ ByteRange(a, offset, need).to <= a.len
  BY DEF InRange, ByteRange

LEMMA CallsKeep ==
    ASSUME CudaInv, NEW e \in Alive("engine"),
           \/ set_device(e)
           \/ \E a \in Alive("alloc"), offset \in Offsets, need \in Lengths :
                Copy(e, a, offset, need)
           \/ \E q, s, t, r \in Alive("alloc"), f \in Alive("function"), n \in 0 .. 1 :
                \/ \E offset \in Offsets : score_tiles_at(e, q, s, t, r, offset, n, f)
                \/ \E stream \in Alive("stream") :
                     score_tiles_on_stream(e, q, s, t, r, n, f, stream)
    PROVE  CudaInv'
<1>1. e.owner \in Nat /\ current \in Nat /\ Alive("alloc") \subseteq CudaObjects
  BY DEF CudaInv, CudaTyped, CudaObjects, Alive
<1>2. CASE set_device(e)
  BY <1>1, <1>2, TouchKeeps DEF set_device
<1>3. ASSUME NEW a \in Alive("alloc"), NEW offset \in Offsets, NEW need \in Lengths,
             Copy(e, a, offset, need)
      PROVE  CudaInv'
  <2>1. touched' = {ByteRange(a, offset, need)} /\ current' = e.owner
        /\ InRange(offset, need, a.len)
        /\ UNCHANGED <<contexts, made, live, mem, loaded, objects, backing>>
    BY <1>3 DEF Copy
  <2>2. ByteRange(a, offset, need).alloc = a /\ ByteRange(a, offset, need).to <= a.len
    BY <1>1, <2>1, RangeIn, CudaAssumption
  <2> QED BY <1>1, <2>1, <2>2, TouchKeeps
<1>4. ASSUME NEW q \in Alive("alloc"), NEW s \in Alive("alloc"), NEW t \in Alive("alloc"),
             NEW r \in Alive("alloc"), NEW offset \in Nat, NEW n \in 0 .. 1,
             NEW f, Launchable(e, q, s, t, r, offset, n, f),
             touched' = Planes(q, s, t, r, offset, n), current' \in Nat,
             UNCHANGED <<contexts, made, live, mem, loaded, objects, backing>>
      PROVE  CudaInv'
  <2>1. n * TILE \in Nat /\ n * SCORE \in Nat /\ QUERY \in Nat
    BY DEF TILE, SCORE, QUERY
  <2>2. /\ InRange(offset, QUERY, q.len) /\ InRange(offset, QUERY, s.len)
        /\ InRange(offset, n * TILE, t.len) /\ InRange(offset, n * SCORE, r.len)
    BY <1>4 DEF Launchable
  <2>3. \A range \in touched' :
           \E a \in Alive("alloc") : range.alloc = a /\ range.to <= a.len
    <3>1. /\ ByteRange(q, offset, QUERY).alloc = q /\ ByteRange(q, offset, QUERY).to <= q.len
          /\ ByteRange(s, offset, QUERY).alloc = s /\ ByteRange(s, offset, QUERY).to <= s.len
      BY <1>1, <2>1, <2>2, RangeIn
    <3>2. /\ ByteRange(t, offset, n * TILE).alloc = t
          /\ ByteRange(t, offset, n * TILE).to <= t.len
      BY <1>1, <2>1, <2>2, RangeIn
    <3>3. /\ ByteRange(r, offset, n * SCORE).alloc = r
          /\ ByteRange(r, offset, n * SCORE).to <= r.len
      BY <1>1, <2>1, <2>2, RangeIn
    <3> QED BY <1>4, <3>1, <3>2, <3>3 DEF Planes
  <2> QED BY <1>4, <2>3, TouchKeeps
<1>5. ASSUME NEW q \in Alive("alloc"), NEW s \in Alive("alloc"), NEW t \in Alive("alloc"),
             NEW r \in Alive("alloc"), NEW f \in Alive("function"), NEW n \in 0 .. 1,
             \/ \E offset \in Offsets : score_tiles_at(e, q, s, t, r, offset, n, f)
             \/ \E stream \in Alive("stream") :
                  score_tiles_on_stream(e, q, s, t, r, n, f, stream)
      PROVE  CudaInv'
  <2>1. ASSUME NEW offset \in Offsets, score_tiles_at(e, q, s, t, r, offset, n, f)
        PROVE  CudaInv'
    <3>1. offset \in Nat
      BY CudaAssumption
    <3>2. /\ Launchable(e, q, s, t, r, offset, n, f)
          /\ touched' = Planes(q, s, t, r, offset, n) /\ current' = current
          /\ UNCHANGED <<contexts, made, live, mem, loaded, objects, backing>>
      BY <2>1 DEF score_tiles_at
    <3> QED BY <1>1, <1>4, <3>1, <3>2
  <2>2. ASSUME NEW stream \in Alive("stream"),
               score_tiles_on_stream(e, q, s, t, r, n, f, stream)
        PROVE  CudaInv'
    <3>1. /\ Launchable(e, q, s, t, r, 0, n, f)
          /\ touched' = Planes(q, s, t, r, 0, n) /\ current' = e.owner
          /\ UNCHANGED <<contexts, made, live, mem, loaded, objects, backing>>
      BY <2>2 DEF score_tiles_on_stream
    <3> QED BY <1>1, <1>4, <3>1
  <2> QED BY <1>5, <2>1, <2>2
<1> QED BY <1>2, <1>3, <1>5

(* Dropping an object, whatever order objects are dropped in: its context   *)
(* ends only with its last holder, its module with its last handle.         *)
LEMMA DropKeeps ==
    ASSUME CudaInv, NEW o \in objects, Drop(o)
    PROVE  /\ CudaTyped' \/ ~(mem' \subseteq CudaObjects)
           /\ \A x \in loaded' : x.id <= made'
           /\ \A x \in objects' : IsCode(x) => x.id <= made'
           /\ CodeAgrees' /\ ContextOutlivesObjects'
           /\ touched' = {} /\ objects' = objects \ {o} /\ made' = made
<1> DEFINE objs  == objects \ {o}
           cur   == IF o.kind \in {"alloc", "stream"} \/ ModuleGoes(o, objs)
                    THEN o.owner ELSE current
           ended == Holders(o.owner, objs) = {}
<1>1. /\ objects' = objs
      /\ live' = IF ended THEN live \ {o.owner} ELSE live
      /\ current' \in IF ended /\ cur = o.owner THEN live' \cup {0} ELSE {cur}
      /\ loaded' = {x \in Unloaded(o, objs) : x.ctx \in live'}
      /\ touched' = {} /\ contexts' = contexts /\ made' = made
  BY DEF Drop
<1>2. o \in CudaObjects /\ o.owner \in Nat /\ o.id \in Nat
  BY DEF CudaInv, CudaTyped, CudaObjects
<1>3. cur \in Nat /\ live \subseteq Nat /\ live' \subseteq live
  BY <1>1, <1>2 DEF CudaInv, CudaTyped
<1>4. current' \in Nat
  BY <1>1, <1>3
<1>5. loaded' \subseteq loaded
  BY <1>1 DEF Unloaded
<1>6. CudaTyped' \/ ~(mem' \subseteq CudaObjects)
  BY <1>1, <1>3, <1>4, <1>5 DEF CudaInv, CudaTyped
<1>7. /\ \A x \in loaded' : x.id <= made'
      /\ \A x \in objects' : IsCode(x) => x.id <= made'
  BY <1>1, <1>5 DEF CudaInv, Numbered, IsCode
<1>8. CodeAgrees'
  BY <1>1, <1>5 DEF CudaInv, CodeAgrees
<1>9. \A x \in objs : x.owner \in live'
  BY <1>1 DEF CudaInv, DriverStateOwned, ContextOutlivesObjects, Holders
<1>10. \A f \in objs : f.kind = "function" /\ f.at = f.owner =>
          [id |-> f.id, ctx |-> f.at] \in loaded'
  <2> SUFFICES ASSUME NEW f \in objs, f.kind = "function", f.at = f.owner
               PROVE  [id |-> f.id, ctx |-> f.at] \in loaded'
    OBVIOUS
  <2>1. [id |-> f.id, ctx |-> f.at] \in loaded
    BY DEF CudaInv, DriverStateOwned, ContextOutlivesObjects, Alive
  <2>2. f.at \in live'
    BY <1>9
  <2>3. [id |-> f.id, ctx |-> f.at] \in Unloaded(o, objs)
    <3>1. CASE ModuleGoes(o, objs)
      <4>1. f.id # o.id
        BY <3>1 DEF ModuleGoes
      <4> QED BY <2>1, <3>1, <4>1 DEF Unloaded
    <3>2. CASE ~ModuleGoes(o, objs)
      BY <2>1, <3>2 DEF Unloaded
    <3> QED BY <3>1, <3>2
  <2> QED BY <1>1, <2>2, <2>3
<1>11. ContextOutlivesObjects'
  BY <1>1, <1>9, <1>10 DEF ContextOutlivesObjects, Alive
<1> QED BY <1>1, <1>6, <1>7, <1>8, <1>11

LEMMA DropsKeep ==
    ASSUME CudaInv,
           \/ \E a \in Alive("alloc") : DropAllocation(a)
           \/ \E o \in objects \ Alive("alloc") : DropOther(o)
    PROVE  CudaInv'
<1>1. ASSUME NEW a \in Alive("alloc"), DropAllocation(a)
      PROVE  CudaInv'
  <2>1. Drop(a) /\ a \in objects /\ a \in mem /\ mem \subseteq CudaObjects /\ IsFiniteSet(mem)
    BY <1>1 DEF DropAllocation, Alive, CudaInv, CudaTyped
  <2>2. PICK freed \in BOOLEAN : mem' = (IF freed THEN mem \ {a} ELSE mem) /\ CountFree(freed)
    BY <1>1 DEF DropAllocation
  <2>3. mem' \subseteq mem /\ mem \ {a} \subseteq mem'
    BY <2>2
  <2>4. /\ CudaTyped' /\ \A x \in loaded' : x.id <= made'
        /\ \A x \in objects' : IsCode(x) => x.id <= made'
        /\ CodeAgrees' /\ ContextOutlivesObjects'
        /\ touched' = {} /\ objects' = objects \ {a} /\ made' = made
    BY <2>1, <2>3, DropKeeps
  <2>5. Numbered'
    BY <2>3, <2>4 DEF Numbered, IsCode, CudaInv
  <2>6. (Alive("alloc") \subseteq mem)'
    BY <2>3, <2>4 DEF CudaInv, Alive
  <2>7. IsFiniteSet(mem') /\ BackingCountExact'
    <3>1. IsFiniteSet(mem \ {a}) /\ Cardinality(mem \ {a}) = Cardinality(mem) - 1
      BY <2>1, FS_RemoveElement
    <3> QED BY <2>1, <2>2, <3>1 DEF CountFree, CudaInv, DriverStateOwned, BackingCountExact
  <2>8. TouchesOwnMemory'
    BY <2>4 DEF TouchesOwnMemory
  <2> QED BY <2>4, <2>5, <2>6, <2>7, <2>8 DEF CudaInv, DriverStateOwned
<1>2. ASSUME NEW o \in objects \ Alive("alloc"), DropOther(o)
      PROVE  CudaInv'
  <2>1. Drop(o) /\ UNCHANGED <<mem, backing>> /\ mem \subseteq CudaObjects
    BY <1>2 DEF DropOther, CudaInv, CudaTyped
  <2>2. /\ CudaTyped' /\ \A x \in loaded' : x.id <= made'
        /\ \A x \in objects' : IsCode(x) => x.id <= made'
        /\ CodeAgrees' /\ ContextOutlivesObjects'
        /\ touched' = {} /\ objects' = objects \ {o} /\ made' = made
    BY <2>1, DropKeeps
  <2>3. Numbered' /\ (Alive("alloc") \subseteq mem)' /\ IsFiniteSet(mem')
    BY <2>1, <2>2 DEF Numbered, IsCode, CudaInv, Alive
  <2>4. BackingCountExact' /\ TouchesOwnMemory'
    BY <2>1, <2>2 DEF TouchesOwnMemory, CudaInv, DriverStateOwned, BackingCountExact
  <2> QED BY <2>2, <2>3, <2>4 DEF CudaInv, DriverStateOwned
<1> QED BY <1>1, <1>2

(* The allocation counter is exact, contexts and modules outlive what uses  *)
(* them, and no copy or launch leaves live memory, for any number of        *)
(* engines and objects, any order of drops and any failing driver call.     *)
THEOREM CudaOwned == CudaSpec => []DriverStateOwned
<1>1. CudaInit => CudaInv
  BY CudaInitial
<1>2. CudaInv /\ [CudaNext]_cudaVars => CudaInv'
  <2> SUFFICES ASSUME CudaInv, [CudaNext]_cudaVars PROVE CudaInv'
    OBVIOUS
  <2>1. CASE UNCHANGED cudaVars
    BY <2>1
    DEF cudaVars, CudaInv, CudaTyped, Numbered, CodeAgrees, Alive, DriverStateOwned,
        BackingCountExact, ContextOutlivesObjects, TouchesOwnMemory
  <2>2. ASSUME NEW e \in Alive("engine"),
               (\E len \in Lengths : cuda_allocate(e, len)) \/ NewStream(e) \/ load_ptx(e)
        PROVE  CudaInv'
    BY <2>2, AllocateKeeps, MakesKeep
  <2>3. ASSUME NEW m \in Alive("module"), get_function(m)
        PROVE  CudaInv'
    BY <2>3, GetFunctionKeeps
  <2> QED BY <2>1, <2>2, <2>3, NewEngineKeeps, CallsKeep, DropsKeep DEF CudaNext
<1>3. CudaInv => DriverStateOwned
  BY DEF CudaInv
<1> QED BY <1>1, <1>2, <1>3, PTL DEF CudaSpec

-----------------------------------------------------------------------------
(* The training and evaluation programs                                     *)

IsProc(r) ==
    r = [at |-> r.at, n |-> r.n, scope |-> r.scope, scales |-> r.scales, layer |-> r.layer,
         hashes |-> r.hashes, read |-> r.read, control |-> r.control, candidate |-> r.candidate]

IsFiles(f) ==
    f = [out |-> f.out, evidence |-> f.evidence, validation |-> f.validation,
         startup |-> f.startup, report |-> f.report]

IsSequence(h) == \E S : h \in Seq(S)

Programs == {"rank", "lr1", "eval", "none"}

(* What is fixed, and the shape of what is not.                             *)
Reads(prog, src) ==
    /\ prog \in [Team -> Programs]
    /\ \A p \in Team, l \in LayerIds : src[p].weights[l] \in Seq(Int)

Shaped(p) == IsProc(proc[p]) /\ IsDirectory(stage[p]) /\ IsDirectory(prev[p])

Shapes ==
    /\ Reads(program, source)
    /\ proc = [p \in Team |-> proc[p]] /\ stage = [p \in Team |-> stage[p]]
    /\ prev = [p \in Team |-> prev[p]]
    /\ IsFiles(files) /\ IsDirectory(files.out) /\ published \in BOOLEAN

(* A list of digests of the first n layers.                                 *)
Listed(h, n, layers) ==
    /\ IsSequence(h) /\ Len(h) = n
    /\ \A i \in 1 .. n : h[i] = layers[i - 1] /\ Loads(h[i])

Finished == {"evidence", "look", "aside", "swap", "publish"}
Building == Finished \cup {"sidecar", "layer", "digest"}

(* What a trainer knows of its plan, of its stage and of what it moved      *)
(* aside, wherever it is.                                                   *)
Plan(p) ==
    /\ proc[p].n \in Nat \ {0}
    /\ program[p] = "lr1" => proc[p].n = N_LAYERS
    /\ program[p] = "rank" =>
          /\ proc[p].scope \subseteq 0 .. proc[p].n - 1
          /\ \A l \in LayerIds : PositiveFinite(proc[p].scales[l])

Built(p) ==
    /\ stage[p].there /\ stage[p].lineage = Lineage(p)
    /\ proc[p].n <= N_LAYERS /\ proc[p].layer \in 0 .. proc[p].n
    /\ Listed(proc[p].hashes, proc[p].layer, stage[p].layers)

TrainerOK(p) ==
    LET at == proc[p].at
    IN /\ at \in {"stage", "lineage"} \cup Building => Plan(p)
       /\ at \in {"gate", "stage", "lineage", "sidecar"} =>
             proc[p].layer = 0 /\ proc[p].hashes = <<>>
       /\ at = "lineage" => stage[p].there
       /\ at \in Building => Built(p)
       /\ at = "digest" =>
             proc[p].layer < proc[p].n /\ Loads(stage[p].layers[proc[p].layer])
       /\ at \in Finished =>
             proc[p].layer = proc[p].n /\ stage[p].manifest = TrainingManifest(p)

(* The stage that is about to become the output is a whole one, and so is   *)
(* the output that was moved aside.                                         *)
Published(d) == Whole(d) /\ IsSequence(d.manifest.hashes)

Kept ==
    /\ files.out.there => Published(files.out)
    /\ \A p \in Team : proc[p].at \in {"swap", "restore"} => Published(prev[p])
    /\ published =>
          \/ files.out.there
          \/ \E p \in Team : proc[p].at # "drop" /\ Published(prev[p])

TrainInv ==
    /\ Shapes
    /\ \A p \in Team : Shaped(p)
    /\ \A p \in Team : program[p] \in {"rank", "lr1"} => TrainerOK(p)
    /\ \A p \in Team : proc[p].at \in {"swap", "restore", "drop"} => program[p] = "rank"
    /\ Kept

NoRank == \A p \in Team : program[p] # "rank"

Lr1Output == files.out.there => "scales" \notin DOMAIN files.out.lineage

(* What an evaluator with the record s has read of the output directory.    *)
ReadsOutput(s, out) ==
    /\ s.at = "gate" => s.layer = 0 /\ s.hashes = <<>>
    /\ s.at = "hash" => s.layer = 0 /\ s.hashes = <<>> /\ s.n = N_LAYERS
    /\ s.at \in {"layer", "digest", "rename"} =>
          /\ out.there /\ s.read = out.manifest
          /\ s.n = N_LAYERS /\ s.layer \in 0 .. N_LAYERS
          /\ IsSequence(s.hashes) /\ Len(s.hashes) = s.layer
          /\ \A i \in 1 .. s.layer : s.hashes[i] = out.layers[i - 1]
    /\ s.at = "digest" => s.layer < N_LAYERS
    /\ s.at = "rename" =>
          /\ s.layer = N_LAYERS
          /\ SameDenominators(s.control, s.candidate)
          /\ s.control.ranking > 0

EvalInv ==
    NoRank =>
       /\ Lr1Output
       /\ \A p \in Team : program[p] = "eval" => ReadsOutput(proc[p], files.out)
       /\ ReportOfOneAttempt

-----------------------------------------------------------------------------
(* Weight files                                                             *)

LEMMA AppendSequence ==
    ASSUME NEW h, IsSequence(h), NEW x
    PROVE  /\ IsSequence(Append(h, x)) /\ Len(Append(h, x)) = Len(h) + 1
           /\ Len(h) \in Nat
           /\ \A i \in 1 .. Len(h) : Append(h, x)[i] = h[i]
           /\ Append(h, x)[Len(h) + 1] = x
<1>1. PICK S : h \in Seq(S) BY DEF IsSequence
<1> DEFINE T == S \cup {x}
<1>2. h \in Seq(T) /\ x \in T BY <1>1
<1> HIDE DEF T
<1>3. Append(h, x) \in Seq(T) BY <1>2
<1> QED BY <1>2, <1>3 DEF IsSequence

(* Whatever try_to_bytes serialises, load accepts.                          *)
LEMMA SavedLoads ==
    ASSUME NEW m, IsSequence(m.projection), Encodable(m), m.rht \in {0, 1}
    PROVE  Loads(try_to_bytes(m))
<1>0. PICK S : m.projection \in Seq(S) BY DEF IsSequence
<1> DEFINE pr == m.projection
           common == <<SLHW, VERSION_V2, m.d, m.seed, m.rht, 0>>
           sum == weights_checksum(common, pr)
           T == S \cup {SLHW, VERSION_V2, m.d, m.seed, m.rht, 0, sum}
           head == common \o <<sum>>
           b == head \o pr
<1>1. b = try_to_bytes(m) BY DEF try_to_bytes
<1>2. pr \in Seq(T) /\ common \in Seq(T) /\ <<sum>> \in Seq(T) BY <1>0
<1>3. /\ common[1] = 7 /\ common[2] = 2 /\ common[3] = m.d /\ common[5] = m.rht
      /\ common[6] = 0 /\ Len(common) = 6
  BY DEF SLHW, VERSION_V2
<1>4. Len(<<sum>>) = 1 /\ <<sum>>[1] = sum OBVIOUS
<1>5. sum = weights_checksum(common, pr) OBVIOUS
<1> HIDE DEF common, sum, T, pr
<1>6. /\ head \in Seq(T) /\ Len(head) = 7 /\ head[7] = sum
      /\ \A i \in 1 .. 6 : head[i] = common[i]
  <2>1. /\ head \in Seq(T) /\ Len(head) = Len(common) + Len(<<sum>>)
        /\ \A i \in 1 .. Len(common) + Len(<<sum>>) :
              head[i] = IF i <= Len(common) THEN common[i] ELSE <<sum>>[i - Len(common)]
    BY <1>2, ConcatProperties, Zenon
  <2> HIDE DEF head
  <2>2. head[7] = sum BY <1>3, <1>4, <2>1
  <2> QED BY <1>3, <1>4, <2>1, <2>2
<1> HIDE DEF head
<1>7. /\ b \in Seq(T) /\ Len(b) = 7 + Len(pr) /\ Len(pr) \in Nat
      /\ \A i \in 1 .. 7 : b[i] = head[i]
      /\ \A i \in 1 .. Len(pr) : b[7 + i] = pr[i]
  <2>1. /\ b \in Seq(T) /\ Len(b) = Len(head) + Len(pr)
        /\ \A i \in 1 .. Len(head) + Len(pr) :
              b[i] = IF i <= Len(head) THEN head[i] ELSE pr[i - Len(head)]
    BY <1>2, <1>6, ConcatProperties, Zenon
  <2> HIDE DEF b
  <2>2. Len(pr) \in Nat BY <1>2
  <2>3. \A i \in 1 .. Len(pr) : b[7 + i] = pr[i]
    <3> TAKE i \in 1 .. Len(pr)
    <3>1. 7 + i \in 1 .. 7 + Len(pr) /\ ~(7 + i <= 7) /\ (7 + i) - 7 = i BY <2>2
    <3> QED BY <1>6, <2>1, <3>1
  <2> QED BY <1>6, <2>1, <2>2, <2>3
<1> HIDE DEF b
<1>8. /\ b[1] = 7 /\ b[2] = 2 /\ b[3] = m.d /\ b[5] = m.rht /\ b[6] = 0 /\ b[7] = sum
  BY <1>3, <1>6, <1>7
<1>9. SubSeq(b, 1, 6) = common
  <2>1. Len(SubSeq(b, 1, 6)) = 6 /\ SubSeq(b, 1, 6) \in Seq(T) BY <1>7
  <2>2. \A i \in 1 .. 6 : SubSeq(b, 1, 6)[i] = common[i] BY <1>6, <1>7
  <2> QED BY <1>2, <1>3, <2>1, <2>2
<1>10. SubSeq(b, 8, Len(b)) = pr
  <2>1. Len(SubSeq(b, 8, Len(b))) = Len(pr) /\ SubSeq(b, 8, Len(b)) \in Seq(T) BY <1>7
  <2>2. \A i \in 1 .. Len(pr) : SubSeq(b, 8, Len(b))[i] = pr[i]
    <3> TAKE i \in 1 .. Len(pr)
    <3>1. i \in 1 .. Len(b) - 8 + 1 /\ 8 + i - 1 = 7 + i BY <1>7
    <3>2. SubSeq(b, 8, Len(b))[i] = b[8 + i - 1] BY <1>7, <3>1
    <3> QED BY <1>7, <3>1, <3>2
  <2> DEFINE q == SubSeq(b, 8, Len(b))
  <2>3. q \in Seq(T) /\ Len(q) = Len(pr) /\ \A i \in 1 .. Len(q) : q[i] = pr[i]
    BY <2>1, <2>2
  <2> HIDE DEF q
  <2>4. q = pr BY <1>2, <2>3, SeqEqual
  <2> QED BY <2>4 DEF q
<1>11. /\ m.d > ProjRows /\ Len(pr) = projection_len(m.d)
       /\ \A i \in 1 .. Len(pr) : pr[i] # NonFinite
  BY <1>2 DEF Encodable, pr
<1>12. \A i \in 8 .. Len(b) : b[i] # NonFinite
  <2> TAKE i \in 8 .. Len(b)
  <2>1. i - 7 \in 1 .. Len(pr) /\ i = 7 + (i - 7) BY <1>7
  <2>2. b[i] = pr[i - 7] BY <1>7, <2>1
  <2> QED BY <1>11, <2>1, <2>2
<1>13. HeaderOf(b) = 7 BY <1>8 DEF HeaderOf, VERSION_V1, WEIGHTS_HEADER
<1>14. Loads(b)
  <2>1. Len(b) >= 7 BY <1>7
  <2>2. b[7] = weights_checksum(SubSeq(b, 1, COMMON_HEADER),
                                SubSeq(b, WEIGHTS_HEADER + 1, Len(b)))
    <3>1. COMMON_HEADER = 6 /\ WEIGHTS_HEADER + 1 = 8
      BY DEF COMMON_HEADER, WEIGHTS_HEADER
    <3> QED BY <1>5, <1>8, <1>9, <1>10, <3>1
  <2>3. Len(b) = 7 + projection_len(b[3]) BY <1>7, <1>8, <1>11
  <2>4. \A i \in 7 + 1 .. Len(b) : b[i] # NonFinite BY <1>12
  <2>5. b[3] > ProjRows /\ b[5] \in {0, 1} /\ b[2] = 2 /\ b[1] = 7 /\ b[6] = 0
    BY <1>8, <1>11
  <2>6. Len(b) >= 6 BY <1>7
  <2> QED BY <1>13, <2>1, <2>2, <2>3, <2>4, <2>5, <2>6
          DEF Loads, SLHW, VERSION_V1, VERSION_V2, COMMON_HEADER
<1> QED BY <1>1, <1>14

(* Training moves a model that was loaded, and keeps what makes it a model. *)
LEMMA TrainedModel ==
    ASSUME NEW b \in Seq(Int), Loads(b), NEW rows, NEW scale
    PROVE  LET m == from_bytes(b)
               t == [m EXCEPT !.projection = train_ranking(rows, @, scale)]
           IN /\ IsSequence(m.projection) /\ m.rht \in {0, 1}
              /\ IsSequence(t.projection) /\ t.rht \in {0, 1}
<1> DEFINE m == from_bytes(b)
           h == HeaderOf(b)
           pr == SubSeq(b, h + 1, Len(b))
<1>1. h \in Nat /\ h <= Len(b)
  BY DEF Loads, HeaderOf, COMMON_HEADER, WEIGHTS_HEADER
<1>2. m.projection = pr /\ m.rht = b[5] BY DEF from_bytes
<1>3. m.rht \in {0, 1} BY <1>2 DEF Loads
<1> HIDE DEF h
<1>4. pr \in Seq(Int) BY <1>1
<1> HIDE DEF pr
<1>5. IsSequence(pr) BY <1>4 DEF IsSequence
<1>6. IsSequence(train_ranking(rows, pr, scale))
  <2>1. CASE rows = 0 BY <1>5, <2>1 DEF train_ranking
  <2>2. CASE rows # 0
    <3> DEFINE q == [i \in 1 .. Len(pr) |-> pr[i] + scale]
               S == {pr[i] + scale : i \in 1 .. Len(pr)}
    <3>1. Len(pr) \in Nat /\ DOMAIN pr = 1 .. Len(pr) BY <1>4
    <3>2. train_ranking(rows, pr, scale) = q BY <2>2, <3>1 DEF train_ranking
    <3>3. q \in [1 .. Len(pr) -> S] OBVIOUS
    <3> HIDE DEF q, S
    <3>4. q \in Seq(S) BY <3>1, <3>3
    <3> QED BY <3>2, <3>4 DEF IsSequence
  <2> QED BY <2>1, <2>2
<1> DEFINE t == [m EXCEPT !.projection = train_ranking(rows, @, scale)]
<1>7. t.projection = train_ranking(rows, pr, scale) /\ t.rht = m.rht
  BY <1>2 DEF from_bytes
<1> HIDE DEF t, m
<1>8. IsSequence(t.projection) BY <1>6, <1>7
<1> QED BY <1>2, <1>3, <1>5, <1>7, <1>8 DEF t, m

LEMMA TrainedLoads ==
    ASSUME NEW p \in Team, InitialFile(p) \in Seq(Int), Trainable(p), Encodable(Trained(p))
    PROVE  Loads(try_to_bytes(Trained(p)))
<1> DEFINE b == InitialFile(p)
           m == from_bytes(b)
           t == [m EXCEPT !.projection = train_ranking(Data(p).rows, @, Scale(p))]
<1>1. Loads(b) BY DEF Trainable
<1>2. Trained(p) = IF InScope(p) THEN t ELSE m BY DEF Trained
<1>3. /\ IsSequence(m.projection) /\ m.rht \in {0, 1}
      /\ IsSequence(t.projection) /\ t.rht \in {0, 1}
  BY <1>1, TrainedModel
<1> HIDE DEF m, t
<1>4. IsSequence(Trained(p).projection) /\ Trained(p).rht \in {0, 1}
  BY <1>2, <1>3
<1> QED BY <1>4, SavedLoads

-----------------------------------------------------------------------------
(* Steps of one process                                                     *)

(* Only p moves: its own record, stage and moved-aside directory.           *)
Frame(p) ==
    /\ UNCHANGED <<program, source>>
    /\ proc' = [q \in Team |-> proc'[q]] /\ stage' = [q \in Team |-> stage'[q]]
    /\ prev' = [q \in Team |-> prev'[q]]
    /\ \A q \in Team \ {p} :
          proc'[q] = proc[q] /\ stage'[q] = stage[q] /\ prev'[q] = prev[q]
    /\ Shaped(p)'

(* The record of p goes to another place and stays the same otherwise.      *)
Went(p, x) ==
    /\ proc' = [q \in Team |-> proc'[q]]
    /\ \A q \in Team \ {p} : proc'[q] = proc[q]
    /\ IsProc(proc'[p]) /\ proc'[p].at = x
    /\ proc'[p].n = proc[p].n /\ proc'[p].scope = proc[p].scope
    /\ proc'[p].scales = proc[p].scales /\ proc'[p].layer = proc[p].layer
    /\ proc'[p].hashes = proc[p].hashes /\ proc'[p].read = proc[p].read
    /\ proc'[p].control = proc[p].control /\ proc'[p].candidate = proc[p].candidate

LEMMA GoneTo ==
    ASSUME proc = [q \in Team |-> proc[q]], NEW p \in Team, IsProc(proc[p]), NEW x, GoTo(p, x)
    PROVE  Went(p, x)
<1>1. proc' = [q \in Team |-> IF q = p THEN [proc[p] EXCEPT !.at = x] ELSE proc[q]]
  BY DEF GoTo
<1>2. proc'[p] = [proc[p] EXCEPT !.at = x] BY <1>1
<1> DEFINE r == proc[p]
           s == proc'[p]
<1>3. r = [at |-> r.at, n |-> r.n, scope |-> r.scope, scales |-> r.scales, layer |-> r.layer,
           hashes |-> r.hashes, read |-> r.read, control |-> r.control, candidate |-> r.candidate]
  BY DEF IsProc
<1> HIDE DEF r
<1>4. s = [at |-> x, n |-> r.n, scope |-> r.scope, scales |-> r.scales, layer |-> r.layer,
           hashes |-> r.hashes, read |-> r.read, control |-> r.control, candidate |-> r.candidate]
  BY <1>2, <1>3 DEF r
<1> HIDE DEF s
<1>5. /\ s.at = x /\ s.n = r.n /\ s.scope = r.scope /\ s.scales = r.scales
      /\ s.layer = r.layer /\ s.hashes = r.hashes /\ s.read = r.read
      /\ s.control = r.control /\ s.candidate = r.candidate
  BY <1>4
<1>6. IsProc(s) BY <1>4, <1>5 DEF IsProc
<1>7. \A q \in Team \ {p} : proc'[q] = proc[q] BY <1>1
<1>8. proc' = [q \in Team |-> proc'[q]] BY <1>1
<1> QED BY <1>5, <1>6, <1>7, <1>8 DEF Went, r, s

(* A step that leaves every directory but the stage of p alone.             *)
LEMMA StagedFrame ==
    ASSUME TrainInv, NEW p \in Team,
           UNCHANGED <<program, source, prev>>,
           proc' = [q \in Team |-> proc'[q]], \A q \in Team \ {p} : proc'[q] = proc[q],
           IsProc(proc'[p]),
           \/ UNCHANGED stage
           \/ \E d : IsDirectory(d) /\ stage' = [stage EXCEPT ![p] = d]
    PROVE  Frame(p)
<1>1. /\ stage = [q \in Team |-> stage[q]] /\ prev = [q \in Team |-> prev[q]]
      /\ IsDirectory(stage[p]) /\ IsDirectory(prev[p])
  BY DEF TrainInv, Shapes, Shaped
<1>2. /\ stage' = [q \in Team |-> stage'[q]] /\ IsDirectory(stage'[p])
      /\ \A q \in Team \ {p} : stage'[q] = stage[q]
  <2>1. CASE UNCHANGED stage BY <1>1, <2>1
  <2>2. ASSUME NEW d, IsDirectory(d), stage' = [stage EXCEPT ![p] = d]
        PROVE  /\ stage' = [q \in Team |-> stage'[q]] /\ IsDirectory(stage'[p])
               /\ \A q \in Team \ {p} : stage'[q] = stage[q]
    <3>1. stage' = [q \in Team |-> IF q = p THEN d ELSE stage[q]] BY <1>1, <2>2
    <3> QED BY <2>2, <3>1
  <2> QED BY <2>1, <2>2
<1>3. prev' = prev OBVIOUS
<1>4. Shaped(p)' BY <1>1, <1>2, <1>3 DEF Shaped
<1> QED BY <1>1, <1>2, <1>3, <1>4 DEF Frame

LEMMA LocalFrame ==
    ASSUME TrainInv, NEW p \in Team, NEW x, GoTo(p, x),
           UNCHANGED <<program, source, prev>>,
           \/ UNCHANGED stage
           \/ \E d : IsDirectory(d) /\ stage' = [stage EXCEPT ![p] = d]
    PROVE  Frame(p) /\ Went(p, x)
<1>1. proc = [q \in Team |-> proc[q]] /\ IsProc(proc[p])
  BY DEF TrainInv, Shapes, Shaped
<1>2. Went(p, x) BY <1>1, GoneTo
<1>3. /\ proc' = [q \in Team |-> proc'[q]] /\ \A q \in Team \ {p} : proc'[q] = proc[q]
      /\ IsProc(proc'[p])
  BY <1>2 DEF Went
<1> QED BY <1>2, <1>3, StagedFrame

(* What another process knows stays true.                                   *)
LEMMA OthersKeep ==
    ASSUME NEW p \in Team, Frame(p), NEW q \in Team \ {p},
           program[q] \in {"rank", "lr1"} => TrainerOK(q)
    PROVE  program'[q] \in {"rank", "lr1"} => TrainerOK(q)'
<1>1. /\ program' = program /\ source' = source
      /\ proc'[q] = proc[q] /\ stage'[q] = stage[q] /\ prev'[q] = prev[q]
  BY DEF Frame
<1>2. Plan(q)' = Plan(q) BY <1>1 DEF Plan
<1>3. Lineage(q)' = Lineage(q) BY <1>1 DEF Lineage, InitialHashes
<1>4. TrainingManifest(q)' = TrainingManifest(q)
  BY <1>1 DEF TrainingManifest, InitialHashes
<1>5. Built(q)' = Built(q) BY <1>1, <1>3 DEF Built
<1> QED BY <1>1, <1>2, <1>4, <1>5 DEF TrainerOK

(* What a step of p has to show.                                            *)
LEMMA FrameKeeps ==
    ASSUME TrainInv, NEW p \in Team, Frame(p),
           IsFiles(files'), IsDirectory(files'.out), published' \in BOOLEAN,
           program[p] \in {"rank", "lr1"} => TrainerOK(p)',
           proc'[p].at \in {"swap", "restore", "drop"} => program[p] = "rank",
           Kept'
    PROVE  TrainInv'
<1>1. /\ program' = program /\ source' = source
      /\ \A q \in Team \ {p} :
            proc'[q] = proc[q] /\ stage'[q] = stage[q] /\ prev'[q] = prev[q]
      /\ Shaped(p)'
  BY DEF Frame
<1>2. Shapes' BY <1>1 DEF TrainInv, Shapes, Frame
<1>3. \A q \in Team : Shaped(q)'
  <2> TAKE q \in Team
  <2>1. CASE q = p BY <1>1, <2>1
  <2>2. CASE q # p
    <3>1. Shaped(q) BY DEF TrainInv
    <3> QED BY <1>1, <2>2, <3>1 DEF Shaped
  <2> QED BY <2>1, <2>2
<1>4. \A q \in Team : program'[q] \in {"rank", "lr1"} => TrainerOK(q)'
  <2> TAKE q \in Team
  <2>1. CASE q = p BY <1>1, <2>1
  <2>2. CASE q # p
    <3>1. program[q] \in {"rank", "lr1"} => TrainerOK(q) BY DEF TrainInv
    <3> QED BY <2>2, <3>1, OthersKeep
  <2> QED BY <2>1, <2>2
<1>5. \A q \in Team : proc'[q].at \in {"swap", "restore", "drop"} => program'[q] = "rank"
  BY <1>1 DEF TrainInv
<1> QED BY <1>2, <1>3, <1>4, <1>5 DEF TrainInv

(* Steps that do not touch the output or what was moved aside.              *)
LEMMA StepKeeps ==
    ASSUME TrainInv, NEW p \in Team, Frame(p),
           IsFiles(files'), files'.out = files.out, UNCHANGED <<published, prev>>,
           proc'[p].at \in {"swap", "restore", "drop"} =>
              proc[p].at = "swap" /\ proc'[p].at = "restore",
           program[p] \in {"rank", "lr1"} => TrainerOK(p)'
    PROVE  TrainInv'
<1>1. \A q \in Team \ {p} : proc'[q] = proc[q] BY DEF Frame
<1>2. Kept'
  <2>1. files'.out.there => Published(files'.out) BY DEF TrainInv, Kept
  <2>2. \A q \in Team : proc'[q].at \in {"swap", "restore"} => Published(prev'[q])
    BY <1>1 DEF TrainInv, Kept
  <2>3. published' =>
           \/ files'.out.there
           \/ \E q \in Team : proc'[q].at # "drop" /\ Published(prev'[q])
    BY <1>1 DEF TrainInv, Kept
  <2> QED BY <2>1, <2>2, <2>3 DEF Kept
<1>3. proc'[p].at \in {"swap", "restore", "drop"} => program[p] = "rank"
  BY DEF TrainInv
<1>4. IsDirectory(files'.out) /\ published' \in BOOLEAN BY DEF TrainInv, Shapes
<1> QED BY <1>2, <1>3, <1>4, FrameKeeps

Away == {"done", "exited", "cleanup"}

(* A process that gives up or is done knows nothing of its stage any more.  *)
LEMMA AwayKeeps ==
    ASSUME TrainInv, NEW p \in Team, Frame(p), proc'[p].at \in Away \cup {"restore"},
           proc'[p].at = "restore" => proc[p].at = "swap",
           IsFiles(files'), files'.out = files.out, UNCHANGED <<published, prev>>
    PROVE  TrainInv'
<1>1. TrainerOK(p)' BY DEF TrainerOK, Away, Building, Finished
<1> QED BY <1>1, StepKeeps DEF Away

-----------------------------------------------------------------------------
(* What the gates let through                                               *)

LEMMA ScopeWithin ==
    ASSUME NEW c \in RankCommands, ValidRank(c.args)
    PROVE  /\ c.args.n_layers \in Nat \ {0}
           /\ parse_layer_set(c.args.layers, c.args.n_layers) \subseteq 0 .. c.args.n_layers - 1
<1> DEFINE spec == c.args.layers
           n == c.args.n_layers
<1>1. n \in Nat /\ (spec[1] = "range" => spec[2] \in Nat /\ spec[3] \in Nat)
  BY ProgramsAssumption
<1>2. parse_layer_set(spec, n) # {} BY DEF ValidRank
<1> HIDE DEF spec, n
<1>3. parse_layer_set(spec, n) \subseteq 0 .. n - 1
  <2>1. CASE spec = <<"all">> BY <2>1 DEF parse_layer_set
  <2>2. CASE spec = <<"none">> BY <2>2 DEF parse_layer_set
  <2>3. CASE spec # <<"all">> /\ spec # <<"none">> /\ spec[1] = "range"
    <3>1. parse_layer_set(spec, n) =
             IF spec[2] <= spec[3] /\ spec[3] < n THEN spec[2] .. spec[3] ELSE {}
      BY <2>3 DEF parse_layer_set
    <3> QED BY <1>1, <2>3, <3>1
  <2>4. CASE spec # <<"all">> /\ spec # <<"none">> /\ spec[1] # "range"
    BY <2>4 DEF parse_layer_set
  <2> QED BY <2>1, <2>2, <2>3, <2>4
<1>4. n # 0 BY <1>1, <1>2, <1>3
<1> QED BY <1>1, <1>3, <1>4 DEF spec, n

LEMMA ScalesPositive ==
    ASSUME NEW doc, NEW sha, NEW eps, load_normalisation(doc, sha, eps), NEW l \in LayerIds
    PROVE  PositiveFinite(by_layer(doc)[l])
<1>1. l \in {doc.layers[i].layer : i \in DOMAIN doc.layers}
  BY DEF load_normalisation, LayerIds
<1>2. \E i \in DOMAIN doc.layers : doc.layers[i].layer = l BY <1>1
<1> DEFINE k == CHOOSE i \in DOMAIN doc.layers : doc.layers[i].layer = l
<1>3. k \in DOMAIN doc.layers BY <1>2
<1>4. by_layer(doc)[l] = doc.layers[k].scale BY DEF by_layer, LayerIds
<1> HIDE DEF k
<1>5. RecordOk(doc.layers[k], eps) BY <1>3 DEF load_normalisation
<1> QED BY <1>4, <1>5 DEF RecordOk

-----------------------------------------------------------------------------
(* Gates and failures                                                       *)

LEMMA FilesKeep ==
    ASSUME IsFiles(files), NEW x
    PROVE  /\ LET f == [files EXCEPT !.evidence = x] IN IsFiles(f) /\ f.out = files.out
           /\ LET f == [files EXCEPT !.validation = x] IN IsFiles(f) /\ f.out = files.out
           /\ LET f == [files EXCEPT !.startup = x] IN IsFiles(f) /\ f.out = files.out
           /\ LET f == [files EXCEPT !.report = x] IN IsFiles(f) /\ f.out = files.out
  BY DEF IsFiles

LEMMA DirectoryKeeps ==
    ASSUME NEW d, IsDirectory(d), NEW x, NEW l
    PROVE  /\ IsDirectory([d EXCEPT !.lineage = x]) /\ IsDirectory([d EXCEPT !.manifest = x])
           /\ IsDirectory([d EXCEPT !.layers[l] = x])
           /\ IsDirectory(EmptyDir) /\ IsDirectory(AbsentDir)
           /\ EmptyDir.there = TRUE /\ AbsentDir.there = FALSE
<1>1. /\ d = [there |-> d.there, lineage |-> d.lineage, manifest |-> d.manifest,
              layers |-> d.layers]
      /\ d.there \in BOOLEAN /\ d.layers = [m \in LayerIds |-> d.layers[m]]
  BY DEF IsDirectory
<1>2. IsDirectory([d EXCEPT !.lineage = x]) BY <1>1 DEF IsDirectory
<1>3. IsDirectory([d EXCEPT !.manifest = x]) BY <1>1 DEF IsDirectory
<1>4. IsDirectory([d EXCEPT !.layers[l] = x])
  <2> DEFINE e == [d.layers EXCEPT ![l] = x]
             f == [d EXCEPT !.layers[l] = x]
  <2>1. e = [m \in LayerIds |-> e[m]] BY <1>1
  <2>2. f = [there |-> d.there, lineage |-> d.lineage, manifest |-> d.manifest, layers |-> e]
    BY <1>1
  <2> HIDE DEF e, f
  <2>3. IsDirectory(f) BY <1>1, <2>1, <2>2 DEF IsDirectory
  <2> QED BY <2>3 DEF f
<1>5. IsDirectory(EmptyDir) /\ EmptyDir.there = TRUE BY DEF IsDirectory, EmptyDir
<1>6. IsDirectory(AbsentDir) /\ AbsentDir.there = FALSE
  <2>1. AbsentDir = [there |-> FALSE, lineage |-> NoDoc, manifest |-> NoDoc,
                     layers |-> [m \in LayerIds |-> NoFile]]
    <3> DEFINE ls == [m \in LayerIds |-> NoFile]
    <3>1. EmptyDir = [there |-> TRUE, lineage |-> NoDoc, manifest |-> NoDoc, layers |-> ls]
      BY DEF EmptyDir
    <3> HIDE DEF ls
    <3>2. ASSUME NEW b
          PROVE  [EmptyDir EXCEPT !.there = b]
                    = [there |-> b, lineage |-> NoDoc, manifest |-> NoDoc, layers |-> ls]
      BY <3>1
    <3> QED BY <3>2, Zenon DEF ls, AbsentDir
  <2> QED BY <2>1 DEF IsDirectory
<1> QED BY <1>2, <1>3, <1>4, <1>5, <1>6

LEMMA Leaves ==
    ASSUME TrainInv, NEW p \in Team, NEW x \in Away, GoTo(p, x),
           UNCHANGED <<program, source, prev, published>>,
           \/ UNCHANGED stage
           \/ \E d : IsDirectory(d) /\ stage' = [stage EXCEPT ![p] = d],
           IsFiles(files'), files'.out = files.out
    PROVE  TrainInv'
<1>1. Frame(p) /\ Went(p, x) BY LocalFrame
<1>2. proc'[p].at = x BY <1>1 DEF Went
<1> QED BY <1>1, <1>2, AwayKeeps DEF Away

(* A local step that leaves.                                                *)
LEMMA LeavesLocally ==
    ASSUME TrainInv, NEW p \in Team, NEW x \in Away, GoTo(p, x), LocalStep
    PROVE  TrainInv'
<1>1. IsFiles(files) BY DEF TrainInv, Shapes
<1>2. UNCHANGED <<program, source, prev, published>> /\ UNCHANGED stage /\ files' = files
  BY DEF LocalStep
<1>3. IsFiles(files') /\ files'.out = files.out BY <1>1, <1>2
<1> QED BY <1>2, <1>3, Leaves

(* A local step of the evaluator, or of a process that has no program.      *)
LEMMA QuietKeeps ==
    ASSUME TrainInv, NEW p \in Team, program[p] = "eval", LocalStep,
           proc' = [q \in Team |-> proc'[q]], \A q \in Team \ {p} : proc'[q] = proc[q],
           IsProc(proc'[p]), proc'[p].at \notin {"swap", "restore", "drop"}
    PROVE  TrainInv'
<1>1. IsFiles(files) BY DEF TrainInv, Shapes
<1>2. UNCHANGED <<program, source, prev, published>> /\ UNCHANGED stage /\ files' = files
  BY DEF LocalStep
<1>3. Frame(p) BY <1>2, StagedFrame
<1>4. IsFiles(files') /\ files'.out = files.out BY <1>1, <1>2
<1>5. UNCHANGED <<published, prev>> BY <1>2
<1> QED BY <1>3, <1>4, <1>5, StepKeeps

LEMMA ProcOf ==
    ASSUME TrainInv, NEW p \in Team
    PROVE  /\ proc = [q \in Team |-> proc[q]]
           /\ LET r == proc[p] IN
              r = [at |-> r.at, n |-> r.n, scope |-> r.scope, scales |-> r.scales,
                   layer |-> r.layer, hashes |-> r.hashes, read |-> r.read,
                   control |-> r.control, candidate |-> r.candidate]
  BY DEF TrainInv, Shapes, Shaped, IsProc

(* A trainer that passes its gate with a plan.                              *)
Passes(p, n, scope, scales) ==
    proc' = [q \in Team |->
               IF q = p THEN [proc[p] EXCEPT !.at = "stage", !.n = n,
                                             !.scope = scope, !.scales = scales]
               ELSE proc[q]]

PlanOK(p, n, scope, scales) ==
    /\ n \in Nat \ {0} /\ (program[p] = "lr1" => n = N_LAYERS)
    /\ program[p] = "rank" => /\ scope \subseteq 0 .. n - 1
                              /\ \A l \in LayerIds : PositiveFinite(scales[l])

LEMMA PassKeeps ==
    ASSUME TrainInv, NEW p \in Team, LocalStep, proc[p].at = "gate",
           program[p] \in {"rank", "lr1"}, NEW n, NEW scope, NEW scales,
           Passes(p, n, scope, scales), PlanOK(p, n, scope, scales)
    PROVE  TrainInv'
<1> DEFINE r == proc[p]
           s == proc'[p]
<1>1. r = [at |-> r.at, n |-> r.n, scope |-> r.scope, scales |-> r.scales,
           layer |-> r.layer, hashes |-> r.hashes, read |-> r.read,
           control |-> r.control, candidate |-> r.candidate]
  BY ProcOf
<1> HIDE DEF r
<1>2. s = [at |-> "stage", n |-> n, scope |-> scope, scales |-> scales,
           layer |-> r.layer, hashes |-> r.hashes, read |-> r.read,
           control |-> r.control, candidate |-> r.candidate]
  BY <1>1 DEF r, Passes
<1>3. s.at = "stage" /\ s.n = n /\ s.scope = scope /\ s.scales = scales
      /\ s.layer = r.layer /\ s.hashes = r.hashes
  BY <1>2
<1>4. IsProc(s) BY <1>2 DEF IsProc
<1>5. r.layer = 0 /\ r.hashes = <<>> BY DEF TrainInv, TrainerOK, r
<1>6. proc' = [q \in Team |-> proc'[q]] /\ \A q \in Team \ {p} : proc'[q] = proc[q]
  BY DEF Passes
<1>7. UNCHANGED <<program, source, prev, published>> /\ UNCHANGED stage /\ files' = files
  BY DEF LocalStep
<1> HIDE DEF s
<1>8. Plan(p)' BY <1>3, <1>7 DEF Plan, PlanOK, s
<1>9. TrainerOK(p)'
  BY <1>3, <1>5, <1>8 DEF TrainerOK, Building, Finished, s
<1>10. Frame(p) BY <1>4, <1>6, <1>7, StagedFrame DEF s
<1>11. IsFiles(files') /\ files'.out = files.out BY <1>7 DEF TrainInv, Shapes
<1>12. proc'[p].at \notin {"swap", "restore", "drop"} BY <1>3 DEF s
<1> QED BY <1>7, <1>9, <1>10, <1>11, <1>12, StepKeeps

LEMMA GateKeeps ==
    ASSUME TrainInv, NEW p \in Team,
           \/ \E c \in RankCommands : RankGate(p, c) \/ verify_only(p, c)
           \/ \E contract \in Contracts : Lr1Gate(p, contract)
    PROVE  TrainInv'
<1>1. ASSUME GoTo(p, "exited") \/ GoTo(p, "done"), LocalStep PROVE TrainInv'
  BY <1>1, LeavesLocally DEF Away
<1>2. ASSUME NEW c \in RankCommands, RankGate(p, c) PROVE TrainInv'
  <2>1. CASE Exit(p) BY <1>1, <1>2, <2>1 DEF RankGate, Exit
  <2>2. CASE ~Exit(p)
    <3> DEFINE n == c.args.n_layers
               scope == parse_layer_set(c.args.layers, c.args.n_layers)
               scales == by_layer(c.norm)
    <3>1. /\ program[p] = "rank" /\ proc[p].at = "gate" /\ LocalStep
          /\ ValidRank(c.args) /\ load_normalisation(c.norm, c.args.norm_sha, Epsilon)
          /\ proc' = [proc EXCEPT ![p].at = "stage", ![p].n = n,
                                  ![p].scope = scope, ![p].scales = scales]
      BY <1>2, <2>2 DEF RankGate, At
    <3>2. n \in Nat \ {0} /\ scope \subseteq 0 .. n - 1 BY <3>1, ScopeWithin
    <3>3. \A l \in LayerIds : PositiveFinite(scales[l]) BY <3>1, ScalesPositive
    <3> HIDE DEF n, scope, scales
    <3>4. Passes(p, n, scope, scales) BY <3>1, ProcOf DEF Passes
    <3>5. PlanOK(p, n, scope, scales) BY <3>1, <3>2, <3>3 DEF PlanOK
    <3> QED BY <3>1, <3>4, <3>5, PassKeeps
  <2> QED BY <2>1, <2>2
<1>3. ASSUME NEW c \in RankCommands, verify_only(p, c) PROVE TrainInv'
  BY <1>1, <1>3 DEF verify_only
<1>4. ASSUME NEW contract \in Contracts, Lr1Gate(p, contract) PROVE TrainInv'
  <2>1. CASE Exit(p) BY <1>1, <1>4, <2>1 DEF Lr1Gate, Exit
  <2>2. CASE ~Exit(p)
    <3>1. /\ program[p] = "lr1" /\ proc[p].at = "gate" /\ LocalStep
          /\ proc' = [proc EXCEPT ![p].at = "stage", ![p].n = N_LAYERS, ![p].scope = LayerIds]
      BY <1>4, <2>2 DEF Lr1Gate, At
    <3> DEFINE r == proc[p]
    <3>2. r = [at |-> r.at, n |-> r.n, scope |-> r.scope, scales |-> r.scales,
               layer |-> r.layer, hashes |-> r.hashes, read |-> r.read,
               control |-> r.control, candidate |-> r.candidate]
      BY ProcOf
    <3> HIDE DEF r
    <3>3. [r EXCEPT !.at = "stage", !.n = N_LAYERS, !.scope = LayerIds]
          = [r EXCEPT !.at = "stage", !.n = N_LAYERS, !.scope = LayerIds, !.scales = r.scales]
      BY <3>2
    <3>4. Passes(p, N_LAYERS, LayerIds, r.scales)
      BY <3>1, <3>3, ProcOf DEF r, Passes
    <3>5. PlanOK(p, N_LAYERS, LayerIds, r.scales) BY <3>1, GatesAssumption DEF PlanOK
    <3> QED BY <3>1, <3>4, <3>5, PassKeeps
  <2> QED BY <2>1, <2>2
<1> QED BY <1>2, <1>3, <1>4

-----------------------------------------------------------------------------
(* Building the stage                                                       *)

(* A step of a trainer within its stage and the files beside the output.    *)
LEMMA BuildKeeps ==
    ASSUME TrainInv, NEW p \in Team, NEW x, GoTo(p, x), x \notin {"swap", "restore", "drop"},
           UNCHANGED <<program, source, prev, published>>,
           \/ UNCHANGED stage
           \/ \E d : IsDirectory(d) /\ stage' = [stage EXCEPT ![p] = d],
           IsFiles(files'), files'.out = files.out,
           Went(p, x) => TrainerOK(p)'
    PROVE  TrainInv'
<1>1. Frame(p) /\ Went(p, x) BY LocalFrame
<1>2. proc'[p].at = x BY <1>1 DEF Went
<1>3. TrainerOK(p)' BY <1>1
<1> QED BY <1>1, <1>2, <1>3, StepKeeps

LEMMA StageAt ==
    ASSUME TrainInv, NEW p \in Team, NEW d, stage' = [stage EXCEPT ![p] = d]
    PROVE  stage'[p] = d
  BY DEF TrainInv, Shapes

LEMMA CreateStageKeeps ==
    ASSUME TrainInv, NEW p \in Team, CreateStage(p)
    PROVE  TrainInv'
<1>1. /\ UNCHANGED <<program, source, prev, published>> /\ files' = files
      /\ program[p] \in {"rank", "lr1"} /\ proc[p].at = "stage"
  BY DEF CreateStage, StageStep, AtTrainer
<1>2. IsFiles(files') /\ files'.out = files.out BY <1>1 DEF TrainInv, Shapes
<1>3. TrainerOK(p) /\ IsDirectory(stage[p]) BY <1>1 DEF TrainInv, Shaped
<1>4. IsDirectory(EmptyDir) /\ IsDirectory(AbsentDir) /\ EmptyDir.there = TRUE
  BY <1>3, DirectoryKeeps
<1>5. ASSUME Went(p, "lineage"), stage'[p].there PROVE TrainerOK(p)'
  <2>1. Plan(p)' BY <1>1, <1>3, <1>5 DEF TrainerOK, Plan, Went
  <2> QED BY <1>1, <1>3, <1>5, <2>1 DEF TrainerOK, Went, Building, Finished
<1>6. CASE stage' = [stage EXCEPT ![p] = EmptyDir] /\ GoTo(p, "lineage")
  <2>1. stage'[p].there BY <1>4, <1>6, StageAt
  <2> QED BY <1>1, <1>2, <1>4, <1>5, <1>6, <2>1, BuildKeeps
<1>7. CASE stage[p].there /\ UNCHANGED stage /\ GoTo(p, "lineage")
  BY <1>1, <1>2, <1>5, <1>7, BuildKeeps
<1>8. CASE stage' \in {stage, [stage EXCEPT ![p] = AbsentDir]} /\ Exit(p)
  BY <1>1, <1>2, <1>4, <1>8, Leaves DEF Away, Exit
<1> QED BY <1>6, <1>7, <1>8 DEF CreateStage

LEMMA WriteLineageKeeps ==
    ASSUME TrainInv, NEW p \in Team, WriteLineage(p)
    PROVE  TrainInv'
<1>1. /\ UNCHANGED <<program, source, prev, published>> /\ files' = files
      /\ program[p] \in {"rank", "lr1"} /\ proc[p].at = "lineage"
  BY DEF WriteLineage, StageStep, AtTrainer
<1>2. IsFiles(files') /\ files'.out = files.out BY <1>1 DEF TrainInv, Shapes
<1>3. TrainerOK(p) /\ IsDirectory(stage[p]) BY <1>1 DEF TrainInv, Shaped
<1> DEFINE d == [stage[p] EXCEPT !.lineage = Lineage(p)]
           c == [stage[p] EXCEPT !.lineage = CutDoc]
<1>4. IsDirectory(d) /\ IsDirectory(c) BY <1>3, DirectoryKeeps
<1>5. stage = [q \in Team |-> stage[q]] BY DEF TrainInv, Shapes
<1>6. CASE /\ program[p] = "rank" => proc[p].n <= N_LAYERS
           /\ stage' = [stage EXCEPT ![p].lineage = Lineage(p)]
           /\ GoTo(p, "sidecar")
  <2>1. stage' = [stage EXCEPT ![p] = d] BY <1>5, <1>6
  <2>2. stage'[p] = d BY <2>1, StageAt
  <2>3. d.there /\ d.lineage = Lineage(p)
    BY <1>1, <1>3 DEF TrainerOK, IsDirectory
  <2> HIDE DEF d
  <2>4. ASSUME Went(p, "sidecar") PROVE TrainerOK(p)'
    <3>1. Plan(p)' BY <1>1, <1>3, <2>4 DEF TrainerOK, Plan, Went
    <3>2. Lineage(p)' = Lineage(p) BY <1>1, <2>4 DEF Lineage, InitialHashes, Went
    <3>3. proc'[p].layer = 0 /\ proc'[p].hashes = <<>> /\ proc'[p].at = "sidecar"
      BY <1>1, <1>3, <2>4 DEF TrainerOK, Went
    <3>4. proc'[p].n <= N_LAYERS /\ proc'[p].n \in Nat
      BY <1>1, <1>3, <1>6, <2>4, GatesAssumption DEF TrainerOK, Plan, Went
    <3>5. Listed(<<>>, 0, stage'[p].layers)
      <4>1. <<>> \in Seq({}) OBVIOUS
      <4> QED BY <4>1 DEF Listed, IsSequence
    <3>6. Built(p)' BY <2>2, <2>3, <3>2, <3>3, <3>4, <3>5 DEF Built
    <3> QED BY <3>1, <3>3, <3>6 DEF TrainerOK, Building, Finished
  <2> QED BY <1>1, <1>2, <1>4, <1>6, <2>1, <2>4, BuildKeeps
<1>7. CASE /\ \/ UNCHANGED stage
              \/ stage' = [stage EXCEPT ![p].lineage = CutDoc]
           /\ Exit(p)
  <2>1. UNCHANGED stage \/ stage' = [stage EXCEPT ![p] = c] BY <1>5, <1>7
  <2> HIDE DEF c
  <2> QED BY <1>1, <1>2, <1>4, <1>7, <2>1, Leaves DEF Away, Exit
<1> QED BY <1>6, <1>7 DEF WriteLineage

(* Built, planned and listed things stay so while the process only moves.   *)
LEMMA BuiltStays ==
    ASSUME NEW p \in Team, UNCHANGED <<program, source, stage>>, NEW x, Went(p, x)
    PROVE  /\ Plan(p) => Plan(p)'
           /\ Built(p) => Built(p)'
           /\ TrainingManifest(p)' = TrainingManifest(p)
<1>1. Lineage(p)' = Lineage(p) BY DEF Lineage, InitialHashes, Went
<1>2. TrainingManifest(p)' = TrainingManifest(p)
  BY DEF TrainingManifest, InitialHashes, Went
<1>3. Plan(p) => Plan(p)' BY DEF Plan, Went
<1>4. Built(p) => Built(p)' BY <1>1 DEF Built, Went
<1> QED BY <1>2, <1>3, <1>4

LEMMA WriteSidecarKeeps ==
    ASSUME TrainInv, NEW p \in Team, WriteSidecar(p)
    PROVE  TrainInv'
<1>1. /\ UNCHANGED <<program, source, stage, prev, published>>
      /\ program[p] \in {"rank", "lr1"} /\ proc[p].at = "sidecar"
  BY DEF WriteSidecar, DiskStep, AtTrainer
<1>2. IsFiles(files') /\ files'.out = files.out
  <2>1. IsFiles(files) BY DEF TrainInv, Shapes
  <2>2. PICK x : files' = files \/ files' = [files EXCEPT !.startup = x]
    BY DEF WriteSidecar
  <2> QED BY <2>1, <2>2, FilesKeep
<1>3. TrainerOK(p) BY <1>1 DEF TrainInv
<1>4. ASSUME Went(p, "layer") PROVE TrainerOK(p)'
  BY <1>1, <1>3, <1>4, BuiltStays DEF TrainerOK, Went, Building, Finished
<1>5. CASE GoTo(p, "layer") BY <1>1, <1>2, <1>4, <1>5, BuildKeeps
<1>6. CASE Exit(p) BY <1>1, <1>2, <1>6, Leaves DEF Away, Exit
<1> QED BY <1>5, <1>6 DEF WriteSidecar

-----------------------------------------------------------------------------
(* One layer after the other                                                *)

LEMMA FailLayerAway ==
    ASSUME NEW p PROVE FailLayer(p) \in Away
  BY DEF FailLayer, Away

LEMMA RefuseKeeps ==
    ASSUME TrainInv, NEW p \in Team, RefuseLayer(p) \/ Diverge(p) \/ Stop(p)
    PROVE  TrainInv'
<1>1. LocalStep /\ (GoTo(p, "exited") \/ GoTo(p, FailLayer(p)))
  BY DEF RefuseLayer, Diverge, Stop, Exit
<1> QED BY <1>1, FailLayerAway, LeavesLocally DEF Away

(* What a trainer at a layer knows.                                         *)
LEMMA AtALayer ==
    ASSUME TrainInv, NEW p \in Team, AtLayer(p)
    PROVE  /\ program[p] \in {"rank", "lr1"} /\ proc[p].at = "layer"
           /\ Plan(p) /\ Built(p) /\ proc[p].layer < proc[p].n
           /\ proc[p].layer \in LayerIds /\ proc[p].layer \in Nat
           /\ InitialFile(p) \in Seq(Int) /\ IsDirectory(stage[p])
<1>1. program[p] \in {"rank", "lr1"} /\ proc[p].at = "layer" /\ proc[p].layer < proc[p].n
  BY DEF AtLayer, AtTrainer
<1>2. Plan(p) /\ Built(p) BY <1>1 DEF TrainInv, TrainerOK, Building
<1>3. proc[p].layer \in LayerIds /\ proc[p].layer \in Nat
  BY <1>1, <1>2, GatesAssumption DEF Plan, Built, LayerIds
<1>4. InitialFile(p) \in Seq(Int) BY <1>3 DEF InitialFile, TrainInv, Shapes, Reads
<1>5. IsDirectory(stage[p]) BY DEF TrainInv, Shaped
<1> QED BY <1>1, <1>2, <1>3, <1>4, <1>5

LEMMA SaveKeeps ==
    ASSUME TrainInv, NEW p \in Team, SaveLayer(p)
    PROVE  TrainInv'
<1> DEFINE k == proc[p].layer
           file == try_to_bytes(Trained(p))
           d == [stage[p] EXCEPT !.layers[k] = file]
<1>1. /\ AtLayer(p) /\ Trainable(p) /\ Encodable(Trained(p))
      /\ UNCHANGED <<program, source, prev, published>> /\ files' = files
      /\ GoTo(p, "digest") /\ stage' = [stage EXCEPT ![p].layers[k] = file]
  BY DEF SaveLayer, StageStep, PutLayer
<1>2. /\ program[p] \in {"rank", "lr1"} /\ proc[p].at = "layer"
      /\ Plan(p) /\ Built(p) /\ k < proc[p].n /\ k \in LayerIds /\ k \in Nat
      /\ InitialFile(p) \in Seq(Int) /\ IsDirectory(stage[p])
  BY <1>1, AtALayer
<1>3. Loads(file) BY <1>1, <1>2, TrainedLoads
<1>4. IsFiles(files') /\ files'.out = files.out BY <1>1 DEF TrainInv, Shapes
<1>5. IsDirectory(d) BY <1>2, DirectoryKeeps
<1> HIDE DEF file
<1>6. stage' = [stage EXCEPT ![p] = d] BY <1>1 DEF TrainInv, Shapes
<1>7. stage'[p] = d BY <1>6, StageAt
<1>8. /\ d.there = stage[p].there /\ d.lineage = stage[p].lineage
      /\ d.layers[k] = file
      /\ \A l \in LayerIds : l # k => d.layers[l] = stage[p].layers[l]
  BY <1>2 DEF IsDirectory
<1> HIDE DEF d
<1>9. ASSUME Went(p, "digest") PROVE TrainerOK(p)'
  <2>1. Plan(p)' BY <1>1, <1>2, <1>9 DEF Plan, Went
  <2>2. Lineage(p)' = Lineage(p) BY <1>1, <1>9 DEF Lineage, InitialHashes, Went
  <2>3. Listed(proc[p].hashes, k, d.layers)
    <3>1. Listed(proc[p].hashes, k, stage[p].layers) BY <1>2 DEF Built
    <3>2. \A i \in 1 .. k : i - 1 \in LayerIds /\ i - 1 # k
      BY <1>2, GatesAssumption DEF LayerIds
    <3> QED BY <1>8, <3>1, <3>2 DEF Listed
  <2>4. Built(p)'
    BY <1>2, <1>7, <1>8, <1>9, <2>2, <2>3 DEF Built, Went
  <2>5. /\ proc'[p].at = "digest" /\ proc'[p].layer < proc'[p].n
        /\ Loads(stage'[p].layers[proc'[p].layer])
    BY <1>2, <1>3, <1>7, <1>8, <1>9 DEF Went
  <2> QED BY <2>1, <2>4, <2>5 DEF TrainerOK, Building, Finished
<1> QED BY <1>1, <1>4, <1>5, <1>6, <1>9, BuildKeeps

LEMMA BreakKeeps ==
    ASSUME TrainInv, NEW p \in Team, NEW k, BreakLayer(p, k)
    PROVE  TrainInv'
<1>1. /\ UNCHANGED <<program, source, prev, published>> /\ files' = files
      /\ GoTo(p, FailLayer(p))
      /\ UNCHANGED stage
         \/ PutLayer(p, SubSeq(try_to_bytes(Trained(p)), 1, k))
  BY DEF BreakLayer, StageStep
<1>2. IsFiles(files') /\ files'.out = files.out BY <1>1 DEF TrainInv, Shapes
<1> DEFINE file == SubSeq(try_to_bytes(Trained(p)), 1, k)
           d == [stage[p] EXCEPT !.layers[proc[p].layer] = file]
<1>3. IsDirectory(d)
  <2>1. IsDirectory(stage[p]) BY DEF TrainInv, Shaped
  <2> HIDE DEF file
  <2> QED BY <2>1, DirectoryKeeps
<1>4. UNCHANGED stage \/ stage' = [stage EXCEPT ![p].layers[proc[p].layer] = file]
  BY <1>1 DEF PutLayer
<1> HIDE DEF file
<1>5. UNCHANGED stage \/ stage' = [stage EXCEPT ![p] = d]
  BY <1>4 DEF TrainInv, Shapes
<1> HIDE DEF d
<1> QED BY <1>1, <1>2, <1>3, <1>5, FailLayerAway, Leaves

LEMMA CleanupKeeps ==
    ASSUME TrainInv, NEW p \in Team, Cleanup(p)
    PROVE  TrainInv'
<1>1. /\ UNCHANGED <<program, source, prev, published>> /\ files' = files
      /\ GoTo(p, "exited")
      /\ UNCHANGED stage \/ stage' = [stage EXCEPT ![p] = AbsentDir]
  BY DEF Cleanup, StageStep, Exit
<1>2. IsFiles(files') /\ files'.out = files.out BY <1>1 DEF TrainInv, Shapes
<1>3. IsDirectory(AbsentDir) BY DirectoryKeeps DEF TrainInv, Shaped
<1> QED BY <1>1, <1>2, <1>3, Leaves DEF Away

(* sha256sum digests what was saved: the list grows by the layer.           *)
LEMMA DigestKeeps ==
    ASSUME ~HashMayFail, TrainInv, NEW p \in Team, DigestLayer(p)
    PROVE  TrainInv'
<1> DEFINE r == proc[p]
           s == proc'[p]
           h == stage[p].layers[r.layer]
<1>1. program[p] \in {"rank", "lr1"} /\ r.at = "digest" /\ LocalStep
  BY DEF DigestLayer, AtTrainer
<1>2. CASE Exit(p) BY <1>1, <1>2, LeavesLocally DEF Away, Exit
<1>3. CASE proc' = [proc EXCEPT ![p].at = "layer", ![p].layer = @ + 1, ![p].hashes = Append(@, h)]
  <2>1. UNCHANGED <<program, source, prev, published>> /\ UNCHANGED stage /\ files' = files
    BY <1>1 DEF LocalStep
  <2>2. IsFiles(files') /\ files'.out = files.out BY <2>1 DEF TrainInv, Shapes
  <2>3. /\ Plan(p) /\ Built(p) /\ r.layer < r.n /\ Loads(h)
    BY <1>1 DEF TrainInv, TrainerOK, Building
  <2>4. r = [at |-> r.at, n |-> r.n, scope |-> r.scope, scales |-> r.scales,
             layer |-> r.layer, hashes |-> r.hashes, read |-> r.read,
             control |-> r.control, candidate |-> r.candidate]
    BY ProcOf
  <2>5. proc' = [q \in Team |->
                   IF q = p THEN [r EXCEPT !.at = "layer", !.layer = @ + 1,
                                           !.hashes = Append(@, h)] ELSE proc[q]]
    BY <1>3, ProcOf
  <2>6. s = [r EXCEPT !.at = "layer", !.layer = @ + 1, !.hashes = Append(@, h)] BY <2>5
  <2>7. proc' = [q \in Team |-> proc'[q]] /\ \A q \in Team \ {p} : proc'[q] = proc[q]
    BY <2>5
  <2> HIDE DEF r, h
  <2>8. s = [at |-> "layer", n |-> r.n, scope |-> r.scope, scales |-> r.scales,
             layer |-> r.layer + 1, hashes |-> Append(r.hashes, h), read |-> r.read,
             control |-> r.control, candidate |-> r.candidate]
    BY <2>4, <2>6
  <2>9. /\ s.at = "layer" /\ s.n = r.n /\ s.scope = r.scope /\ s.scales = r.scales
        /\ s.layer = r.layer + 1 /\ s.hashes = Append(r.hashes, h) /\ IsProc(s)
    BY <2>8 DEF IsProc
  <2> HIDE DEF s
  <2>10. Frame(p) BY <2>1, <2>7, <2>9, StagedFrame DEF s
  <2>11. Plan(p)' BY <2>1, <2>3, <2>9 DEF Plan, s, r
  <2>12. Lineage(p)' = Lineage(p) BY <2>1, <2>9 DEF Lineage, InitialHashes, s, r
  <2>13. Listed(s.hashes, s.layer, stage[p].layers)
    <3>1. /\ IsSequence(r.hashes) /\ Len(r.hashes) = r.layer
          /\ \A i \in 1 .. r.layer :
                r.hashes[i] = stage[p].layers[i - 1] /\ Loads(r.hashes[i])
      BY <2>3 DEF Built, Listed, r
    <3>2. /\ IsSequence(s.hashes) /\ Len(s.hashes) = r.layer + 1 /\ r.layer \in Nat
          /\ \A i \in 1 .. r.layer : s.hashes[i] = r.hashes[i]
          /\ s.hashes[r.layer + 1] = h
      BY <2>9, <3>1, AppendSequence
    <3>3. ASSUME NEW i \in 1 .. r.layer + 1
          PROVE  s.hashes[i] = stage[p].layers[i - 1] /\ Loads(s.hashes[i])
      <4>1. CASE i \in 1 .. r.layer BY <3>1, <3>2, <4>1
      <4>2. CASE i = r.layer + 1
        <5>1. i - 1 = r.layer BY <3>2, <4>2
        <5> QED BY <2>3, <3>2, <4>2, <5>1 DEF h
      <4> QED BY <3>2, <4>1, <4>2
    <3> QED BY <2>9, <3>2, <3>3 DEF Listed
  <2>14. s.layer \in 0 .. s.n
    BY <2>3, <2>9 DEF Plan, Built, r
  <2>15. Built(p)' BY <2>1, <2>3, <2>9, <2>12, <2>13, <2>14 DEF Built, s, r
  <2>16. TrainerOK(p)'
    BY <2>9, <2>11, <2>15 DEF TrainerOK, Building, Finished, s
  <2>17. proc'[p].at \notin {"swap", "restore", "drop"} BY <2>9 DEF s
  <2> QED BY <2>1, <2>2, <2>10, <2>16, <2>17, StepKeeps
<1> QED BY <1>2, <1>3 DEF DigestLayer, Digests

-----------------------------------------------------------------------------
(* Manifests                                                                *)

LEMMA ManifestKeeps ==
    ASSUME TrainInv, NEW p \in Team, WriteManifest(p)
    PROVE  TrainInv'
<1> DEFINE d == [stage[p] EXCEPT !.manifest = TrainingManifest(p)]
           c == [stage[p] EXCEPT !.manifest = CutDoc]
<1>1. /\ UNCHANGED <<program, source, prev, published>> /\ files' = files
      /\ program[p] \in {"rank", "lr1"} /\ proc[p].at = "layer" /\ proc[p].layer = proc[p].n
  BY DEF WriteManifest, StageStep, AtTrainer
<1>2. IsFiles(files') /\ files'.out = files.out BY <1>1 DEF TrainInv, Shapes
<1>3. Plan(p) /\ Built(p) BY <1>1 DEF TrainInv, TrainerOK, Building
<1>4. IsDirectory(stage[p]) BY DEF TrainInv, Shaped
<1>5. IsDirectory(d) /\ IsDirectory(c) BY <1>4, DirectoryKeeps
<1>6. CASE /\ stage' = [stage EXCEPT ![p].manifest = TrainingManifest(p)]
           /\ GoTo(p, "evidence")
  <2>1. stage' = [stage EXCEPT ![p] = d] BY <1>6 DEF TrainInv, Shapes
  <2>2. stage'[p] = d BY <2>1, StageAt
  <2>3. /\ d.there = stage[p].there /\ d.lineage = stage[p].lineage
        /\ d.layers = stage[p].layers /\ d.manifest = TrainingManifest(p)
    BY <1>4 DEF IsDirectory
  <2> HIDE DEF d
  <2>4. ASSUME Went(p, "evidence") PROVE TrainerOK(p)'
    <3>1. Plan(p)' BY <1>1, <1>3, <2>4 DEF Plan, Went
    <3>2. Lineage(p)' = Lineage(p) BY <1>1, <2>4 DEF Lineage, InitialHashes, Went
    <3>3. TrainingManifest(p)' = TrainingManifest(p)
      BY <1>1, <2>4 DEF TrainingManifest, InitialHashes, Went
    <3>4. Built(p)' BY <1>3, <2>2, <2>3, <2>4, <3>2 DEF Built, Went
    <3>5. /\ proc'[p].at = "evidence" /\ proc'[p].layer = proc'[p].n
          /\ stage'[p].manifest = TrainingManifest(p)'
      BY <1>1, <2>2, <2>3, <2>4, <3>3 DEF Went
    <3> QED BY <3>1, <3>4, <3>5 DEF TrainerOK
  <2> QED BY <1>1, <1>2, <1>5, <1>6, <2>1, <2>4, BuildKeeps
<1>7. CASE stage' \in {stage, [stage EXCEPT ![p].manifest = CutDoc]} /\ Exit(p)
  <2>1. UNCHANGED stage \/ stage' = [stage EXCEPT ![p] = c]
    BY <1>7 DEF TrainInv, Shapes
  <2> HIDE DEF c
  <2> QED BY <1>1, <1>2, <1>5, <1>7, <2>1, Leaves DEF Away, Exit
<1> QED BY <1>6, <1>7 DEF WriteManifest

(* A trainer that has finished its stage moves on without touching it.      *)
LEMMA FinishedStays ==
    ASSUME TrainInv, NEW p \in Team, program[p] \in {"rank", "lr1"},
           proc[p].at \in {"evidence", "look"}, NEW x \in {"look", "aside", "publish"},
           GoTo(p, x), UNCHANGED <<program, source, stage, prev, published>>,
           IsFiles(files'), files'.out = files.out
    PROVE  TrainInv'
<1>1. /\ Plan(p) /\ Built(p) /\ proc[p].layer = proc[p].n
      /\ stage[p].manifest = TrainingManifest(p)
  BY DEF TrainInv, TrainerOK, Building, Finished
<1>2. ASSUME Went(p, x) PROVE TrainerOK(p)'
  <2>1. Plan(p)' /\ Built(p)' /\ TrainingManifest(p)' = TrainingManifest(p)
    BY <1>1, <1>2, BuiltStays
  <2>2. proc'[p].at = x /\ proc'[p].layer = proc'[p].n BY <1>1, <1>2 DEF Went
  <2> QED BY <1>1, <2>1, <2>2 DEF TrainerOK
<1> QED BY <1>2, BuildKeeps

LEMMA EvidenceKeeps ==
    ASSUME TrainInv, NEW p \in Team, WriteEvidence(p)
    PROVE  TrainInv'
<1>1. /\ UNCHANGED <<program, source, stage, prev, published>>
      /\ program[p] \in {"rank", "lr1"} /\ proc[p].at = "evidence"
  BY DEF WriteEvidence, DiskStep, AtTrainer
<1>2. IsFiles(files) BY DEF TrainInv, Shapes
<1>3. PICK x, y : \/ files' = [files EXCEPT !.evidence = x, !.validation = y]
                  \/ files' = [files EXCEPT !.evidence = x] \/ files' = files
  BY DEF WriteEvidence
<1>4. IsFiles(files') /\ files'.out = files.out BY <1>2, <1>3 DEF IsFiles
<1>5. \/ Exit(p)
      \/ GoTo(p, IF program[p] = "rank" THEN "look" ELSE "publish")
  BY DEF WriteEvidence
<1>6. CASE Exit(p) BY <1>1, <1>4, <1>6, Leaves DEF Away, Exit
<1>7. CASE GoTo(p, IF program[p] = "rank" THEN "look" ELSE "publish")
  BY <1>1, <1>4, <1>7, FinishedStays
<1> QED BY <1>5, <1>6, <1>7

LEMMA LookKeeps ==
    ASSUME TrainInv, NEW p \in Team, LookAtOutput(p)
    PROVE  TrainInv'
<1>1. /\ UNCHANGED <<program, source, stage, prev, published>> /\ files' = files
      /\ program[p] = "rank" /\ proc[p].at = "look"
      /\ GoTo(p, "aside") \/ GoTo(p, "publish")
  BY DEF LookAtOutput, LocalStep, At
<1>2. IsFiles(files') /\ files'.out = files.out BY <1>1 DEF TrainInv, Shapes
<1> QED BY <1>1, <1>2, FinishedStays

-----------------------------------------------------------------------------
(* Publication                                                              *)

(* A finished stage is a whole publication.                                 *)
LEMMA StageWhole ==
    ASSUME TrainInv, NEW p \in Team, program[p] \in {"rank", "lr1"}, proc[p].at \in Finished
    PROVE  /\ Published(stage[p])
           /\ program[p] = "lr1" => "scales" \notin DOMAIN stage[p].lineage
<1> DEFINE d == stage[p]
           h == proc[p].hashes
           n == proc[p].n
<1>1. /\ Plan(p) /\ Built(p) /\ proc[p].layer = n /\ d.manifest = TrainingManifest(p)
  BY DEF TrainInv, TrainerOK, Building
<1>2. d.there /\ d.lineage = Lineage(p) /\ n \in Nat \ {0} /\ n <= N_LAYERS
  BY <1>1 DEF Plan, Built
<1>3. /\ IsSequence(h) /\ Len(h) = n
      /\ \A i \in 1 .. n : h[i] = d.layers[i - 1] /\ Loads(h[i])
  BY <1>1 DEF Built, Listed
<1>4. DOMAIN h = 1 .. n BY <1>3 DEF IsSequence
<1>5. d.manifest.kind = "manifest" /\ d.manifest.hashes = h
  BY <1>1 DEF TrainingManifest
<1>6. d.lineage.kind = "lineage" BY <1>2 DEF Lineage
<1>7. DOMAIN h \subseteq 1 .. N_LAYERS BY <1>2, <1>4, GatesAssumption
<1>8. CASE program[p] = "rank"
  <2>1. d.lineage = [kind |-> "lineage", scales |-> proc[p].scales]
    BY <1>2, <1>8 DEF Lineage
  <2>2. d.manifest.scales = [l \in proc[p].scope |-> proc[p].scales[l]]
    BY <1>1, <1>8 DEF TrainingManifest
  <2>3. h # <<>> BY <1>2, <1>3
  <2>4. \A l \in proc[p].scope : PositiveFinite(proc[p].scales[l])
    <3>1. proc[p].scope \subseteq LayerIds
      BY <1>1, <1>2, <1>8, GatesAssumption DEF Plan, LayerIds
    <3> QED BY <1>1, <1>8, <3>1 DEF Plan
  <2>5. /\ "scales" \in DOMAIN d.lineage /\ d.lineage.scales = proc[p].scales
    BY <2>1
  <2>6. \A l \in DOMAIN d.manifest.scales :
            /\ d.manifest.scales[l] = d.lineage.scales[l]
            /\ PositiveFinite(d.lineage.scales[l])
    BY <2>2, <2>4, <2>5
  <2>7. Whole(d)
    BY <1>2, <1>3, <1>4, <1>5, <1>6, <1>7, <2>3, <2>5, <2>6 DEF Whole
  <2> QED BY <1>3, <1>5, <1>8, <2>7 DEF Published
<1>9. CASE program[p] = "lr1"
  <2>1. d.lineage = [kind |-> "lineage", initial |-> InitialHashes(p)]
    BY <1>2, <1>9 DEF Lineage
  <2>2. d.manifest.initial = InitialHashes(p) BY <1>1, <1>9 DEF TrainingManifest
  <2>3. "scales" \notin DOMAIN d.lineage /\ d.lineage.initial = InitialHashes(p) BY <2>1
  <2>4. n = N_LAYERS BY <1>1, <1>9 DEF Plan
  <2>5. Whole(d)
    BY <1>2, <1>3, <1>4, <1>5, <1>6, <1>7, <2>2, <2>3, <2>4 DEF Whole
  <2> QED BY <1>3, <1>5, <2>3, <2>5 DEF Published
<1> QED BY <1>8, <1>9

LEMMA PrevAt ==
    ASSUME TrainInv, NEW p \in Team, NEW d, IsDirectory(d), prev' = [prev EXCEPT ![p] = d],
           UNCHANGED <<program, source, stage>>, NEW x, GoTo(p, x)
    PROVE  Frame(p) /\ prev'[p] = d /\ proc'[p].at = x
<1>1. /\ proc = [q \in Team |-> proc[q]] /\ IsProc(proc[p]) /\ IsDirectory(stage[p])
      /\ stage = [q \in Team |-> stage[q]] /\ prev = [q \in Team |-> prev[q]]
  BY DEF TrainInv, Shapes, Shaped
<1>2. Went(p, x) BY <1>1, GoneTo
<1>3. prev' = [q \in Team |-> IF q = p THEN d ELSE prev[q]] BY <1>1
<1>4. prev'[p] = d /\ prev' = [q \in Team |-> prev'[q]]
      /\ \A q \in Team \ {p} : prev'[q] = prev[q]
  BY <1>3
<1>5. Shaped(p)' BY <1>1, <1>2, <1>4 DEF Shaped, Went
<1> QED BY <1>1, <1>2, <1>4, <1>5 DEF Frame, Went

LEMMA OutAt ==
    ASSUME TrainInv, NEW d, IsDirectory(d), files' = [files EXCEPT !.out = d]
    PROVE  IsFiles(files') /\ files'.out = d /\ files'.report = files.report
  BY DEF TrainInv, Shapes, IsFiles

LEMMA MoveAsideKeeps ==
    ASSUME TrainInv, NEW p \in Team, MoveAside(p)
    PROVE  TrainInv'
<1>1. /\ UNCHANGED <<program, source, stage, published>>
      /\ program[p] = "rank" /\ proc[p].at = "aside"
  BY DEF MoveAside, At
<1>2. CASE UNCHANGED <<prev, files>> /\ Exit(p)
  BY <1>1, <1>2, Leaves DEF TrainInv, Shapes, Away, Exit
<1>3. CASE /\ files.out.there /\ prev' = [prev EXCEPT ![p] = files.out]
           /\ files' = [files EXCEPT !.out = AbsentDir] /\ GoTo(p, "swap")
  <2>1. IsDirectory(files.out) BY DEF TrainInv, Shapes
  <2>2. IsDirectory(AbsentDir) /\ ~AbsentDir.there BY <2>1, DirectoryKeeps
  <2>3. Frame(p) /\ prev'[p] = files.out /\ proc'[p].at = "swap"
    BY <1>1, <1>3, <2>1, PrevAt
  <2>4. IsFiles(files') /\ files'.out = AbsentDir BY <1>3, <2>2, OutAt
  <2>5. Published(files.out) BY <1>3 DEF TrainInv, Kept
  <2>6. Kept' BY <1>1, <2>2, <2>3, <2>4, <2>5 DEF TrainInv, Kept, Frame
  <2>7. TrainerOK(p)'
    <3>1. /\ Plan(p) /\ Built(p) /\ proc[p].layer = proc[p].n
          /\ stage[p].manifest = TrainingManifest(p)
      BY <1>1 DEF TrainInv, TrainerOK, Building, Finished
    <3>2. Went(p, "swap") BY <1>3, GoneTo DEF TrainInv, Shapes, Shaped
    <3>3. Plan(p)' /\ Built(p)' /\ TrainingManifest(p)' = TrainingManifest(p)
      BY <1>1, <3>1, <3>2, BuiltStays
    <3>4. proc'[p].layer = proc'[p].n BY <3>1, <3>2 DEF Went
    <3> QED BY <1>1, <2>3, <3>1, <3>3, <3>4 DEF TrainerOK
  <2>8. published' \in BOOLEAN BY <1>1 DEF TrainInv, Shapes
  <2> QED BY <1>1, <2>2, <2>3, <2>4, <2>6, <2>7, <2>8, FrameKeeps
<1> QED BY <1>2, <1>3 DEF MoveAside

LEMMA RenameKeeps ==
    ASSUME TrainInv, NEW p \in Team, program[p] \in {"rank", "lr1"}, proc[p].at \in Finished,
           NEW x \in {"drop", "done"}, x = "drop" => program[p] = "rank", RenameStage(p, x)
    PROVE  TrainInv'
<1>1. /\ files' = [files EXCEPT !.out = stage[p]] /\ published' = TRUE
      /\ stage' = [stage EXCEPT ![p] = AbsentDir] /\ GoTo(p, x)
      /\ UNCHANGED <<program, source, prev>>
  BY DEF RenameStage
<1>2. IsDirectory(stage[p]) BY DEF TrainInv, Shaped
<1>3. IsDirectory(AbsentDir) BY <1>2, DirectoryKeeps
<1>4. Frame(p) /\ Went(p, x) BY <1>1, <1>3, LocalFrame
<1>5. proc'[p].at = x BY <1>4 DEF Went
<1>6. IsFiles(files') /\ files'.out = stage[p] BY <1>1, <1>2, OutAt
<1>7. Published(stage[p]) /\ stage[p].there BY StageWhole DEF Published, Whole
<1>8. Kept' BY <1>1, <1>4, <1>5, <1>6, <1>7 DEF TrainInv, Kept, Frame
<1>9. TrainerOK(p)' BY <1>5 DEF TrainerOK, Building, Finished
<1> QED BY <1>1, <1>2, <1>4, <1>5, <1>6, <1>8, <1>9, FrameKeeps

LEMMA SwapKeeps ==
    ASSUME TrainInv, NEW p \in Team, Swap(p)
    PROVE  TrainInv'
<1>1. program[p] = "rank" /\ proc[p].at = "swap" BY DEF Swap, At
<1>2. CASE RenameStage(p, "drop") BY <1>1, <1>2, RenameKeeps DEF Finished
<1>3. CASE GoTo(p, "restore") /\ LocalStep
  <2>1. /\ UNCHANGED <<program, source, prev, published>> /\ UNCHANGED stage
        /\ files' = files
    BY <1>3 DEF LocalStep
  <2>2. IsFiles(files') /\ files'.out = files.out BY <2>1 DEF TrainInv, Shapes
  <2>3. Frame(p) /\ Went(p, "restore") BY <1>3, <2>1, LocalFrame
  <2> QED BY <1>1, <2>1, <2>2, <2>3, AwayKeeps DEF Went
<1> QED BY <1>2, <1>3 DEF Swap

LEMMA PublishKeeps ==
    ASSUME TrainInv, NEW p \in Team, Publish(p)
    PROVE  TrainInv'
<1>1. program[p] \in {"rank", "lr1"} /\ proc[p].at = "publish"
  BY DEF Publish, AtTrainer
<1>2. CASE RenameStage(p, "done") BY <1>1, <1>2, RenameKeeps DEF Finished
<1>3. CASE Exit(p) /\ LocalStep BY <1>3, LeavesLocally DEF Away, Exit
<1> QED BY <1>2, <1>3 DEF Publish

(* The process that drops what it moved aside is not the one that keeps the *)
(* last publication.                                                        *)
LEMMA DropPriorKeeps ==
    ASSUME TrainInv, NEW p \in Team, DropPrevious(p)
    PROVE  TrainInv'
<1>1. /\ UNCHANGED <<program, source, stage, files, published>> /\ GoTo(p, "done")
      /\ program[p] = "rank" /\ proc[p].at = "drop"
      /\ prev' \in {[prev EXCEPT ![p] = AbsentDir], [prev EXCEPT ![p].manifest = NoDoc]}
  BY DEF DropPrevious, At
<1> DEFINE d == [prev[p] EXCEPT !.manifest = NoDoc]
<1>2. IsDirectory(prev[p]) BY DEF TrainInv, Shaped
<1>3. IsDirectory(d) /\ IsDirectory(AbsentDir) BY <1>2, DirectoryKeeps
<1>4. prev' = [prev EXCEPT ![p] = AbsentDir] \/ prev' = [prev EXCEPT ![p] = d]
  BY <1>1 DEF TrainInv, Shapes
<1> HIDE DEF d
<1>5. Frame(p) /\ proc'[p].at = "done" BY <1>1, <1>3, <1>4, PrevAt
<1>6. Kept'
  <2>1. files'.out.there => Published(files'.out) BY <1>1 DEF TrainInv, Kept
  <2>2. \A q \in Team : proc'[q].at \in {"swap", "restore"} => Published(prev'[q])
    BY <1>5 DEF TrainInv, Kept, Frame
  <2>3. published' =>
           \/ files'.out.there
           \/ \E q \in Team : proc'[q].at # "drop" /\ Published(prev'[q])
    BY <1>1, <1>5 DEF TrainInv, Kept, Frame
  <2> QED BY <2>1, <2>2, <2>3 DEF Kept
<1>7. TrainerOK(p)' BY <1>5 DEF TrainerOK, Building, Finished
<1>8. IsFiles(files') /\ IsDirectory(files'.out) /\ published' \in BOOLEAN
  BY <1>1 DEF TrainInv, Shapes
<1> QED BY <1>1, <1>5, <1>6, <1>7, <1>8, FrameKeeps

LEMMA RestoreKeeps ==
    ASSUME TrainInv, NEW p \in Team, Restore(p)
    PROVE  TrainInv'
<1>1. /\ UNCHANGED <<program, source, stage, published>> /\ GoTo(p, "cleanup")
      /\ program[p] = "rank" /\ proc[p].at = "restore"
  BY DEF Restore, At
<1>2. Published(prev[p]) /\ IsDirectory(prev[p])
  BY <1>1 DEF TrainInv, Kept, Shaped
<1>3. CASE /\ files' = [files EXCEPT !.out = prev[p]]
           /\ prev' = [prev EXCEPT ![p] = AbsentDir]
  <2>1. IsDirectory(AbsentDir) BY <1>2, DirectoryKeeps
  <2>2. Frame(p) /\ proc'[p].at = "cleanup" BY <1>1, <1>3, <2>1, PrevAt
  <2>3. IsFiles(files') /\ files'.out = prev[p] BY <1>2, <1>3, OutAt
  <2>4. prev[p].there BY <1>2 DEF Published, Whole
  <2>5. Kept' BY <1>2, <2>2, <2>3, <2>4 DEF TrainInv, Kept, Frame
  <2>6. TrainerOK(p)' BY <2>2 DEF TrainerOK, Building, Finished
  <2>7. published' \in BOOLEAN BY <1>1 DEF TrainInv, Shapes
  <2> QED BY <1>2, <2>2, <2>3, <2>5, <2>6, <2>7, FrameKeeps
<1>4. CASE prev' = prev /\ UNCHANGED files
  BY <1>1, <1>4, Leaves DEF TrainInv, Shapes, Away
<1> QED BY <1>3, <1>4 DEF Restore, AfterRestore

-----------------------------------------------------------------------------
(* The evaluator                                                            *)

(* A local step of the evaluator p, to the record s.                        *)
Turns(p, s) ==
    /\ program[p] = "eval" /\ LocalStep
    /\ proc' = [q \in Team |-> IF q = p THEN s ELSE proc[q]]
    /\ IsProc(s) /\ s.at \notin {"swap", "restore", "drop"}

LEMMA TurnKeeps ==
    ASSUME TrainInv, NEW p \in Team, NEW s, Turns(p, s)
    PROVE  /\ TrainInv' /\ proc'[p] = s /\ program' = program /\ files' = files
           /\ \A q \in Team \ {p} : proc'[q] = proc[q]
<1>1. /\ program[p] = "eval" /\ LocalStep /\ IsProc(s)
      /\ s.at \notin {"swap", "restore", "drop"}
      /\ proc' = [q \in Team |-> IF q = p THEN s ELSE proc[q]]
  BY DEF Turns
<1>2. /\ proc'[p] = s /\ proc' = [q \in Team |-> proc'[q]]
      /\ \A q \in Team \ {p} : proc'[q] = proc[q]
  BY <1>1
<1>3. program' = program /\ files' = files BY <1>1 DEF LocalStep
<1> QED BY <1>1, <1>2, <1>3, QuietKeeps

EvalMove(p) ==
    \/ \E a \in EvalCommands, contract \in Contracts : EvalGate(p, a, contract)
    \/ HashManifest(p) \/ EvalLayer(p) \/ EvalDigest(p) \/ WriteReport(p)

LEMMA EvaluatesTo ==
    ASSUME NEW p \in Team, EvalLayer(p), ~Exit(p)
    PROVE  /\ proc[p].at = "layer" /\ proc[p].layer < proc[p].n
           /\ \E c, d : proc' = [proc EXCEPT ![p].at = "digest", ![p].control = c,
                                            ![p].candidate = d]
<1>1. proc[p].at = "layer" /\ proc[p].layer < proc[p].n BY DEF EvalLayer, At
<1> DEFINE rows == Data(p).held
           file == files.out.layers[proc[p].layer]
           recorded == [i \in DOMAIN rows |-> rows[i].control]
           rescored == [i \in DOMAIN rows |-> Rescored(from_bytes(file), rows[i])]
           c == ObserveAll(proc[p].control, rows, recorded)
           d == ObserveAll(proc[p].candidate, rows, rescored)
<1>2. proc' = [proc EXCEPT ![p].at = "digest", ![p].control = ObserveAll(@, rows, recorded),
                           ![p].candidate = ObserveAll(@, rows, rescored)]
  BY Zenon DEF EvalLayer
<1>3. proc' = [proc EXCEPT ![p].at = "digest", ![p].control = c, ![p].candidate = d]
  BY <1>2
<1> QED BY <1>1, <1>3

LEMMA EvalMoves ==
    ASSUME TrainInv, NEW p \in Team, EvalMove(p)
    PROVE  \E s : /\ Turns(p, s)
                  /\ ReadsOutput(proc[p], files.out) => ReadsOutput(s, files.out)
<1> DEFINE r == proc[p]
           out == files.out
<1>1. r = [at |-> r.at, n |-> r.n, scope |-> r.scope, scales |-> r.scales,
           layer |-> r.layer, hashes |-> r.hashes, read |-> r.read,
           control |-> r.control, candidate |-> r.candidate]
  BY ProcOf
<1>2. program[p] = "eval" /\ LocalStep
  BY DEF EvalMove, EvalGate, HashManifest, EvalLayer, EvalDigest, WriteReport, At
<1>3. ASSUME NEW s, IsProc(s), proc' = [proc EXCEPT ![p] = s],
             s.at \notin {"swap", "restore", "drop"},
             ReadsOutput(r, out) => ReadsOutput(s, out)
      PROVE  \E t : Turns(p, t) /\ (ReadsOutput(r, out) => ReadsOutput(t, out))
  <2>1. proc' = [q \in Team |-> IF q = p THEN s ELSE proc[q]] BY <1>3, ProcOf
  <2>2. Turns(p, s) BY <1>2, <1>3, <2>1 DEF Turns
  <2> QED BY <1>3, <2>2
<1>4. CASE Exit(p)
  <2> DEFINE s == [r EXCEPT !.at = "exited"]
  <2>1. proc' = [proc EXCEPT ![p] = s] BY <1>4, ProcOf DEF Exit, GoTo
  <2>2. s.at = "exited" /\ IsProc(s) BY <1>1 DEF IsProc
  <2> HIDE DEF s, r, out
  <2>3. ReadsOutput(s, out) BY <2>2 DEF ReadsOutput
  <2> QED BY <2>1, <2>2, <2>3, <1>3 DEF r, out
<1>5. CASE ~Exit(p) /\ \E a \in EvalCommands, contract \in Contracts : EvalGate(p, a, contract)
  <2>0. PICK s : s = [r EXCEPT !.at = "hash", !.n = N_LAYERS] OBVIOUS
  <2>1. /\ r.at = "gate"
        /\ proc' = [proc EXCEPT ![p].at = "hash", ![p].n = N_LAYERS]
    BY <1>5 DEF EvalGate, At
  <2>2. proc' = [proc EXCEPT ![p] = s] BY <2>0, <2>1, ProcOf
  <2> HIDE DEF r, out
  <2>9. s = [at |-> "hash", n |-> N_LAYERS, scope |-> r.scope, scales |-> r.scales,
             layer |-> r.layer, hashes |-> r.hashes, read |-> r.read,
             control |-> r.control, candidate |-> r.candidate]
    BY <1>1, <2>0 DEF r
  <2>3. /\ s.at = "hash" /\ s.n = N_LAYERS /\ s.layer = r.layer /\ s.hashes = r.hashes
        /\ IsProc(s)
    BY <2>9 DEF IsProc
  <2>4. ReadsOutput(r, out) => ReadsOutput(s, out) BY <2>1, <2>3 DEF ReadsOutput
  <2> QED BY <2>2, <2>3, <2>4, <1>3 DEF r, out
<1>6. CASE ~Exit(p) /\ HashManifest(p)
  <2>0. PICK s : s = [r EXCEPT !.at = "layer", !.read = out.manifest] OBVIOUS
  <2>1. /\ r.at = "hash" /\ out.there
        /\ proc' = [proc EXCEPT ![p].at = "layer", ![p].read = out.manifest]
    BY <1>6 DEF HashManifest, At
  <2>2. proc' = [proc EXCEPT ![p] = s] BY <2>0, <2>1, ProcOf
  <2> HIDE DEF r, out
  <2>9. s = [at |-> "layer", n |-> r.n, scope |-> r.scope, scales |-> r.scales,
             layer |-> r.layer, hashes |-> r.hashes, read |-> out.manifest,
             control |-> r.control, candidate |-> r.candidate]
    BY <1>1, <2>0 DEF r
  <2>3. /\ s.at = "layer" /\ s.n = r.n /\ s.layer = r.layer /\ s.hashes = r.hashes
        /\ s.read = out.manifest /\ IsProc(s)
    BY <2>9 DEF IsProc
  <2>4. IsSequence(<<>>)
    <3>1. <<>> \in Seq({}) OBVIOUS
    <3> QED BY <3>1 DEF IsSequence
  <2>5. ReadsOutput(r, out) => ReadsOutput(s, out)
    BY <2>1, <2>3, <2>4, GatesAssumption DEF ReadsOutput
  <2> QED BY <2>2, <2>3, <2>5, <1>3 DEF r, out
<1>7. CASE ~Exit(p) /\ EvalLayer(p)
  <2>1. PICK c, d : /\ r.at = "layer" /\ r.layer < r.n
                    /\ proc' = [proc EXCEPT ![p].at = "digest", ![p].control = c,
                                            ![p].candidate = d]
    <3>1. /\ r.at = "layer" /\ r.layer < r.n
          /\ \E c, d : proc' = [proc EXCEPT ![p].at = "digest", ![p].control = c,
                                           ![p].candidate = d]
      BY <1>7, EvaluatesTo
    <3> QED BY <3>1
  <2>0. PICK s : s = [r EXCEPT !.at = "digest", !.control = c, !.candidate = d] OBVIOUS
  <2>2. proc' = [proc EXCEPT ![p] = s] BY <2>0, <2>1, ProcOf
  <2> HIDE DEF r, out
  <2>9. s = [at |-> "digest", n |-> r.n, scope |-> r.scope, scales |-> r.scales,
             layer |-> r.layer, hashes |-> r.hashes, read |-> r.read,
             control |-> c, candidate |-> d]
    BY <1>1, <2>0 DEF r
  <2>3. /\ s.at = "digest" /\ s.n = r.n /\ s.layer = r.layer /\ s.hashes = r.hashes
        /\ s.read = r.read /\ IsProc(s)
    BY <2>9 DEF IsProc
  <2>4. ReadsOutput(r, out) => ReadsOutput(s, out) BY <2>1, <2>3 DEF ReadsOutput
  <2> QED BY <2>2, <2>3, <2>4, <1>3 DEF r, out
<1>8. CASE ~Exit(p) /\ EvalDigest(p)
  <2> DEFINE h == out.layers[r.layer]
  <2>0. PICK s : s = [r EXCEPT !.at = "layer", !.layer = r.layer + 1,
                               !.hashes = Append(r.hashes, h)]
    OBVIOUS
  <2>1. /\ r.at = "digest"
        /\ proc' = [proc EXCEPT ![p].at = "layer", ![p].layer = @ + 1,
                                ![p].hashes = Append(@, h)]
    BY <1>8 DEF EvalDigest, At
  <2>2. proc' = [proc EXCEPT ![p] = s] BY <1>1, <2>0, <2>1, ProcOf
  <2> HIDE DEF r, out, h
  <2>9. s = [at |-> "layer", n |-> r.n, scope |-> r.scope, scales |-> r.scales,
             layer |-> r.layer + 1, hashes |-> Append(r.hashes, h), read |-> r.read,
             control |-> r.control, candidate |-> r.candidate]
    BY <1>1, <2>0 DEF r
  <2>3. /\ s.at = "layer" /\ s.n = r.n /\ s.layer = r.layer + 1
        /\ s.hashes = Append(r.hashes, h) /\ s.read = r.read /\ IsProc(s)
    BY <2>9 DEF IsProc
  <2>4. ASSUME ReadsOutput(r, out) PROVE ReadsOutput(s, out)
    <3>1. /\ out.there /\ r.read = out.manifest /\ r.n = N_LAYERS
          /\ r.layer \in 0 .. N_LAYERS /\ r.layer < N_LAYERS
          /\ IsSequence(r.hashes) /\ Len(r.hashes) = r.layer
          /\ \A i \in 1 .. r.layer : r.hashes[i] = out.layers[i - 1]
      BY <2>1, <2>4 DEF ReadsOutput
    <3>2. /\ IsSequence(s.hashes) /\ Len(s.hashes) = r.layer + 1
          /\ \A i \in 1 .. r.layer : s.hashes[i] = r.hashes[i]
          /\ s.hashes[r.layer + 1] = h
      BY <2>3, <3>1, AppendSequence
    <3>3. ASSUME NEW i \in 1 .. r.layer + 1 PROVE s.hashes[i] = out.layers[i - 1]
      <4>1. CASE i \in 1 .. r.layer BY <3>1, <3>2, <4>1
      <4>2. CASE i = r.layer + 1
        <5>1. i - 1 = r.layer BY <3>1, <4>2
        <5> QED BY <3>2, <4>2, <5>1 DEF h
      <4> QED BY <3>1, <4>1, <4>2
    <3>4. s.layer \in 0 .. N_LAYERS BY <2>3, <3>1, GatesAssumption
    <3> QED BY <2>3, <3>1, <3>2, <3>3, <3>4 DEF ReadsOutput
  <2> QED BY <2>2, <2>3, <2>4, <1>3 DEF r, out
<1>9. CASE ~Exit(p) /\ WriteReport(p)
  <2> DEFINE s == [r EXCEPT !.at = "rename"]
  <2>1. /\ r.at = "layer" /\ r.layer = r.n /\ GoTo(p, "rename")
        /\ SameDenominators(r.control, r.candidate)
        /\ r.control.ranking > 0
    BY <1>9 DEF WriteReport, At, validate_non_degenerate
  <2>2. proc' = [proc EXCEPT ![p] = s] BY <2>1, ProcOf DEF GoTo
  <2>3. /\ s.at = "rename" /\ s.n = r.n /\ s.layer = r.layer /\ s.hashes = r.hashes
        /\ s.read = r.read /\ s.control = r.control /\ s.candidate = r.candidate /\ IsProc(s)
    BY <1>1 DEF IsProc
  <2> HIDE DEF s, r, out
  <2>4. ReadsOutput(r, out) => ReadsOutput(s, out) BY <2>1, <2>3 DEF ReadsOutput
  <2> QED BY <2>2, <2>3, <2>4, <1>3 DEF r, out
<1> QED BY <1>4, <1>5, <1>6, <1>7, <1>8, <1>9 DEF EvalMove

-----------------------------------------------------------------------------
(* Reports                                                                  *)

(* A step of p that publishes nothing over an output and writes no report.  *)
LEMMA EvalFrame ==
    ASSUME TrainInv, EvalInv, NoRank, NEW p \in Team, program' = program,
           \A q \in Team \ {p} : proc'[q] = proc[q],
           program[p] = "eval" => ReadsOutput(proc'[p], files'.out),
           files'.report = files.report,
           files.out.there => files'.out = files.out,
           ~files.out.there /\ files'.out.there => "scales" \notin DOMAIN files'.out.lineage
    PROVE  EvalInv'
<1>1. Lr1Output' BY DEF EvalInv, Lr1Output
<1>2. \A q \in Team : program'[q] = "eval" => ReadsOutput(proc'[q], files'.out)
  <2> TAKE q \in Team
  <2>1. CASE q = p BY <2>1
  <2>2. ASSUME q # p, program[q] = "eval" PROVE ReadsOutput(proc'[q], files'.out)
    <3>1. ReadsOutput(proc[q], files.out) BY <2>2 DEF EvalInv
    <3>2. proc'[q] = proc[q] BY <2>2
    <3>3. CASE files.out.there BY <3>1, <3>2, <3>3
    <3>4. CASE ~files.out.there BY <3>1, <3>2, <3>4 DEF ReadsOutput
    <3> QED BY <3>3, <3>4
  <2> QED BY <2>1, <2>2
<1>3. ReportOfOneAttempt'
  <2>1. SUFFICES ASSUME files'.report # NoDoc PROVE ReportOfOneAttempt'
    BY DEF ReportOfOneAttempt
  <2>2. /\ files.out.there
        /\ files.report.manifest = files.out.manifest
        /\ files.report.hashes = files.out.manifest.hashes
        /\ SameDenominators(files.report.control, files.report.candidate)
        /\ files.report.control.ranking > 0
    BY <2>1 DEF EvalInv, ReportOfOneAttempt, NoRank
  <2> QED BY <2>2 DEF ReportOfOneAttempt
<1> QED BY <1>1, <1>2, <1>3 DEF EvalInv

(* The trainers' steps, and those of any process that stops.                *)
TrainMove(p) ==
    \/ \E c \in RankCommands : RankGate(p, c) \/ verify_only(p, c)
    \/ \E contract \in Contracts : Lr1Gate(p, contract)
    \/ CreateStage(p) \/ WriteLineage(p) \/ WriteSidecar(p)
    \/ RefuseLayer(p) \/ Diverge(p) \/ SaveLayer(p) \/ DigestLayer(p) \/ Cleanup(p)
    \/ \E k \in Breaks : BreakLayer(p, k)
    \/ WriteManifest(p) \/ WriteEvidence(p)
    \/ LookAtOutput(p) \/ MoveAside(p) \/ Swap(p) \/ DropPrevious(p) \/ Restore(p) \/ Publish(p)

LEMMA Moves ==
    ASSUME RankProgNext
    PROVE  \E p \in Team : TrainMove(p) \/ EvalMove(p) \/ RenameReport(p) \/ Stop(p)
  BY DEF RankProgNext, Start, TrainMove, EvalMove

LEMMA TrainMoveKeeps ==
    ASSUME ~HashMayFail, TrainInv, NEW p \in Team, TrainMove(p) \/ Stop(p)
    PROVE  TrainInv'
  BY GateKeeps, CreateStageKeeps, WriteLineageKeeps, WriteSidecarKeeps, RefuseKeeps,
     SaveKeeps, DigestKeeps, CleanupKeeps, BreakKeeps, ManifestKeeps, EvidenceKeeps,
     LookKeeps, MoveAsideKeeps, SwapKeeps, DropPriorKeeps, RestoreKeeps, PublishKeeps
     DEF TrainMove

(* How a trainer's step looks to the others when none of them is a rank     *)
(* trainer: an output is published once and stays.                          *)
LEMMA TrainMoveFrame ==
    ASSUME TrainInv, NoRank, NEW p \in Team, TrainMove(p)
    PROVE  /\ program' = program /\ program[p] = "lr1"
           /\ \A q \in Team \ {p} : proc'[q] = proc[q]
           /\ files'.report = files.report
           /\ files.out.there => files'.out = files.out
           /\ ~files.out.there /\ files'.out.there =>
                 "scales" \notin DOMAIN files'.out.lineage
<1>0. /\ program[p] # "rank" /\ IsFiles(files) /\ IsDirectory(files.out)
      /\ proc = [q \in Team |-> proc[q]] /\ IsProc(proc[p]) /\ IsDirectory(stage[p])
  BY DEF NoRank, TrainInv, Shapes, Shaped
<1>1. program[p] = "lr1"
  BY <1>0 DEF TrainMove, RankGate, verify_only, Lr1Gate, CreateStage, WriteLineage,
     WriteSidecar, RefuseLayer, Diverge, SaveLayer, DigestLayer, Cleanup, BreakLayer,
     WriteManifest, WriteEvidence, LookAtOutput, MoveAside, Swap, DropPrevious, Restore,
     Publish, AtLayer, At, AtTrainer
<1>2. \A q \in Team \ {p} : proc'[q] = proc[q]
  <2>1. CASE \E x : GoTo(p, x) BY <1>0, <2>1 DEF GoTo
  <2>2. CASE \E contract \in Contracts : Lr1Gate(p, contract)
    BY <1>0, <2>1, <2>2 DEF Lr1Gate, Exit
  <2>3. CASE DigestLayer(p) BY <1>0, <2>1, <2>3 DEF DigestLayer, Exit
  <2> QED BY <1>0, <2>1, <2>2, <2>3
          DEF TrainMove, RankGate, verify_only, CreateStage, WriteLineage, WriteSidecar,
              RefuseLayer, Diverge, SaveLayer, Cleanup, BreakLayer, WriteManifest,
              WriteEvidence, LookAtOutput, MoveAside, Swap, DropPrevious, Restore, Publish,
              RenameStage, At, Exit
<1>3. program' = program
  BY DEF TrainMove, RankGate, verify_only, Lr1Gate, CreateStage, WriteLineage,
     WriteSidecar, RefuseLayer, Diverge, SaveLayer, DigestLayer, Cleanup, BreakLayer,
     WriteManifest, WriteEvidence, LookAtOutput, MoveAside, Swap, DropPrevious, Restore,
     Publish, RenameStage, LocalStep, StageStep, DiskStep
<1>4. CASE RenameStage(p, "done") /\ proc[p].at = "publish"
  <2>1. files' = [files EXCEPT !.out = stage[p]] /\ ~files.out.there
    BY <1>4 DEF RenameStage
  <2>2. IsFiles(files') /\ files'.out = stage[p] /\ files'.report = files.report
    BY <1>0, <2>1, OutAt
  <2>3. "scales" \notin DOMAIN stage[p].lineage
    BY <1>1, <1>4, StageWhole DEF Finished
  <2> QED BY <1>1, <1>2, <1>3, <2>1, <2>2, <2>3
<1>5. CASE ~(RenameStage(p, "done") /\ proc[p].at = "publish")
  <2>1. CASE files' = files BY <1>1, <1>2, <1>3, <2>1
  <2>2. CASE \E x, y : \/ files' = [files EXCEPT !.startup = x]
                       \/ files' = [files EXCEPT !.evidence = x]
                       \/ files' = [files EXCEPT !.evidence = x, !.validation = y]
    BY <1>0, <1>1, <1>2, <1>3, <2>2 DEF IsFiles
  <2>3. CASE WriteSidecar(p) BY <2>1, <2>2, <2>3 DEF WriteSidecar
  <2>4. CASE WriteEvidence(p) BY <2>1, <2>2, <2>4 DEF WriteEvidence
  <2>5. CASE Publish(p) BY <1>5, <2>1, <2>5 DEF Publish, AtTrainer, LocalStep
  <2> QED BY <1>0, <2>1, <2>3, <2>4, <2>5
          DEF TrainMove, RankGate, verify_only, Lr1Gate, CreateStage, WriteLineage,
              RefuseLayer, Diverge, SaveLayer, DigestLayer, Cleanup, BreakLayer,
              WriteManifest, LookAtOutput, MoveAside, Swap, DropPrevious, Restore, At,
              LocalStep, StageStep
<1> QED BY <1>4, <1>5

LEMMA RenameReportKeeps ==
    ASSUME TrainInv, NEW p \in Team, RenameReport(p)
    PROVE  TrainInv' /\ program' = program /\ \A q \in Team \ {p} : proc'[q] = proc[q]
<1>1. /\ UNCHANGED <<program, source, stage, prev, published>>
      /\ program[p] = "eval"
      /\ GoTo(p, "done") \/ GoTo(p, "exited")
      /\ \/ files' = files
         \/ files' = [files EXCEPT !.report = Report(p)]
  BY DEF RenameReport, DiskStep, At, Exit
<1>2. IsFiles(files') /\ files'.out = files.out
  <2>1. IsFiles(files) BY DEF TrainInv, Shapes
  <2> QED BY <1>1, <2>1, FilesKeep
<1>3. TrainInv' BY <1>1, <1>2, Leaves DEF Away
<1>4. \A q \in Team \ {p} : proc'[q] = proc[q]
  BY <1>1 DEF GoTo, TrainInv, Shapes
<1> QED BY <1>1, <1>3, <1>4

(* The report names the weights that it scored: with the whole manifest of  *)
(* the one output, layer by layer.                                          *)
LEMMA ReportTrue ==
    ASSUME TrainInv, EvalInv, NoRank, NEW p \in Team, program[p] = "eval",
           proc[p].at = "rename"
    PROVE  /\ files.out.there /\ proc[p].read = files.out.manifest
           /\ proc[p].hashes = files.out.manifest.hashes
           /\ SameDenominators(proc[p].control, proc[p].candidate)
           /\ proc[p].control.ranking > 0
<1> DEFINE h == proc[p].hashes
           m == files.out.manifest.hashes
<1>1. /\ files.out.there /\ proc[p].read = files.out.manifest
      /\ SameDenominators(proc[p].control, proc[p].candidate)
      /\ proc[p].control.ranking > 0
      /\ IsSequence(h) /\ Len(h) = N_LAYERS
      /\ \A i \in 1 .. N_LAYERS : h[i] = files.out.layers[i - 1]
  BY DEF EvalInv, ReadsOutput
<1>2. Published(files.out) BY <1>1 DEF TrainInv, Kept
<1>3. "scales" \notin DOMAIN files.out.lineage BY <1>1 DEF EvalInv, Lr1Output
<1>4. /\ IsSequence(m) /\ Len(m) = N_LAYERS
      /\ \A i \in DOMAIN m : m[i] = files.out.layers[i - 1]
  BY <1>2, <1>3 DEF Published, Whole
<1>5. PICK S, T : h \in Seq(S) /\ m \in Seq(T) BY <1>1, <1>4 DEF IsSequence
<1>6. DOMAIN m = 1 .. N_LAYERS BY <1>4, <1>5
<1> HIDE DEF h, m
<1>7. \A i \in 1 .. Len(h) : h[i] = m[i] BY <1>1, <1>4, <1>6
<1>8. h \in Seq(S \cup T) /\ m \in Seq(S \cup T) BY <1>5
<1>9. h = m BY <1>1, <1>4, <1>7, <1>8, SeqEqual
<1> QED BY <1>1, <1>9 DEF h, m

LEMMA EvalKept ==
    ASSUME TrainInv, EvalInv, NEW p \in Team,
           TrainMove(p) \/ EvalMove(p) \/ RenameReport(p) \/ Stop(p)
    PROVE  EvalInv'
<1>0. program' = program
  BY DEF TrainMove, EvalMove, RenameReport, Stop, RankGate, verify_only,
     Lr1Gate, CreateStage, WriteLineage, WriteSidecar, RefuseLayer, Diverge, SaveLayer,
     DigestLayer, Cleanup, BreakLayer, WriteManifest, WriteEvidence, LookAtOutput, MoveAside,
     Swap, DropPrevious, Restore, Publish, RenameStage, EvalGate, HashManifest, EvalLayer,
     EvalDigest, WriteReport, LocalStep, StageStep, DiskStep
<1>1. SUFFICES ASSUME NoRank PROVE EvalInv' BY <1>0 DEF EvalInv, NoRank
<1>2. CASE TrainMove(p)
  BY <1>1, <1>2, TrainMoveFrame, EvalFrame
<1>3. CASE EvalMove(p)
  <2>1. PICK s : /\ Turns(p, s)
                 /\ ReadsOutput(proc[p], files.out) => ReadsOutput(s, files.out)
    BY <1>3, EvalMoves
  <2>2. /\ proc'[p] = s /\ files' = files /\ \A q \in Team \ {p} : proc'[q] = proc[q]
    BY <2>1, TurnKeeps
  <2>3. program[p] = "eval" BY <2>1 DEF Turns
  <2>4. ReadsOutput(proc[p], files.out) BY <1>1, <2>3 DEF EvalInv
  <2> QED BY <1>0, <1>1, <2>1, <2>2, <2>4, EvalFrame
<1>4. CASE Stop(p)
  <2>1. GoTo(p, "exited") /\ files' = files BY <1>4 DEF Stop, LocalStep, Exit
  <2>2. Went(p, "exited") BY <2>1, GoneTo DEF TrainInv, Shapes, Shaped
  <2>3. \A q \in Team \ {p} : proc'[q] = proc[q] BY <2>2 DEF Went
  <2>4. ReadsOutput(proc'[p], files'.out) BY <2>2 DEF Went, ReadsOutput
  <2> QED BY <1>0, <1>1, <2>1, <2>3, <2>4, EvalFrame
<1>5. CASE RenameReport(p)
  <2>1. /\ program[p] = "eval" /\ proc[p].at = "rename"
        /\ GoTo(p, "done") \/ GoTo(p, "exited")
        /\ files' = files \/ files' = [files EXCEPT !.report = Report(p)]
    BY <1>5 DEF RenameReport, At, Exit
  <2>2. \A q \in Team \ {p} : proc'[q] = proc[q] BY <1>5, RenameReportKeeps
  <2>3. ReadsOutput(proc'[p], files'.out)
    <3>1. Went(p, "done") \/ Went(p, "exited")
      BY <2>1, GoneTo DEF TrainInv, Shapes, Shaped
    <3> QED BY <3>1 DEF Went, ReadsOutput
  <2>4. CASE files' = files BY <1>0, <1>1, <2>2, <2>3, <2>4, EvalFrame
  <2>5. CASE files' = [files EXCEPT !.report = Report(p)]
    <3>1. IsFiles(files) BY DEF TrainInv, Shapes
    <3>2. files'.out = files.out /\ files'.report = Report(p) BY <2>5, <3>1 DEF IsFiles
    <3>3. ReportOfOneAttempt'
      <4>1. /\ files.out.there /\ proc[p].read = files.out.manifest
            /\ proc[p].hashes = files.out.manifest.hashes
            /\ SameDenominators(proc[p].control, proc[p].candidate)
            /\ proc[p].control.ranking > 0
        BY <1>1, <2>1, ReportTrue
      <4>2. /\ files'.report.manifest = proc[p].read /\ files'.report.hashes = proc[p].hashes
            /\ files'.report.control = proc[p].control
            /\ files'.report.candidate = proc[p].candidate
        BY <3>2 DEF Report
      <4> QED BY <3>2, <4>1, <4>2 DEF ReportOfOneAttempt
    <3>4. Lr1Output' BY <1>1, <3>2 DEF EvalInv, Lr1Output
    <3>5. \A q \in Team : program'[q] = "eval" => ReadsOutput(proc'[q], files'.out)
      BY <1>0, <1>1, <2>2, <2>3, <3>2 DEF EvalInv
    <3> QED BY <3>3, <3>4, <3>5 DEF EvalInv
  <2> QED BY <2>1, <2>4, <2>5
<1> QED BY <1>2, <1>3, <1>4, <1>5

-----------------------------------------------------------------------------
(* The programs together                                                    *)

LEMMA ProgramsStart ==
    ASSUME RankProgInit PROVE TrainInv
<1>1. PICK s \in Setups :
         /\ program = s.program /\ source = s.source /\ stage = s.stage
         /\ files = [out |-> s.out, evidence |-> NoDoc, validation |-> NoDoc,
                     startup |-> NoDoc, report |-> NoDoc]
  BY DEF RankProgInit
<1>2. /\ s.program \in [Team -> {"rank", "lr1", "eval", "none"}]
      /\ \A p \in Team, l \in LayerIds : s.source[p].weights[l] \in Seq(Int)
      /\ s.stage = [p \in Team |-> s.stage[p]]
      /\ \A p \in Team : IsDirectory(s.stage[p])
      /\ IsDirectory(s.out) /\ (s.out.there => Whole(s.out))
      /\ s.out.there => s.out.manifest.hashes \in Seq(Seq(Int))
  BY ProgramsAssumption
<1>3. /\ proc = [p \in Team |-> Fresh] /\ prev = [p \in Team |-> AbsentDir]
      /\ published = files.out.there
  BY DEF RankProgInit
<1>4. files.out = s.out /\ IsFiles(files) BY <1>1 DEF IsFiles
<1>5. Fresh.at = "gate" /\ Fresh.layer = 0 /\ Fresh.hashes = <<>> /\ IsProc(Fresh)
  BY DEF Fresh, IsProc
<1>6. IsDirectory(AbsentDir) BY <1>2, DirectoryKeeps
<1>7. \A p \in Team : proc[p] = Fresh /\ prev[p] = AbsentDir BY <1>3
<1>8. Shapes
  <2>1. published \in BOOLEAN BY <1>2, <1>3, <1>4 DEF IsDirectory
  <2>2. proc = [p \in Team |-> proc[p]] /\ prev = [p \in Team |-> prev[p]] BY <1>3
  <2> QED BY <1>1, <1>2, <1>4, <2>1, <2>2 DEF Shapes, Reads, Programs
<1>9. \A p \in Team : Shaped(p) BY <1>1, <1>2, <1>5, <1>6, <1>7 DEF Shaped
<1>10. \A p \in Team : TrainerOK(p) BY <1>5, <1>7 DEF TrainerOK, Building, Finished
<1>11. Kept
  <2>1. files.out.there => Published(files.out)
    BY <1>2, <1>4 DEF Published, IsSequence
  <2> QED BY <1>3, <1>5, <1>7, <2>1 DEF Kept
<1>12. \A p \in Team : proc[p].at \notin {"swap", "restore", "drop"} BY <1>5, <1>7
<1> QED BY <1>8, <1>9, <1>10, <1>11, <1>12 DEF TrainInv

LEMMA TrainKept ==
    ASSUME ~HashMayFail, TrainInv, [RankProgNext]_rankProgVars
    PROVE  TrainInv'
<1>1. CASE UNCHANGED rankProgVars
  <2>1. /\ UNCHANGED <<program, source, proc, stage, prev, files, published>>
    BY <1>1 DEF rankProgVars
  <2>2. ASSUME NEW p \in Team, TrainerOK(p) PROVE TrainerOK(p)'
    <3>1. Plan(p)' = Plan(p) BY <2>1 DEF Plan
    <3>2. Lineage(p)' = Lineage(p) /\ TrainingManifest(p)' = TrainingManifest(p)
      BY <2>1 DEF Lineage, TrainingManifest, InitialHashes
    <3>3. Built(p)' = Built(p) BY <2>1, <3>2 DEF Built
    <3> QED BY <2>1, <2>2, <3>1, <3>2, <3>3 DEF TrainerOK
  <2>3. Shapes' /\ Kept' BY <2>1 DEF TrainInv, Shapes, Kept
  <2>4. \A p \in Team : Shaped(p)' BY <2>1 DEF TrainInv, Shaped
  <2> QED BY <2>1, <2>2, <2>3, <2>4 DEF TrainInv
<1>2. ASSUME NEW p \in Team, EvalMove(p) PROVE TrainInv' BY <1>2, EvalMoves, TurnKeeps
<1>3. CASE RankProgNext
  BY <1>2, <1>3, Moves, TrainMoveKeeps, RenameReportKeeps
<1> QED BY <1>1, <1>3

(* Whatever slha_train_rank and slha_train_lr1 leave at the output path is  *)
(* a whole publication of one attempt, and a publication is never lost,     *)
(* for any number of processes, layers and failures, as long as sha256sum   *)
(* digests what it is given.                                                *)
THEOREM OutputsWhole == ~HashMayFail => (RankProgSpec => []PublishedWhole)
<1> SUFFICES ASSUME ~HashMayFail PROVE RankProgSpec => []PublishedWhole
  OBVIOUS
<1>1. RankProgInit => TrainInv BY ProgramsStart
<1>2. TrainInv /\ [RankProgNext]_rankProgVars => TrainInv' BY TrainKept
<1>3. TrainInv => PublishedWhole BY DEF TrainInv, Kept, Published, PublishedWhole
<1> QED BY <1>1, <1>2, <1>3, PTL DEF RankProgSpec

(* Outputs that are there at the start were published by slha_train_lr1.    *)
EarlierByLr1 == \A s \in Setups : s.out.there => "scales" \notin DOMAIN s.out.lineage

(* A report of slha_eval_rank is about one output, its manifest and exactly *)
(* the weights that were scored, however evaluators and LR1 trainers are    *)
(* interleaved and wherever they stop.                                      *)
THEOREM ReportsConsistent ==
    ~HashMayFail /\ EarlierByLr1 => (RankProgSpec => []ReportOfOneAttempt)
<1> SUFFICES ASSUME ~HashMayFail, EarlierByLr1 PROVE RankProgSpec => []ReportOfOneAttempt
  OBVIOUS
<1> DEFINE Inv == TrainInv /\ EvalInv
<1>1. RankProgInit => Inv
  <2> SUFFICES ASSUME RankProgInit PROVE Inv OBVIOUS
  <2>1. TrainInv BY ProgramsStart
  <2>2. files.report = NoDoc /\ Lr1Output
    BY DEF RankProgInit, EarlierByLr1, Lr1Output
  <2>3. \A p \in Team : ReadsOutput(proc[p], files.out)
    BY DEF RankProgInit, Fresh, ReadsOutput
  <2> QED BY <2>1, <2>2, <2>3 DEF EvalInv, ReportOfOneAttempt
<1>2. Inv /\ [RankProgNext]_rankProgVars => Inv'
  <2> SUFFICES ASSUME Inv, [RankProgNext]_rankProgVars PROVE Inv' OBVIOUS
  <2>1. TrainInv' BY TrainKept
  <2>2. CASE UNCHANGED rankProgVars
    BY <2>1, <2>2 DEF rankProgVars, EvalInv, NoRank, Lr1Output, ReportOfOneAttempt
  <2>3. CASE RankProgNext BY <2>1, <2>3, Moves, EvalKept
  <2> QED BY <2>2, <2>3
<1>3. Inv => ReportOfOneAttempt BY DEF EvalInv, NoRank, ReportOfOneAttempt
<1> QED BY <1>1, <1>2, <1>3, PTL DEF RankProgSpec

-----------------------------------------------------------------------------
(* The latent safety guard: its circular window holds the last four cosines *)
(* that passed, so the verdict depends on nothing else of the history.      *)

Guards == [dot : Int, classifier : BOOLEAN, orthogonal : Int, window : [0 .. 3 -> Int],
           idx : 0 .. 3, count : 0 .. 4, last_cosine : Int]

(* Where the window keeps the i-th cosine that passed.                      *)
WindowHolds(g, s) ==
    /\ g.idx = Len(s) % 4
    /\ g.count = IF Len(s) < 4 THEN Len(s) ELSE 4
    /\ \A i \in 1 .. Len(s) : i > Len(s) - 4 => g.window[(i - 1) % 4] = s[i]

GuardInv ==
    \/ guard = NoGuard /\ passed = <<>> /\ verdict = NoVerdict
    \/ guard \in Guards /\ passed \in Seq(Int) /\ WindowHolds(guard, passed)

LEMMA NoGuardIsNone == NoGuard \notin Guards
<1> SUFFICES ASSUME NoGuard \in Guards PROVE FALSE OBVIOUS
<1>1. "idx" \in DOMAIN NoGuard
  BY DEF Guards
<1>2. DOMAIN NoGuard = {"dot"}
  BY DEF NoGuard
<1> QED BY <1>1, <1>2

LEMMA GuardType ==
    ASSUME NEW dot \in Int, NEW c \in BOOLEAN, NEW o \in Int
    PROVE  Guard(dot, c, o) \in Guards /\ WindowHolds(Guard(dot, c, o), <<>>)
<1>1. [i \in 0 .. DRIFT_WINDOW - 1 |-> 0] \in [0 .. 3 -> Int]
  BY DEF DRIFT_WINDOW
<1>2. Guard(dot, c, o) \in Guards
  BY <1>1 DEF Guard, Guards
<1>3. Len(<<>>) = 0 OBVIOUS
<1>4. Guard(dot, c, o).idx = 0 /\ Guard(dot, c, o).count = 0
  BY DEF Guard
<1> QED BY <1>2, <1>3, <1>4 DEF WindowHolds

(* A cosine that passes overwrites the oldest one.                          *)
LEMMA PushKeepsWindow ==
    ASSUME NEW g \in Guards, NEW s \in Seq(Int), WindowHolds(g, s), NEW x \in Int
    PROVE  Pushed(g, x) \in Guards /\ WindowHolds(Pushed(g, x), Append(s, x))
<1> DEFINE n == Len(s)
           h == Pushed(g, x)
<1>1. n \in Nat /\ Len(Append(s, x)) = n + 1
  BY LenProperties, AppendProperties
<1>2. g.idx \in 0 .. 3 /\ g.count \in 0 .. 4 /\ g.window \in [0 .. 3 -> Int]
  BY DEF Guards
<1>3. h.window = [g.window EXCEPT ![g.idx] = x] /\ h.idx = (g.idx + 1) % 4
      /\ h.count = IF g.count < 4 THEN g.count + 1 ELSE g.count
  BY DEF Pushed, Guards, DRIFT_WINDOW
<1>4. h \in Guards
  <2>1. h.idx \in 0 .. 3 BY <1>2, <1>3
  <2>2. h.count \in 0 .. 4 BY <1>2, <1>3
  <2>3. h.window \in [0 .. 3 -> Int] BY <1>2, <1>3
  <2>4. h = [g EXCEPT !.window = h.window, !.idx = h.idx, !.count = h.count]
    BY <1>3 DEF Pushed, Guards, DRIFT_WINDOW
  <2> HIDE DEF h
  <2> QED BY <2>1, <2>2, <2>3, <2>4 DEF Guards
<1>5. g.idx = n % 4 /\ g.count = IF n < 4 THEN n ELSE 4
  BY DEF WindowHolds
<1> HIDE DEF n
<1>6. h.idx = (n + 1) % 4
  BY <1>1, <1>3, <1>5
<1>7. h.count = IF n + 1 < 4 THEN n + 1 ELSE 4
  BY <1>1, <1>3, <1>5
<1>8. ASSUME NEW i \in 1 .. n + 1, i > n + 1 - 4
      PROVE  h.window[(i - 1) % 4] = Append(s, x)[i]
  <2>1. CASE i = n + 1
    <3>1. (i - 1) % 4 = g.idx BY <2>1, <1>5, <1>1
    <3>2. Append(s, x)[i] = x BY <2>1, AppendProperties DEF n
    <3> QED BY <3>1, <3>2, <1>2, <1>3
  <2>2. CASE i \in 1 .. n
    <3>1. (i - 1) % 4 # n % 4 BY <2>2, <1>8, <1>1
    <3>2. (i - 1) % 4 \in 0 .. 3 BY <2>2, <1>1
    <3>3. Append(s, x)[i] = s[i] BY <2>2, AppendProperties DEF n
    <3>4. g.window[(i - 1) % 4] = s[i]
      <4>1. i > n - 4 BY <1>8, <1>1
      <4> QED BY <2>2, <4>1 DEF WindowHolds, n
    <3> QED BY <3>1, <3>2, <3>3, <3>4, <1>2, <1>3, <1>5
  <2> QED BY <2>1, <2>2, <1>8, <1>1
<1>9. WindowHolds(h, Append(s, x))
  BY <1>1, <1>6, <1>7, <1>8 DEF WindowHolds
<1> QED BY <1>4, <1>9

(* Four consecutive places, read round the window, are the whole window.    *)
LEMMA RoundTheWindow ==
    ASSUME NEW w \in [0 .. 3 -> Int], NEW n \in Nat, n >= 4
    PROVE  w[(n - 4) % 4] + w[(n - 3) % 4] + w[(n - 2) % 4] + w[(n - 1) % 4]
           = w[0] + w[1] + w[2] + w[3]
<1>1. \/ (n-4) % 4 = 0 /\ (n-3) % 4 = 1 /\ (n-2) % 4 = 2 /\ (n-1) % 4 = 3
      \/ (n-4) % 4 = 1 /\ (n-3) % 4 = 2 /\ (n-2) % 4 = 3 /\ (n-1) % 4 = 0
      \/ (n-4) % 4 = 2 /\ (n-3) % 4 = 3 /\ (n-2) % 4 = 0 /\ (n-1) % 4 = 1
      \/ (n-4) % 4 = 3 /\ (n-3) % 4 = 0 /\ (n-2) % 4 = 1 /\ (n-1) % 4 = 2
  <2>1. \A k \in Nat : k % 4 \in 0 .. 3 /\ (k + 1) % 4 = (IF k % 4 = 3 THEN 0 ELSE (k % 4) + 1)
    OBVIOUS
  <2>2. n - 4 \in Nat /\ n - 3 = (n - 4) + 1 /\ n - 2 = (n - 4) + 2 /\ n - 1 = (n - 4) + 3
    OBVIOUS
  <2> QED BY <2>2
<1>2. w[0] \in Int /\ w[1] \in Int /\ w[2] \in Int /\ w[3] \in Int
  OBVIOUS
<1> QED BY <1>1, <1>2

(* So the mean of a full window is that of the last four that passed.       *)
LEMMA WindowIsRecent ==
    ASSUME NEW g \in Guards, NEW s \in Seq(Int), WindowHolds(g, s), Len(s) >= 4,
           NEW r, r = SubSeq(s, Len(s) - DRIFT_WINDOW + 1, Len(s))
    PROVE  r[1] + r[2] + r[3] + r[4] = g.window[0] + g.window[1] + g.window[2] + g.window[3]
<1> DEFINE n == Len(s)
<1>1. n \in Nat /\ n >= 4
  BY LenProperties
<1>2. ASSUME NEW j \in 1 .. 4 PROVE r[j] = s[n - 4 + j]
  <2>1. n - DRIFT_WINDOW + 1 \in 1 .. n + 1 BY <1>1 DEF DRIFT_WINDOW
  <2>2. n \in n - DRIFT_WINDOW + 1 - 1 .. n BY <1>1 DEF DRIFT_WINDOW
  <2>3. j \in 1 .. n - (n - DRIFT_WINDOW + 1) + 1 BY <1>1 DEF DRIFT_WINDOW
  <2>4. r[j] = s[n - DRIFT_WINDOW + 1 + j - 1]
    BY <2>1, <2>2, <2>3, SubSeqProperties
  <2>5. n - DRIFT_WINDOW + 1 + j - 1 = n - 4 + j BY <1>1 DEF DRIFT_WINDOW
  <2> QED BY <2>4, <2>5
<1> DEFINE P(k) == g.window[(k - 1) % 4] = s[k]
<1>3. ASSUME NEW j \in 1 .. 4 PROVE P(n - 4 + j)
  <2>1. n - 4 + j \in 1 .. n /\ n - 4 + j > n - 4 BY <1>1
  <2> QED BY <2>1 DEF WindowHolds
<1> HIDE DEF P
<1>4. P(n - 3) /\ P(n - 2) /\ P(n - 1) /\ P(n)
  <2>1. n - 4 + 1 = n - 3 /\ n - 4 + 2 = n - 2 /\ n - 4 + 3 = n - 1 /\ n - 4 + 4 = n
    BY <1>1
  <2>2. 1 \in 1 .. 4 /\ 2 \in 1 .. 4 /\ 3 \in 1 .. 4 /\ 4 \in 1 .. 4 OBVIOUS
  <2> HIDE DEF n
  <2> QED BY <1>3, <2>1, <2>2
<1>5. r[1] = s[n - 3] /\ r[2] = s[n - 2] /\ r[3] = s[n - 1] /\ r[4] = s[n]
  <2>1. n - 4 + 1 = n - 3 /\ n - 4 + 2 = n - 2 /\ n - 4 + 3 = n - 1 /\ n - 4 + 4 = n
    BY <1>1
  <2>2. 1 \in 1 .. 4 /\ 2 \in 1 .. 4 /\ 3 \in 1 .. 4 /\ 4 \in 1 .. 4 OBVIOUS
  <2> HIDE DEF n
  <2> QED BY <1>2, <2>1, <2>2
<1>6. n - 3 - 1 = n - 4 /\ n - 2 - 1 = n - 3 /\ n - 1 - 1 = n - 2
  BY <1>1
<1>7. g.window \in [0 .. 3 -> Int]
  BY DEF Guards
<1> HIDE DEF n
<1>8. /\ g.window[(n - 4) % 4] = r[1] /\ g.window[(n - 3) % 4] = r[2]
      /\ g.window[(n - 2) % 4] = r[3] /\ g.window[(n - 1) % 4] = r[4]
  BY <1>4, <1>5, <1>6, Zenon DEF P
<1> DEFINE w == g.window
<1>9. w[(n - 4) % 4] + w[(n - 3) % 4] + w[(n - 2) % 4] + w[(n - 1) % 4]
      = w[0] + w[1] + w[2] + w[3]
  BY <1>1, <1>7, RoundTheWindow
<1> QED BY <1>8, <1>9, Zenon

(* What an analysis leaves: the verdict follows from the guard and the      *)
(* cosines that passed.                                                     *)
LEMMA AnalysisVerdict ==
    ASSUME guard \in Guards, passed \in Seq(Int), WindowHolds(guard, passed),
           NEW v \in Vectors, analyze_dequantized(v)
    PROVE  GuardInv' /\ VerdictFromHistory'
<1> USE SafetyAssumption DEF SafetyAssumption
<1> DEFINE seen == [guard EXCEPT !.last_cosine =
                      IF v.norm = "finite" /\ v.cosine # NaN THEN v.cosine ELSE 0]
           next == Pushed(seen, v.cosine)
           reason == CASE Deviates(v) -> "deviation"
                       [] ~Deviates(v) /\ Isolated(v) -> "isolation"
                       [] OTHER -> IF Drifts(next) THEN "drift" ELSE "safe"
           pushes == reason \in {"drift", "safe"}
<1>1. /\ guard' = IF pushes THEN next ELSE seen
      /\ passed' = IF pushes THEN Append(passed, v.cosine) ELSE passed
      /\ verdict' = [vector |-> v, reason |-> reason]
  BY DEF analyze_dequantized
<1>2. v.cosine \in Cosines \cup {NaN} /\ v.linear \in Cosines \cup {NaN}
  BY DEF Vectors
<1>3. seen \in Guards /\ WindowHolds(seen, passed)
      /\ seen.dot = guard.dot /\ seen.classifier = guard.classifier
      /\ seen.orthogonal = guard.orthogonal
  <2> DEFINE z == IF v.norm = "finite" /\ v.cosine # NaN THEN v.cosine ELSE 0
  <2>1. z \in Int
    <3>1. v.cosine # NaN => v.cosine \in Int BY <1>2, Zenon
    <3>2. 0 \in Int OBVIOUS
    <3> QED BY <3>1, <3>2, Zenon
  <2> HIDE DEF z
  <2>2. seen = [guard EXCEPT !.last_cosine = z] BY DEF z
  <2> HIDE DEF seen
  <2>3. seen \in Guards BY <2>1, <2>2 DEF Guards
  <2>4. /\ seen.idx = guard.idx /\ seen.count = guard.count /\ seen.window = guard.window
        /\ seen.dot = guard.dot /\ seen.classifier = guard.classifier
        /\ seen.orthogonal = guard.orthogonal
    BY <2>2 DEF Guards
  <2> QED BY <2>3, <2>4 DEF WindowHolds
<1>4. /\ verdict'.vector = v /\ verdict'.reason = reason
  BY <1>1
<1> HIDE DEF seen
<1>5. CASE Deviates(v)
  <2>1. reason = "deviation" BY <1>5
  <2>2. ~pushes BY <2>1
  <2>3. guard' = seen /\ passed' = passed BY <1>1, <2>2
  <2>4. verdict'.reason # "safe" /\ verdict'.reason # "drift" BY <2>1, <1>4
  <2>5. GuardInv' BY <2>3, <1>3 DEF GuardInv
  <2> QED BY <2>4, <2>5 DEF VerdictFromHistory
<1>6. CASE ~Deviates(v) /\ Isolated(v)
  <2>1. reason = "isolation" BY <1>6
  <2>2. ~pushes BY <2>1
  <2>3. guard' = seen /\ passed' = passed BY <1>1, <2>2
  <2>4. verdict'.reason # "safe" /\ verdict'.reason # "drift" BY <2>1, <1>4
  <2>5. GuardInv' BY <2>3, <1>3 DEF GuardInv
  <2> QED BY <2>4, <2>5 DEF VerdictFromHistory
<1>7. CASE ~Deviates(v) /\ ~Isolated(v)
  <2> HIDE DEF next
  <2>1. reason = IF Drifts(next) THEN "drift" ELSE "safe" BY <1>7
  <2>2. pushes BY <2>1
  <2>3. guard' = next /\ passed' = Append(passed, v.cosine) BY <1>1, <2>2
  <2>4. v.norm = "finite" /\ v.cosine # NaN /\ v.cosine \in Int /\ v.cosine >= guard.dot
    <3>1. v.norm = "finite" /\ v.cosine # NaN /\ ~(v.cosine < guard.dot)
      BY <1>7, Zenon DEF Deviates
    <3>2. v.cosine \in Int BY <3>1, <1>2, Zenon
    <3>3. guard.dot \in Int BY DEF Guards
    <3> QED BY <3>1, <3>2, <3>3
  <2>5. guard.classifier => v.linear # NaN /\ v.linear \in Int /\ v.linear >= guard.orthogonal
    <3> SUFFICES ASSUME guard.classifier
                 PROVE  v.linear # NaN /\ v.linear \in Int /\ v.linear >= guard.orthogonal
      OBVIOUS
    <3>1. v.linear # NaN /\ ~(v.linear < guard.orthogonal)
      BY <1>7, Zenon DEF Isolated
    <3>2. v.linear \in Int BY <3>1, <1>2, Zenon
    <3>3. guard.orthogonal \in Int BY DEF Guards
    <3> QED BY <3>1, <3>2, <3>3
  <2>6. next \in Guards /\ WindowHolds(next, Append(passed, v.cosine))
    BY <1>3, <2>4, PushKeepsWindow DEF next
  <2>7. next.dot = seen.dot /\ next.classifier = seen.classifier
        /\ next.orthogonal = seen.orthogonal
    BY <1>3 DEF next, Pushed, Guards
  <2>8. guard'.dot = guard.dot /\ guard'.classifier = guard.classifier
        /\ guard'.orthogonal = guard.orthogonal
    BY <2>3, <2>7, <1>3
  <2>9. passed' \in Seq(Int) BY <2>3, <2>4, AppendProperties
  <2>10. GuardInv' BY <2>3, <2>6, <2>9 DEF GuardInv
  <2> DEFINE r == Recent'
             drifting == Len(passed') >= DRIFT_WINDOW
                         /\ (r[1] + r[2] + r[3] + r[4]) \div DRIFT_WINDOW
                              < DEFAULT_DRIFT_THRESHOLD
  <2>11. guard' \in Guards /\ WindowHolds(guard', passed') /\ Len(passed') \in Nat
    BY <2>3, <2>6, <2>9, LenProperties
  <2>12. Drifts(next) <=> drifting
    <3>1. next.count >= DRIFT_WINDOW <=> Len(passed') >= DRIFT_WINDOW
      BY <2>11, <2>3 DEF WindowHolds, DRIFT_WINDOW
    <3>2. CASE Len(passed') >= DRIFT_WINDOW
      <4>1. r = SubSeq(passed', Len(passed') - DRIFT_WINDOW + 1, Len(passed'))
        BY DEF Recent
      <4>2. Len(passed') >= 4 BY <3>2 DEF DRIFT_WINDOW
      <4> HIDE DEF r
      <4>3. r[1] + r[2] + r[3] + r[4]
              = next.window[0] + next.window[1] + next.window[2] + next.window[3]
        BY <4>1, <4>2, <2>3, <2>9, <2>11, WindowIsRecent
      <4> QED BY <4>3, <3>1, <3>2 DEF Drifts, window_mean
    <3>3. CASE ~(Len(passed') >= DRIFT_WINDOW)
      BY <3>3, <3>1 DEF Drifts
    <3> QED BY <3>2, <3>3
  <2>13. verdict'.reason = "safe" => ~drifting
    BY <2>1, <1>4, <2>12
  <2>14. verdict'.reason = "drift" => drifting
    BY <2>1, <1>4, <2>12
  <2>15. VerdictFromHistory'
    BY <1>4, <2>4, <2>5, <2>8, <2>13, <2>14 DEF VerdictFromHistory
  <2> QED BY <2>10, <2>15
<1> QED BY <1>5, <1>6, <1>7

LEMMA GuardInvStep ==
    ASSUME GuardInv, VerdictFromHistory, [SafetyNext]_safetyVars
    PROVE  GuardInv' /\ VerdictFromHistory'
<1> USE SafetyAssumption DEF SafetyAssumption
<1>1. ASSUME guard = NoGuard, UNCHANGED <<passed, verdict>>,
             NEW d \in Int, NEW c \in BOOLEAN, NEW o \in Int, guard' = Guard(d, c, o)
      PROVE  GuardInv' /\ VerdictFromHistory'
  <2>1. passed = <<>> /\ verdict = NoVerdict
    BY <1>1, NoGuardIsNone DEF GuardInv
  <2>2. guard' \in Guards /\ WindowHolds(guard', passed') /\ passed' \in Seq(Int)
    BY <1>1, <2>1, GuardType, EmptySeq
  <2> QED BY <1>1, <2>1, <2>2 DEF GuardInv, VerdictFromHistory
<1>2. ASSUME NEW dot \in Thresholds, NewGuard(dot)
      PROVE  GuardInv' /\ VerdictFromHistory'
  <2>1. (IF dot # NaN /\ dot > 0 THEN dot ELSE DEFAULT_DOT_THRESHOLD) \in Int
    BY DEF DEFAULT_DOT_THRESHOLD
  <2>2. DEFAULT_ORTHOGONAL_THRESHOLD \in Int BY DEF DEFAULT_ORTHOGONAL_THRESHOLD
  <2> QED BY <1>1, <1>2, <2>1, <2>2 DEF NewGuard
<1>3. ASSUME NEW o \in Thresholds, with_linear_classifier(o)
      PROVE  GuardInv' /\ VerdictFromHistory'
  <2>1. (IF o # NaN THEN o ELSE DEFAULT_ORTHOGONAL_THRESHOLD) \in Int
    BY DEF DEFAULT_ORTHOGONAL_THRESHOLD
  <2>2. DEFAULT_DOT_THRESHOLD \in Int BY DEF DEFAULT_DOT_THRESHOLD
  <2> QED BY <1>1, <1>3, <2>1, <2>2 DEF with_linear_classifier
<1>4. ASSUME NEW v \in Vectors, analyze_dequantized(v)
      PROVE  GuardInv' /\ VerdictFromHistory'
  <2>1. guard # NoGuard BY <1>4 DEF analyze_dequantized
  <2>2. guard \in Guards /\ passed \in Seq(Int) /\ WindowHolds(guard, passed)
    BY <2>1 DEF GuardInv
  <2> QED BY <2>2, <1>4, AnalysisVerdict
<1>5. CASE UNCHANGED safetyVars
  BY <1>5 DEF safetyVars, GuardInv, VerdictFromHistory, Recent
<1> QED BY <1>2, <1>3, <1>4, <1>5 DEF SafetyNext

(* For any thresholds and any sequence of vectors, however long: a vector   *)
(* judged safe is finite, aligned and not isolated, and drift is decided on *)
(* exactly the last four cosines that the first two signals let through     *)
(* (LatentSafetyGuard::analyze_dequantized).                                *)
THEOREM GuardJudgesHistory == SafetySpec => []VerdictFromHistory
<1>1. SafetyInit => GuardInv /\ VerdictFromHistory
  BY DEF SafetyInit, GuardInv, VerdictFromHistory
<1>2. GuardInv /\ VerdictFromHistory /\ [SafetyNext]_safetyVars => GuardInv' /\ VerdictFromHistory'
  BY GuardInvStep
<1> QED BY <1>1, <1>2, PTL DEF SafetySpec

=============================================================================
