---------------------------- MODULE DeviceArena ----------------------------
(***************************************************************************)
(* The sub-allocator over one device allocation (slhav2-vram,              *)
(* src/mem/arena.rs): first fit at aligned offsets, coalescing of freed    *)
(* blocks, cookies that tell live slices from stale ones.                  *)
(*                                                                         *)
(* The free map, from offset to size, is a set of blocks, and so is the    *)
(* allocation map from cookies. A device allocation ends far below 2^64,   *)
(* so the checked sums of the code never fail, and cookies do not wrap in  *)
(* a process's lifetime. Callers are part of the model: they may free any  *)
(* slice they were ever given, again, or after a reset.                    *)
(***************************************************************************)
EXTENDS Integers, FiniteSets

CONSTANTS
    Capacity,    \* bytes of the backing allocation
    Align,       \* ALIGN
    Sizes,       \* sizes callers ask for
    MaxCookie    \* bound: allocations in a behaviour

ASSUME ArenaAssumption ==
    /\ Capacity \in Nat
    /\ Align \in Nat \ {0}
    /\ Sizes \subseteq Nat
    /\ MaxCookie \in Nat

VARIABLES
    free,          \* free blocks
    alloc_map,     \* live blocks with their cookies
    used,          \* bytes of live blocks
    next_cookie,
    given,         \* every slice a caller was given
    held           \* those that its caller has not freed, since the last reset

vars == <<free, alloc_map, used, next_cookie, given, held>>

Block(offset, size) == [offset |-> offset, size |-> size]

Slice(offset, size, cookie) ==
    [offset |-> offset, size |-> size, cookie |-> cookie]

End(b) == b.offset + b.size

align_up(offset) == ((offset + Align - 1) \div Align) * Align

WholeArena == IF Capacity = 0 THEN {} ELSE {Block(0, Capacity)}

Init ==
    /\ free = WholeArena /\ alloc_map = {} /\ used = 0
    /\ next_cookie = 1
    /\ given = {} /\ held = {}

-----------------------------------------------------------------------------
(* insert_free                                                              *)

(* The free block before b, and the one after it, where they touch b.       *)
TouchingLeft(F, b) ==
    {p \in F : /\ p.offset < b.offset
               /\ \A c \in F : c.offset < b.offset => c.offset <= p.offset
               /\ End(p) = b.offset}

TouchingRight(F, b) ==
    {n \in F : /\ n.offset > b.offset
               /\ \A c \in F : c.offset > b.offset => c.offset >= n.offset
               /\ End(b) = n.offset}

JoinLeft(F, b) ==
    IF TouchingLeft(F, b) = {} THEN b
    ELSE LET p == CHOOSE p \in TouchingLeft(F, b) : TRUE
         IN Block(p.offset, b.size + p.size)

JoinRight(F, b) ==
    IF TouchingRight(F, b) = {} THEN b
    ELSE LET n == CHOOSE n \in TouchingRight(F, b) : TRUE
         IN Block(b.offset, b.size + n.size)

(* BTreeMap::insert: one block per offset.                                  *)
Put(F, b) == {c \in F : c.offset # b.offset} \cup {b}

(* Mutant: a freed block is joined with the block after it only.            *)
insert_free_right(F, b) ==
    IF b.size = 0 THEN F
    ELSE Put(F \ TouchingRight(F, b), JoinRight(F, b))

insert_free(F, b) ==
    IF b.size = 0 THEN F
    ELSE LET wide  == JoinLeft(F, b)
             rest  == F \ TouchingLeft(F, b)
         IN Put(rest \ TouchingRight(rest, wide), JoinRight(rest, wide))

-----------------------------------------------------------------------------
(* Operations                                                               *)

(* The free blocks that hold size bytes at an aligned offset.               *)
Fits(size) == {b \in free : align_up(b.offset) + size <= End(b)}

FirstFit(size) ==
    CHOOSE b \in Fits(size) : \A c \in Fits(size) : b.offset <= c.offset

(* The free map once [from, to) is cut out of block b.                      *)
Cut(b, from, to) ==
    LET prefixed == insert_free(free \ {b}, Block(b.offset, from - b.offset))
    IN insert_free(prefixed, Block(to, End(b) - to))

allocate(size) ==
    /\ size # 0 /\ size <= Capacity
    /\ Fits(size) # {}
    /\ LET b     == FirstFit(size)
           start == align_up(b.offset)
           slice == Slice(start, size, next_cookie)
       IN /\ free' = Cut(b, start, start + size)
          /\ alloc_map' = alloc_map \cup {slice}
          /\ given' = given \cup {slice} /\ held' = held \cup {slice}
    /\ used' = used + size
    /\ next_cookie' = next_cookie + 1

(* The live block that a slice's cookie names: none if the slice is stale.  *)
Named(slice) == {a \in alloc_map : a.cookie = slice.cookie}

Free(slice) ==
    /\ held' = held \ {slice}
    /\ \E a \in Named(slice) :
         /\ alloc_map' = alloc_map \ {a}
         /\ used' = IF used > a.size THEN used - a.size ELSE 0
         /\ free' = insert_free(free, Block(a.offset, a.size))
    /\ UNCHANGED <<next_cookie, given>>

FreeStale(slice) ==
    /\ Named(slice) = {}
    /\ held' = held \ {slice}
    /\ UNCHANGED <<free, alloc_map, used, next_cookie, given>>

CookieAfterReset == next_cookie

reset ==
    /\ free' = WholeArena /\ alloc_map' = {} /\ used' = 0
    /\ next_cookie' = CookieAfterReset
    /\ held' = {}
    /\ UNCHANGED given

Next ==
    \/ next_cookie <= MaxCookie /\ \E size \in Sizes : allocate(size)
    \/ \E slice \in given : Free(slice) \/ FreeStale(slice)
    \/ reset

Spec == Init /\ [][Next]_vars

-----------------------------------------------------------------------------
(* Properties                                                               *)

BlockSet == [offset : Nat, size : Nat \ {0}]
SliceSet == [offset : Nat, size : Nat \ {0}, cookie : Nat \ {0}]

(* Every variable has its type; no block of size zero is ever kept.         *)
TypeOK ==
    /\ free \subseteq BlockSet
    /\ alloc_map \subseteq SliceSet
    /\ used \in Nat /\ next_cookie \in Nat \ {0}
    /\ given \subseteq SliceSet /\ held \subseteq SliceSet

Within(x, b) == b.offset <= x /\ x < End(b)

Apart(b, c) == End(b) <= c.offset \/ End(c) <= b.offset

Disjoint(S) == \A b, c \in S : b # c => Apart(b, c)

(* Every byte of the backing allocation is in exactly one block, free or    *)
(* live, and no block reaches beyond it: nothing leaks, nothing overlaps,   *)
(* whatever sizes are allocated and freed in whatever order.                *)
Tiled ==
    /\ Disjoint(free) /\ Disjoint(alloc_map)
    /\ \A b \in free, a \in alloc_map : Apart(b, a)
    /\ \A b \in free \cup alloc_map : End(b) <= Capacity
    /\ \A x \in 0 .. Capacity - 1 : \E b \in free \cup alloc_map : Within(x, b)

(* Fragmentation never hides space: whenever some aligned run of free bytes *)
(* is long enough for a request, allocate finds a block for it.             *)
FindsSpace ==
    \A size \in Sizes \ {0} : \A start \in 0 .. Capacity - size :
        /\ start % Align = 0
        /\ \A x \in start .. start + size - 1 : \E b \in free : Within(x, b)
        => Fits(size) # {}

(* The arena and its callers agree on what is live: a slice is live exactly *)
(* from its allocation until its own caller frees it, or a reset; freeing a *)
(* slice twice, or one from before a reset, never takes another's memory.   *)
HeldAreLive == held = alloc_map

=============================================================================
