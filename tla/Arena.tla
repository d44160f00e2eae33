------------------------------- MODULE Arena -------------------------------
(***************************************************************************)
(* util/arena.h and util/arena.cc: the bump allocator of a memtable.       *)
(*                                                                         *)
(* An arena is the record of Arena's fields: the blocks_ it owns (their    *)
(* sizes), alloc_ptr_ as a block and an offset in it, the bytes remaining  *)
(* and memory_usage_.  given is a history of what was handed out: the      *)
(* byte ranges that must never overlap.  operator new returns memory that  *)
(* satisfies any alignment, so an address is aligned when its offset is.   *)
(***************************************************************************)
EXTENDS Naturals, Sequences

CONSTANTS kBlockSize,    \* size of a shared block
          PointerSize,   \* sizeof(void*)
          Align          \* align of AllocateAligned, the greater of PointerSize and 8

ASSUME ArenaAssumption ==
  kBlockSize \in Nat \ {0} /\ PointerSize \in Nat \ {0} /\ Align \in Nat \ {0}

\* Arena::Arena: the first allocation makes the first block
NewArena ==
  [blocks |-> <<>>, block |-> 0, offset |-> 0, remaining |-> 0, usage |-> 0, given |-> {}]

\* One range handed out: bytes bytes of block b from offset o
Range_(b, o, bytes, aligned) == [block |-> b, from |-> o, to |-> o + bytes, aligned |-> aligned]

\* Arena::AllocateNewBlock
AllocateNewBlock(a, bytes) ==
  [a EXCEPT !.blocks = Append(a.blocks, bytes), !.usage = a.usage + bytes + PointerSize]

\* Arena::AllocateFallback: a large object gets a block of its own and leaves
\* the current one in use; otherwise what remains of the current one is wasted
AllocateFallback(a, bytes, aligned) ==
  LET large == bytes > kBlockSize \div 4
      n == AllocateNewBlock(a, IF large THEN bytes ELSE kBlockSize)
      r == Range_(Len(n.blocks), 0, bytes, aligned)
  IN IF large
     THEN [n EXCEPT !.given = @ \cup {r}]
     ELSE [n EXCEPT !.block = Len(n.blocks), !.offset = bytes,
                    !.remaining = kBlockSize - bytes, !.given = @ \cup {r}]

\* Both allocations from the current block: the first skip bytes are wasted
Bump(a, skip, bytes, aligned) ==
  [a EXCEPT !.offset = @ + skip + bytes, !.remaining = @ - (skip + bytes),
            !.given = @ \cup {Range_(a.block, a.offset + skip, bytes, aligned)}]

\* Arena::Allocate
Allocate(a, bytes) ==
  IF bytes <= a.remaining THEN Bump(a, 0, bytes, FALSE) ELSE AllocateFallback(a, bytes, FALSE)

\* (mutant) the pointer moves by the object's size only, not past the padding
AlignedUnpadded(a, bytes) ==
  LET mod == a.offset % Align
      slop == IF mod = 0 THEN 0 ELSE Align - mod
  IN IF bytes + slop <= a.remaining
     THEN [Bump(a, slop, bytes, TRUE) EXCEPT !.offset = @ - slop, !.remaining = @ + slop]
     ELSE AllocateFallback(a, bytes, TRUE)

\* Arena::AllocateAligned
AllocateAligned(a, bytes) ==
  LET mod == a.offset % Align
      slop == IF mod = 0 THEN 0 ELSE Align - mod
  IN IF bytes + slop <= a.remaining
     THEN Bump(a, slop, bytes, TRUE)
     ELSE AllocateFallback(a, bytes, TRUE)

\* Arena::MemoryUsage, what MemTable::ApproximateMemoryUsage reports
MemoryUsage(a) == a.usage

=============================================================================
