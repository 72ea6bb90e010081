------------------------------- MODULE Buffer -------------------------------
(***************************************************************************)
(* core::Buffer (src/unnamed/part_001): a growable byte store m_buffer     *)
(* with a committed region [m_offset, m_offset + m_size) and the           *)
(* acquire/commit protocol a stage uses to write its output next to, or in *)
(* front of, its input.                                                    *)
(*                                                                         *)
(* The bytes themselves are abstracted to the number of the acquire that   *)
(* last wrote them (0: bytes the constructor copied in or zero-filled), so *)
(* a property can tell which write data() shows.  The caller of acquire    *)
(* fills the whole space it gets, as AudioConverter::process does right    *)
(* after acquire.  One behaviour is the life of one buffer of one source   *)
(* activation; a constructor starts the next activation's buffer.          *)
(*                                                                         *)
(* Buffer.h is not in the repository: its members are taken to be          *)
(* value-initialised to 0 (m_offset, m_acquiredOffset), which is what the  *)
(* constructors, which never set them, rely on.                            *)
(***************************************************************************)
EXTENDS Naturals, Sequences, FiniteSets

CONSTANTS
  MaxCap,     \* bound on m_buffer.size(); a growth beyond it is not taken
  Sizes,      \* byte counts passed to the constructors, acquire and commit
  Reserves,   \* reservedSize arguments of Buffer(data, size, reservedSize)
  ChunkSizes, \* chunk sizes passed to split
  MaxGen,     \* bound on acquire/commit cycles of one buffer
  SizeWidth   \* bits of size_t in the model (wrap-around of line 47)

ASSUME /\ MaxCap \in Nat \ {0}
       /\ Sizes \subseteq 1..MaxCap
       /\ Reserves \subseteq 0..MaxCap
       /\ ChunkSizes \subseteq Nat \ {0}
       /\ MaxGen \in Nat \ {0}
       /\ 2^SizeWidth > 4 * MaxCap

Modulus == 2^SizeWidth

\* Byte positions the model keeps contents for.
Slots == 0..MaxCap-1

VARIABLES
  cap,            \* m_buffer.size()
  offset,         \* m_offset
  size,           \* m_size
  acquiredOffset, \* m_acquiredOffset
  mem,            \* mem[i]: number of the acquire that wrote byte i
  window,         \* the space the last acquire handed out
  gen,            \* acquires so far on this buffer
  pending         \* an acquire whose commit has not happened yet

vars == <<cap, offset, size, acquiredOffset, mem, window, gen, pending>>

NoWindow == [start |-> 0, len |-> 0]

\* The positions data()/size() expose (lines 30-38).
Committed == offset..(offset + size - 1)

TypeOK ==
  /\ cap \in 0..MaxCap
  /\ offset \in 0..(Modulus - 1)
  /\ size \in 0..MaxCap
  /\ acquiredOffset \in 0..(Modulus - 1)
  /\ mem \in [Slots -> 0..MaxGen]
  /\ window \in [start : 0..(Modulus - 1), len : 0..MaxCap]
  /\ gen \in 0..MaxGen
  /\ pending \in BOOLEAN

-----------------------------------------------------------------------------
(* Constructors: each starts the buffer of a new activation.              *)

\* Bytes of the store after a resize to c: old bytes kept, new ones zero.
Resized(c) == [i \in Slots |-> IF i < c THEN mem[i] ELSE 0]

Reset(c, s) ==
  /\ cap' = c
  /\ size' = s
  /\ offset' = 0
  /\ acquiredOffset' = 0
  /\ mem' = [i \in Slots |-> 0]
  /\ window' = NoWindow
  /\ gen' = 0
  /\ pending' = FALSE

\* Buffer(size): reserve size bytes, nothing committed (lines 13-17).
BufferEmpty(n) ==
  /\ ~pending
  /\ Reset(n, 0)

\* Buffer(data, size, reservedSize): copy size bytes in (lines 19-24).
BufferFrom(n, r) ==
  /\ ~pending
  /\ Reset(IF n >= r THEN n ELSE r, n)

-----------------------------------------------------------------------------
(* acquire(size), lines 40-56.                                            *)

FrontFitsOffByOne(n) == offset + 1 >= n

\* Space in front of the committed region is large enough (line 43).
FrontFits(n) == offset >= n

\* sizeAtBack, computed in size_t (line 47): wraps when the committed
\* region reaches past the store.
SizeAtBack == (cap - offset - size) % Modulus

\* The caller writes the n bytes of the space at start; what lies past the
\* store is not kept.
Fill(start, n, c) ==
  [i \in Slots |-> IF start <= i /\ i < start + n /\ i < c THEN gen + 1
                   ELSE IF i < c THEN Resized(c)[i] ELSE 0]

\* Lines 43-45: hand out m_buffer.data(); m_acquiredOffset is left alone.
AcquireFront(n) ==
  /\ ~pending
  /\ gen < MaxGen
  /\ FrontFits(n)
  /\ mem' = Fill(0, n, cap)
  /\ window' = [start |-> 0, len |-> n]
  /\ gen' = gen + 1
  /\ pending' = TRUE
  /\ UNCHANGED <<cap, offset, size, acquiredOffset>>

\* Lines 47-51: space behind the committed region.
AcquireBack(n) ==
  /\ ~pending
  /\ gen < MaxGen
  /\ ~FrontFits(n)
  /\ SizeAtBack >= n
  /\ acquiredOffset' = (offset + size) % Modulus
  /\ mem' = Fill(acquiredOffset', n, cap)
  /\ window' = [start |-> acquiredOffset', len |-> n]
  /\ gen' = gen + 1
  /\ pending' = TRUE
  /\ UNCHANGED <<cap, offset, size>>

\* Lines 52-55: grow the store so that the space fits behind the region.
AcquireGrow(n) ==
  /\ ~pending
  /\ gen < MaxGen
  /\ ~FrontFits(n)
  /\ SizeAtBack < n
  /\ cap' = (cap - SizeAtBack + n) % Modulus
  /\ cap' <= MaxCap
  /\ acquiredOffset' = (offset + size) % Modulus
  /\ mem' = Fill(acquiredOffset', n, cap')
  /\ window' = [start |-> acquiredOffset', len |-> n]
  /\ gen' = gen + 1
  /\ pending' = TRUE
  /\ UNCHANGED <<offset, size>>

\* commit(size), lines 58-62: publish m bytes of the last acquire.
Commit(m) ==
  /\ pending
  /\ m <= window.len
  /\ offset' = acquiredOffset
  /\ size' = m
  /\ pending' = FALSE
  /\ UNCHANGED <<cap, acquiredOffset, mem, window, gen>>

-----------------------------------------------------------------------------
(* split(size), lines 64-72: one view of `size` bytes at every multiple of *)
(* size below m_size, each copied from data()+i.                           *)

RECURSIVE SplitFrom(_, _)
SplitFrom(i, c) ==
  IF i >= size THEN <<>>
  ELSE <<[start |-> offset + i, len |-> c]>> \o SplitFrom(i + c, c)

Split(c) == SplitFrom(0, c)

\* Positions a view covers.
Covered(v) == v.start..(v.start + v.len - 1)

-----------------------------------------------------------------------------
Init ==
  \E n \in Sizes, r \in Reserves :
    /\ cap = IF n >= r THEN n ELSE r
    /\ size = n
    /\ offset = 0
    /\ acquiredOffset = 0
    /\ mem = [i \in Slots |-> 0]
    /\ window = NoWindow
    /\ gen = 0
    /\ pending = FALSE

Next ==
  \/ \E n \in Sizes : BufferEmpty(n)
  \/ \E n \in Sizes, r \in Reserves : BufferFrom(n, r)
  \/ \E n \in Sizes : AcquireFront(n)
  \/ \E n \in Sizes : AcquireBack(n)
  \/ \E n \in Sizes : AcquireGrow(n)
  \/ \E m \in Sizes : Commit(m)

Spec == Init /\ [][Next]_vars

-----------------------------------------------------------------------------
(* Properties.                                                            *)

\* acquire never hands out space that overlaps the committed region: the
\* caller's write, and the zero fill of a growth, leave every committed byte
\* as it was (spec 3, "acquire never corrupts already-committed bytes").
\* It needs the front, back and grow branches of acquire to agree with the
\* region commit last published, after any history of calls.
AcquireNoClobber ==
  [][(~pending /\ pending') =>
       \A i \in Committed \cap Slots : i < cap => mem'[i] = mem[i]]_vars

\* The committed region, and the space acquire hands out, lie inside the
\* store (spec 3): data() never reads, and the caller of acquire never
\* writes, past the end of m_buffer.
StorageBounds ==
  /\ offset + size <= cap
  /\ pending => window.start + window.len <= cap

\* split(c) partitions the committed region: its views cover exactly the
\* committed bytes, none reaching past them (spec 4.3 and 8).
SplitPartition ==
  \A c \in ChunkSizes :
    LET views == Split(c) IN
      UNION {Covered(views[k]) : k \in 1..Len(views)} = Committed

=============================================================================
