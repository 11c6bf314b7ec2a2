----------------------------- MODULE Memstream -----------------------------
(***************************************************************************)
(* open_memstream for BSD (memstream.c): a stream whose buffer is          *)
(* reallocated at twice its capacity, or more, whenever the next byte and  *)
(* the null byte after it do not fit.  The stream publishes the buffer and *)
(* the size through two pointers of the caller.  realloc may fail, and     *)
(* always does beyond the largest capacity; the ints are taken to be wide  *)
(* enough for that, and positions are not negative.                        *)
(***************************************************************************)
EXTENDS Integers

CONSTANTS
  Byte,             \* 0 among them
  InitialCapacity,  \* 4096
  Doublings,        \* bound: how often the capacity can double
  MaxCount,         \* bound: bytes of one call
  MaxPosition,      \* bound of the positions that the caller seeks
  NoBuffer

Capacities == {InitialCapacity * 2 ^ k : k \in 0 .. Doublings}

ASSUME MemstreamAssumption ==
  /\ 0 \in Byte
  /\ InitialCapacity \in Nat \ {0} /\ Doublings \in Nat
  /\ Capacities \subseteq Nat
  /\ \A c \in Capacities : NoBuffer \notin [0 .. c - 1 -> Byte]
  /\ MaxCount \in Nat /\ MaxPosition \in Nat

VARIABLES
  position, size, capacity,
  contents,  \* the buffer, or NoBuffer after realloc has failed
  block,     \* which allocation the buffer is, counted from 0
  ptr,       \* the allocation in the caller's *ptr
  sizeloc,   \* the caller's *sizeloc
  open,      \* the stream is neither closed nor lost with the program
  got        \* the bytes that the call before returned

streamVars == <<position, size, capacity, contents, block, ptr, sizeloc, open, got>>

Bytes(n) == 0 .. n - 1
NoBytes == [i \in Bytes(0) |-> 0]
Larger(m, n) == IF m < n THEN n ELSE m
Smaller(m, n) == IF m < n THEN m ELSE n

StreamInit ==
  /\ position = 0 /\ size = 0 /\ sizeloc = 0
  /\ capacity = InitialCapacity
  /\ contents = [i \in Bytes(InitialCapacity) |-> 0]
  /\ block = 0 /\ ptr = 0
  /\ open = TRUE /\ got = NoBytes

(* The stream as its buffer has room for the byte minsize: as it is where  *)
(* that is so already, or grown.                                           *)
Buffer(c, bytes, at, published) ==
  [capacity |-> c, contents |-> bytes, block |-> at, ptr |-> published]

NewCapacity(minsize) ==
  {c \in Capacities : /\ c > capacity /\ c > minsize
                      /\ \A d \in Capacities : d > capacity /\ d > minsize => c <= d}

Extended(c) == [i \in Bytes(c) |-> IF i < capacity THEN contents[i] ELSE 0]

(* Mutants of memstream_grow: what is asked for and no more; the caller's  *)
(* pointer stays; the new part is not cleared.                             *)
memstream_grow_tight(minsize) ==
  {Buffer(minsize + 1, Extended(minsize + 1), block + 1, block + 1)}

memstream_grow_unpublished(minsize) ==
  {Buffer(c, Extended(c), block + 1, ptr) : c \in NewCapacity(minsize)}

memstream_grow_uncleared(minsize) ==
  {Buffer(c, [i \in Bytes(c) |-> contents[i % capacity]], block + 1, block + 1) :
     c \in NewCapacity(minsize)}

memstream_grow(minsize) ==
  {Buffer(c, Extended(c), block + 1, block + 1) : c \in NewCapacity(minsize)}

(* A mutant of Room: no room is kept for the null byte.                    *)
RoomWithoutNull(minsize) ==
  IF minsize <= capacity THEN {Buffer(capacity, contents, block, ptr)}
                         ELSE memstream_grow(minsize)

Room(minsize) ==
  IF minsize < capacity THEN {Buffer(capacity, contents, block, ptr)}
                        ELSE memstream_grow(minsize)

Usable == open /\ contents # NoBuffer

memstream_write(count, buf) ==
  /\ Usable
  /\ \E b \in Room(position + count) :
       /\ contents' = [i \in Bytes(b.capacity) |->
                         IF i \in position .. position + count - 1
                           THEN buf[i - position] ELSE b.contents[i]]
       /\ capacity' = b.capacity /\ block' = b.block /\ ptr' = b.ptr
  /\ position' = position + count
  /\ size' = Larger(size, position + count)
  /\ sizeloc' = (IF size < position + count THEN position + count ELSE sizeloc)
  /\ got' = NoBytes
  /\ UNCHANGED open

write_fails(count) ==
  /\ Usable /\ position + count >= capacity
  /\ contents' = NoBuffer /\ got' = NoBytes
  /\ UNCHANGED <<position, size, capacity, block, ptr, sizeloc, open>>

(* As many bytes as there are from the position on, but copied from the    *)
(* beginning of the buffer.                                                *)
memstream_read(count) ==
  /\ Usable
  /\ LET n == Smaller(size - position, count) IN
       /\ got' = [i \in Bytes(n) |-> contents[i]]
       /\ position' = position + n
  /\ UNCHANGED <<size, capacity, contents, block, ptr, sizeloc, open>>

memstream_seek(pos) ==
  /\ Usable
  /\ \E b \in Room(pos) :
       /\ contents' = b.contents
       /\ capacity' = b.capacity /\ block' = b.block /\ ptr' = b.ptr
  /\ position' = pos
  /\ size' = Larger(size, pos)
  /\ sizeloc' = (IF size < pos THEN pos ELSE sizeloc)
  /\ got' = NoBytes
  /\ UNCHANGED open

(* The result of memstream_grow is not looked at: the position is moved    *)
(* beyond the capacity, the assert of line 137 fails, and the program ends.*)
seek_fails(pos) ==
  /\ Usable /\ pos >= capacity
  /\ contents' = NoBuffer /\ got' = NoBytes
  /\ open' = FALSE
  /\ position' = pos
  /\ size' = Larger(size, pos)
  /\ sizeloc' = (IF size < pos THEN pos ELSE sizeloc)
  /\ UNCHANGED <<capacity, block, ptr>>

memstream_close ==
  /\ open /\ open' = FALSE /\ got' = NoBytes
  /\ IF contents = NoBuffer
       THEN UNCHANGED <<size, contents, ptr, sizeloc>>
       ELSE LET n == Smaller(size, position) IN
              /\ size' = n /\ sizeloc' = n
              /\ ptr' = block
              /\ contents' = [contents EXCEPT ![n] = 0]
  /\ UNCHANGED <<position, capacity, block>>

StreamNext ==
  \/ \E n \in 1 .. MaxCount : \E buf \in [Bytes(n) -> Byte] : memstream_write(n, buf)
  \/ \E n \in 1 .. MaxCount : write_fails(n) \/ memstream_read(n)
  \/ \E pos \in 0 .. MaxPosition : memstream_seek(pos) \/ seek_fails(pos)
  \/ memstream_close

StreamSpec == StreamInit /\ [][StreamNext]_streamVars

-----------------------------------------------------------------------------
ByteStrings == UNION {[Bytes(n) -> Byte] : n \in 0 .. MaxCount}

StreamTypeOK ==
  /\ position \in Nat /\ size \in Nat /\ sizeloc \in Nat
  /\ capacity \in Capacities
  /\ contents = NoBuffer \/ contents \in [Bytes(capacity) -> Byte]
  /\ block \in Nat /\ ptr \in 0 .. block
  /\ open \in BOOLEAN
  /\ got \in ByteStrings

(* "A null byte is maintained at the end of the buffer": as long as there  *)
(* is a buffer there is room for it and it is there, after every call and  *)
(* after the stream was closed (memstream.c lines 30-31, 118-119,          *)
(* 146-147).  A move of the position for which memory runs out has lost    *)
(* the buffer, and fails the assert of line 137.                           *)
NullByteAtEnd ==
  contents # NoBuffer => size < capacity /\ contents[size] = 0

(* The caller's pointers show the buffer that is in use, which realloc may *)
(* have moved, and its size (memstream.c lines 91-95, 117, 136, 145-146).  *)
Published ==
  contents # NoBuffer => ptr = block /\ sizeloc = size

(* What the caller finds through its two pointers.                         *)
Shown ==
  [i \in Bytes(sizeloc) |-> IF ptr = block THEN contents[i] ELSE NoBuffer]

File == INSTANCE MemFile WITH
  data <- IF contents = NoBuffer THEN [i \in {} |-> 0] ELSE Shown,
  position <- IF contents = NoBuffer THEN 0 ELSE position,
  state <- IF contents = NoBuffer THEN "lost" ELSE IF open THEN "open" ELSE "closed"

(* The program that prints to the stream finds through its pointers what   *)
(* was written, with zeros where the position was moved past the end, for  *)
(* any sequence of writes, reads and moves (memstream.c lines 16-35,       *)
(* 87-150).  What a read returns is the matter of ReadFromPosition.        *)
ImplementsMemFile == File!Spec

(* "The stream's file position can be changed" (memstream.c lines 33-35):  *)
(* what is read is what stands at the position and after it.  The copy of  *)
(* line 104 begins at the first byte of the buffer instead.                *)
ReadFromPosition ==
  [][got' # NoBytes =>
       got' = [i \in Bytes(position' - position) |-> contents[position + i]]]_streamVars
=============================================================================
