----------------------------- MODULE EventStore -----------------------------
(***************************************************************************)
(* Retention of events under a budget (crates/core/src/store.rs).  Memory  *)
(* may run out at any allocation; no allocation may happen that is not     *)
(* asked for first, since such a one would abort the module.               *)
(*                                                                         *)
(* A definition named X_Y is X with the mistake Y in it.                   *)
(***************************************************************************)
EXTENDS Integers, Sequences, FiniteSets, Functions

CONSTANTS
  Events,        \* events as they are offered: the size of their bytes, and the rest
  Columns,       \* the names of the columns, in the order they are reserved
  BytesPerEvent, \* BYTES_PER_EVENT
  ChunkBytes,    \* CHUNK_BYTES
  ColumnGrowth,  \* COLUMN_GROWTH
  Budget,        \* budget_bytes
  MaxEvents      \* bound of the model: events offered

ASSUME StoreAssumption ==
  /\ \A e \in Events : e.size \in Nat
  /\ Columns \in Seq(STRING) /\ Columns # <<>>
  /\ {BytesPerEvent, ChunkBytes, ColumnGrowth} \subseteq Nat \ {0}
  /\ {Budget, MaxEvents} \subseteq Nat

VARIABLES
  rows,        \* what the columns hold of each event: the event, and where its bytes are
  capacity,    \* the room of each column
  chunks,      \* length and capacity of each chunk
  chunkBytes,  \* chunk_bytes
  stopped,     \* "no", "Budget" or "OutOfMemory"
  archive      \* history: the events offered

storeVars == <<rows, capacity, chunks, chunkBytes, stopped, archive>>

StoreTypeOK ==
  /\ rows \in Seq([event : Events, chunk : Nat \ {0}, offset : Nat, length : Nat])
  /\ capacity \in [1 .. Len(Columns) -> Nat]
  /\ chunks \in Seq([len : Nat, capacity : Nat])
  /\ chunkBytes \in Nat
  /\ stopped \in {"no", "Budget", "OutOfMemory"}
  /\ archive \in Seq(Events)

-----------------------------------------------------------------------------
StoreInit ==
  /\ rows = <<>>
  /\ capacity = [c \in 1 .. Len(Columns) |-> 0]
  /\ chunks = <<>>
  /\ chunkBytes = 0
  /\ stopped = "no"
  /\ archive = <<>>

BytesUsed == chunkBytes + Len(rows) * BytesPerEvent

(* try_reserve: room for n more, at least doubled. *)
Reserved(cap, len, n) ==
  IF cap - len >= n THEN cap
  ELSE IF len + n > 2 * cap THEN len + n ELSE 2 * cap

(* reserve_columns asks the first column on behalf of all of them. *)
ColumnsHaveRoom == Len(rows) < capacity[1]
GrownColumns_NotTheLast ==
  [c \in 1 .. Len(Columns) |->
     IF c < Len(Columns) THEN Reserved(capacity[c], Len(rows), ColumnGrowth) ELSE capacity[c]]
GrownColumns == [c \in 1 .. Len(Columns) |-> Reserved(capacity[c], Len(rows), ColumnGrowth)]

ChunkHasRoom(size) ==
  chunks # <<>> /\ chunks[Len(chunks)].capacity - chunks[Len(chunks)].len >= size

(* The last chunk without its slack: only the last one ever has any. *)
Shrunk(cs) ==
  [i \in DOMAIN cs |->
     IF i = Len(cs) THEN [len |-> cs[i].len, capacity |-> cs[i].len] ELSE cs[i]]
WithNewChunk(size) ==
  Append(Shrunk(chunks), [len |-> 0, capacity |-> IF size > ChunkBytes THEN size ELSE ChunkBytes])

stop_KeepsGoing(reason) ==
  /\ capacity' = [c \in 1 .. Len(Columns) |-> Len(rows)]
  /\ chunks' = Shrunk(chunks)
  /\ UNCHANGED <<stopped, rows, chunkBytes>>
stop(reason) ==
  /\ stopped' = reason
  /\ capacity' = [c \in 1 .. Len(Columns) |-> Len(rows)]
  /\ chunks' = Shrunk(chunks)
  /\ UNCHANGED <<rows, chunkBytes>>

(* The event's bytes at the end of the last of the chunks cs. *)
Retain_ForgetsBytes(e, cs, cap) ==
  LET last == cs[Len(cs)] IN
    /\ rows' = Append(rows, [event |-> e, chunk |-> Len(cs), offset |-> last.len, length |-> e.size])
    /\ chunks' = [i \in DOMAIN cs |->
                    IF i = Len(cs) THEN [len |-> last.len + e.size, capacity |-> last.capacity] ELSE cs[i]]
    /\ capacity' = cap
    /\ UNCHANGED <<stopped, chunkBytes>>
Retain_AtChunkStart(e, cs, cap) ==
  LET last == cs[Len(cs)] IN
    /\ rows' = Append(rows, [event |-> e, chunk |-> Len(cs), offset |-> 0, length |-> e.size])
    /\ chunks' = [i \in DOMAIN cs |->
                    IF i = Len(cs) THEN [len |-> last.len + e.size, capacity |-> last.capacity] ELSE cs[i]]
    /\ chunkBytes' = chunkBytes + e.size
    /\ capacity' = cap
    /\ UNCHANGED stopped
Retain(e, cs, cap) ==
  LET last == cs[Len(cs)] IN
    /\ rows' = Append(rows, [event |-> e, chunk |-> Len(cs), offset |-> last.len, length |-> e.size])
    /\ chunks' = [i \in DOMAIN cs |->
                    IF i = Len(cs) THEN [len |-> last.len + e.size, capacity |-> last.capacity] ELSE cs[i]]
    /\ chunkBytes' = chunkBytes + e.size
    /\ capacity' = cap
    /\ UNCHANGED stopped

(* push: which allocations succeed is the environment's choice. *)
push(e) ==
  /\ archive' = Append(archive, e)
  /\ IF stopped # "no" THEN UNCHANGED <<rows, capacity, chunks, chunkBytes, stopped>>
     ELSE IF BytesUsed + e.size + BytesPerEvent > Budget THEN stop("Budget")
     ELSE \/ ~ColumnsHaveRoom /\ stop("OutOfMemory")
          \/ LET cap == IF ColumnsHaveRoom THEN capacity ELSE GrownColumns IN
               IF ChunkHasRoom(e.size) THEN Retain(e, chunks, cap)
               ELSE stop("OutOfMemory") \/ Retain(e, WithNewChunk(e.size), cap)

-----------------------------------------------------------------------------
(* Every allocation is fallible: no column and no chunk ever takes more than
   the room that was reserved for it. *)
NothingGrowsUnasked ==
  /\ \A c \in 1 .. Len(Columns) : Len(rows) <= capacity[c]
  /\ \A i \in DOMAIN chunks : chunks[i].len <= chunks[i].capacity

(* What the events retained take up stays within the budget, counted from the
   events themselves. *)
BudgetIsKept ==
  SumFunction([i \in DOMAIN rows |-> rows[i].length + BytesPerEvent]) <= Budget

(* Every event reads back as it was: its bytes lie within its chunk and are its
   own. *)
BytesReadBack ==
  /\ \A i \in DOMAIN rows :
       /\ rows[i].length = rows[i].event.size
       /\ rows[i].chunk <= Len(chunks)
       /\ rows[i].offset + rows[i].length <= chunks[rows[i].chunk].len
  /\ \A i, j \in DOMAIN rows :
       i < j /\ rows[i].chunk = rows[j].chunk => rows[i].offset + rows[i].length <= rows[j].offset

(* The events retained are the first ones of the archive, all of them until
   retention stops: none is left out, and none is taken after that. *)
RetainedIsAPrefix ==
  /\ Len(rows) <= Len(archive)
  /\ \A i \in DOMAIN rows : rows[i].event = archive[i]
  /\ stopped = "no" => Len(rows) = Len(archive)

=============================================================================
