-------------------------- MODULE EventStoreProofs --------------------------
(***************************************************************************)
(* For every budget, chunk size, number of columns and growth, and however *)
(* the allocations fail: no column or chunk outgrows its room, what is     *)
(* retained is a prefix of the archive that reads back, and the budget     *)
(* holds.                                                                  *)
(***************************************************************************)
EXTENDS EventQuery, Sums, SequenceTheorems, TLAPS

(* The columns grow in step, so asking the first one speaks for all. *)
ColumnsInStep == \A c \in 1 .. Len(Columns) : capacity[c] = capacity[1]

(* What push keeps account of, against what it may use. *)
WithinBudget == BytesUsed <= Budget

(* ... and it is what the retained events take up. *)
Footprint == [i \in DOMAIN rows |-> rows[i].length + BytesPerEvent]
Accounted == BytesUsed = SumFunctionOnSet(Footprint, DOMAIN rows)

StoreInv ==
  /\ StoreTypeOK
  /\ ColumnsInStep
  /\ NothingGrowsUnasked
  /\ BytesReadBack
  /\ RetainedIsAPrefix
  /\ WithinBudget
  /\ Accounted

Chunk == [len : Nat, capacity : Nat]
RowOf == [event : Events, chunk : Nat \ {0}, offset : Nat, length : Nat]

(* Chunks that push may put an event of this size into: those there are, or
   one more, with room in the last. *)
Fits(cs, size) ==
  /\ cs \in Seq(Chunk) /\ cs # <<>>
  /\ Len(chunks) <= Len(cs)
  /\ \A i \in 1 .. Len(chunks) : cs[i].len = chunks[i].len
  /\ \A i \in 1 .. Len(cs) : cs[i].len <= cs[i].capacity
  /\ cs[Len(cs)].len + size <= cs[Len(cs)].capacity

(* Capacities that have room for one more row in every column. *)
HasRoom(cap) ==
  /\ cap \in [1 .. Len(Columns) -> Nat]
  /\ \A c \in 1 .. Len(Columns) : cap[c] = cap[1] /\ Len(rows) + 1 <= cap[c]

-----------------------------------------------------------------------------
(* The first column exists. *)
LEMMA FirstColumn == Len(Columns) \in Nat /\ 1 \in 1 .. Len(Columns)
<1>1. Columns \in Seq(STRING) /\ Columns # <<>>
  BY StoreAssumption
<1> QED BY <1>1, EmptySeq, LenProperties

(* Growing the columns, when the first has no room left, gives all of them some. *)
LEMMA GrowingMakesRoom ==
  ASSUME StoreInv
  PROVE  HasRoom(IF ColumnsHaveRoom THEN capacity ELSE GrownColumns)
<1>1. /\ capacity \in [1 .. Len(Columns) -> Nat]
      /\ Len(rows) \in Nat
      /\ ColumnGrowth \in Nat \ {0}
      /\ \A c \in 1 .. Len(Columns) : capacity[c] = capacity[1]
  BY StoreAssumption DEF StoreInv, StoreTypeOK, ColumnsInStep
<1>2. CASE ColumnsHaveRoom
  BY <1>1, <1>2, FirstColumn DEF ColumnsHaveRoom, HasRoom
<1>3. CASE ~ColumnsHaveRoom
  <2>1. \A c \in 1 .. Len(Columns) :
          /\ GrownColumns[c] = Reserved(capacity[1], Len(rows), ColumnGrowth)
          /\ GrownColumns[c] \in Nat
          /\ Len(rows) + 1 <= GrownColumns[c]
    BY <1>1, FirstColumn DEF GrownColumns, Reserved
  <2>2. GrownColumns \in [1 .. Len(Columns) -> Nat]
    BY <2>1 DEF GrownColumns
  <2> QED BY <1>3, <2>1, <2>2, FirstColumn DEF HasRoom
<1> QED BY <1>2, <1>3

(* Giving back slack moves nothing. *)
LEMMA ShrinkingKeeps ==
  ASSUME StoreInv
  PROVE  /\ Shrunk(chunks) \in Seq(Chunk)
         /\ Len(Shrunk(chunks)) = Len(chunks)
         /\ \A i \in 1 .. Len(chunks) :
              /\ Shrunk(chunks)[i].len = chunks[i].len
              /\ Shrunk(chunks)[i].len <= Shrunk(chunks)[i].capacity
<1>1. /\ chunks \in Seq(Chunk)
      /\ \A i \in 1 .. Len(chunks) : chunks[i].len <= chunks[i].capacity
  BY DEF StoreInv, StoreTypeOK, NothingGrowsUnasked, Chunk
<1>2. \A i \in 1 .. Len(chunks) : chunks[i] \in Chunk
  BY <1>1, ElementOfSeq
<1>3. \A i \in 1 .. Len(chunks) :
        /\ Shrunk(chunks)[i] \in Chunk
        /\ Shrunk(chunks)[i].len = chunks[i].len
        /\ Shrunk(chunks)[i].len <= Shrunk(chunks)[i].capacity
  BY <1>1, <1>2 DEF Shrunk, Chunk
<1>4. DOMAIN chunks = 1 .. Len(chunks) /\ Len(chunks) \in Nat
  BY <1>1, LenProperties
<1>5. Shrunk(chunks) = [i \in 1 .. Len(chunks) |-> Shrunk(chunks)[i]]
  BY <1>4 DEF Shrunk
<1> HIDE DEF Shrunk
<1>6. Shrunk(chunks) \in [1 .. Len(chunks) -> Chunk]
  BY <1>3, <1>5
<1>7. Shrunk(chunks) \in Seq(Chunk)
  BY <1>4, <1>6, SeqDef
<1>8. Len(Shrunk(chunks)) = Len(chunks)
  BY <1>4, <1>6, <1>7, LenProperties
<1> QED BY <1>3, <1>7, <1>8

(* The chunk in use fits the event, or a new one does. *)
LEMMA SomeChunkFits ==
  ASSUME StoreInv, NEW e \in Events
  PROVE  /\ ChunkHasRoom(e.size) => Fits(chunks, e.size)
         /\ Fits(WithNewChunk(e.size), e.size)
<1>1. /\ chunks \in Seq(Chunk)
      /\ \A i \in 1 .. Len(chunks) : chunks[i].len <= chunks[i].capacity
      /\ e.size \in Nat /\ ChunkBytes \in Nat
  BY StoreAssumption DEF StoreInv, StoreTypeOK, NothingGrowsUnasked, Chunk
<1>2. Len(chunks) \in Nat /\ \A i \in 1 .. Len(chunks) : chunks[i] \in Chunk
  BY <1>1, ElementOfSeq
<1>3. ASSUME ChunkHasRoom(e.size) PROVE Fits(chunks, e.size)
  <2>1. chunks # <<>> /\ chunks[Len(chunks)].capacity - chunks[Len(chunks)].len >= e.size
    BY <1>3 DEF ChunkHasRoom
  <2>2. Len(chunks) \in 1 .. Len(chunks)
    BY <1>1, <1>2, <2>1, EmptySeq
  <2>3. chunks[Len(chunks)].len \in Nat /\ chunks[Len(chunks)].capacity \in Nat
    BY <1>2, <2>2 DEF Chunk
  <2> QED BY <1>1, <1>2, <2>1, <2>3 DEF Fits
<1>4. Fits(WithNewChunk(e.size), e.size)
  <2> DEFINE room == IF e.size > ChunkBytes THEN e.size ELSE ChunkBytes
             new == [len |-> 0, capacity |-> room]
             old == Shrunk(chunks)
  <2>1. new \in Chunk /\ new.len = 0 /\ new.capacity = room /\ e.size <= room /\ room \in Nat
    BY <1>1 DEF Chunk
  <2>2. WithNewChunk(e.size) = Append(old, new)
    BY DEF WithNewChunk
  <2>3. /\ old \in Seq(Chunk) /\ Len(old) = Len(chunks)
        /\ \A i \in 1 .. Len(chunks) : old[i].len = chunks[i].len /\ old[i].len <= old[i].capacity
    BY ShrinkingKeeps
  <2> HIDE DEF old, new, room
  <2>4. /\ Append(old, new) \in Seq(Chunk)
        /\ Len(Append(old, new)) = Len(chunks) + 1
        /\ \A i \in 1 .. Len(chunks) : Append(old, new)[i] = old[i]
        /\ Append(old, new)[Len(chunks) + 1] = new
    BY <2>1, <2>3, AppendProperties
  <2>5. Append(old, new) # <<>>
    BY <1>2, <2>4
  <2>6. \A i \in 1 .. Len(chunks) + 1 : Append(old, new)[i].len <= Append(old, new)[i].capacity
    BY <1>2, <2>1, <2>3, <2>4
  <2> QED BY <1>1, <1>2, <2>1, <2>2, <2>3, <2>4, <2>5, <2>6 DEF Fits
<1> QED BY <1>3, <1>4

-----------------------------------------------------------------------------
(* Retaining an event in a chunk that fits it. *)
LEMMA RetainStep ==
  ASSUME StoreInv, stopped = "no", NEW e \in Events,
         BytesUsed + e.size + BytesPerEvent <= Budget,
         NEW cs, Fits(cs, e.size), NEW cap, HasRoom(cap),
         Retain(e, cs, cap), archive' = Append(archive, e)
  PROVE  StoreInv'
<1> DEFINE n == Len(rows)
           last == cs[Len(cs)]
           row == [event |-> e, chunk |-> Len(cs), offset |-> last.len, length |-> e.size]
           filled == [len |-> last.len + e.size, capacity |-> last.capacity]
<1>1. /\ rows \in Seq(RowOf) /\ n \in Nat
      /\ archive \in Seq(Events) /\ Len(archive) = n
      /\ chunkBytes \in Nat /\ e.size \in Nat /\ BytesPerEvent \in Nat
      /\ Len(chunks) \in Nat
  BY StoreAssumption DEF StoreInv, StoreTypeOK, RetainedIsAPrefix, RowOf
<1>2. /\ cs \in Seq(Chunk) /\ Len(cs) \in Nat \ {0} /\ DOMAIN cs = 1 .. Len(cs)
      /\ \A i \in 1 .. Len(cs) : cs[i] \in Chunk
      /\ Len(cs) \in 1 .. Len(cs)
  <2>1. cs \in Seq(Chunk) /\ cs # <<>>
    BY DEF Fits
  <2>2. Len(cs) \in Nat \ {0}
    BY <2>1, EmptySeq
  <2> QED BY <2>1, <2>2, LenProperties, ElementOfSeq
<1>3. last.len \in Nat /\ last.capacity \in Nat
  BY <1>2 DEF Chunk
<1>4. row \in RowOf
  BY <1>1, <1>2, <1>3 DEF RowOf
<1>5. /\ rows' \in Seq(RowOf) /\ Len(rows') = n + 1
      /\ \A i \in 1 .. n : rows'[i] = rows[i]
      /\ rows'[n + 1] = row
      /\ DOMAIN rows' = 1 .. n + 1
  <2>1. rows' = Append(rows, row)
    BY DEF Retain
  <2> HIDE DEF row
  <2>2. /\ rows' \in Seq(RowOf) /\ Len(rows') = n + 1
        /\ \A i \in 1 .. n : rows'[i] = rows[i]
        /\ rows'[n + 1] = row
    BY <1>1, <1>4, <2>1, AppendProperties
  <2> QED BY <2>2, LenProperties
<1>6. /\ archive' \in Seq(Events) /\ Len(archive') = n + 1
      /\ \A i \in 1 .. n : archive'[i] = archive[i]
      /\ archive'[n + 1] = e
  BY <1>1, AppendProperties
<1>7. /\ chunks' \in Seq(Chunk) /\ Len(chunks') = Len(cs) /\ DOMAIN chunks' = 1 .. Len(cs)
      /\ \A i \in 1 .. Len(cs) :
           chunks'[i] = IF i = Len(cs) THEN filled ELSE cs[i]
  <2>1. filled \in Chunk
    BY <1>1, <1>3 DEF Chunk
  <2>2. chunks' = [i \in 1 .. Len(cs) |-> IF i = Len(cs) THEN filled ELSE cs[i]]
    BY <1>2 DEF Retain
  <2> HIDE DEF filled
  <2>3. chunks' \in [1 .. Len(cs) -> Chunk]
    BY <1>2, <2>1, <2>2
  <2>4. chunks' \in Seq(Chunk)
    BY <1>2, <2>3, SeqDef
  <2>5. Len(chunks') = Len(cs)
    BY <1>2, <2>3, <2>4, LenProperties
  <2> QED BY <2>2, <2>3, <2>4, <2>5
<1>8. capacity' = cap /\ chunkBytes' = chunkBytes + e.size /\ stopped' = stopped
  BY DEF Retain
<1>9. n <= Len(archive) /\ \A i \in 1 .. n : rows[i].event = archive[i] /\ rows[i] \in RowOf
  <2>1. \A i \in 1 .. n : rows[i] \in RowOf
    BY <1>1, ElementOfSeq
  <2>2. DOMAIN rows = 1 .. n
    BY <1>1, LenProperties
  <2> QED BY <1>1, <2>1, <2>2 DEF StoreInv, RetainedIsAPrefix
<1>10. StoreTypeOK'
  <2>1. rows' \in Seq(RowOf) /\ chunks' \in Seq(Chunk) /\ archive' \in Seq(Events)
    BY <1>5, <1>6, <1>7
  <2>2. capacity' \in [1 .. Len(Columns) -> Nat] /\ chunkBytes' \in Nat
    BY <1>1, <1>8 DEF HasRoom
  <2>3. stopped' \in {"no", "Budget", "OutOfMemory"}
    BY <1>8 DEF StoreInv, StoreTypeOK
  <2> QED BY <2>1, <2>2, <2>3 DEF StoreTypeOK, RowOf, Chunk
<1>11. ColumnsInStep'
  BY <1>8 DEF ColumnsInStep, HasRoom
<1>12. NothingGrowsUnasked'
  <2>1. \A c \in 1 .. Len(Columns) : Len(rows') <= capacity'[c]
    BY <1>1, <1>5, <1>8 DEF HasRoom
  <2>2. \A i \in 1 .. Len(cs) : chunks'[i].len <= chunks'[i].capacity
    BY <1>2, <1>3, <1>7 DEF Fits
  <2> QED BY <1>7, <2>1, <2>2 DEF NothingGrowsUnasked
<1>13. BytesReadBack'
  <2> DEFINE End(r) == r.offset + r.length
  <2>1. /\ DOMAIN rows = 1 .. n
        /\ \A i \in 1 .. n :
             /\ rows[i].length = rows[i].event.size /\ rows[i].chunk \in Nat \ {0}
             /\ rows[i].chunk <= Len(chunks)
             /\ End(rows[i]) <= chunks[rows[i].chunk].len
        /\ \A i, j \in 1 .. n :
             i < j /\ rows[i].chunk = rows[j].chunk => End(rows[i]) <= rows[j].offset
    <3>1. DOMAIN rows = 1 .. n
      BY <1>1, LenProperties
    <3> QED BY <1>9, <3>1 DEF StoreInv, BytesReadBack, RowOf
  <2>2. row.event = e /\ row.chunk = Len(cs) /\ row.offset = last.len /\ row.length = e.size
    OBVIOUS
  <2>3. /\ Len(chunks) <= Len(cs)
        /\ \A i \in 1 .. Len(chunks) : cs[i].len = chunks[i].len
    BY DEF Fits
  <2>4. \A i \in 1 .. n :
          /\ rows[i].chunk \in 1 .. Len(chunks) /\ rows[i].chunk \in 1 .. Len(cs)
          /\ End(rows[i]) <= cs[rows[i].chunk].len
    <3> SUFFICES ASSUME NEW i \in 1 .. n
                 PROVE  /\ rows[i].chunk \in 1 .. Len(chunks) /\ rows[i].chunk \in 1 .. Len(cs)
                        /\ End(rows[i]) <= cs[rows[i].chunk].len
      OBVIOUS
    <3> HIDE DEF End
    <3>1. /\ rows[i].chunk \in Nat \ {0} /\ rows[i].chunk <= Len(chunks)
          /\ End(rows[i]) <= chunks[rows[i].chunk].len
      BY <2>1
    <3>2. rows[i].chunk \in 1 .. Len(chunks) /\ rows[i].chunk \in 1 .. Len(cs)
      BY <1>1, <1>2, <2>3, <3>1
    <3> QED BY <2>3, <3>1, <3>2
  <2>5. filled.len = last.len + e.size /\ filled.len \in Nat /\ filled.len >= last.len
    BY <1>1, <1>3
  <2>6. /\ Len(chunks') = Len(cs) /\ Len(cs) \in Nat /\ DOMAIN chunks' = 1 .. Len(cs)
        /\ \A k \in 1 .. Len(cs) : k # Len(cs) => chunks'[k] = cs[k]
        /\ chunks'[Len(cs)] = filled
    BY <1>2, <1>7
  <2>7. Len(chunks') = Len(cs) /\ Len(cs) \in Nat
    BY <2>6
  <2> DEFINE count == Len(cs)
             newCount == Len(chunks')
  <2>8. \A k \in 1 .. Len(cs) : k <= Len(chunks')
    <3>1. newCount = count /\ count \in Nat
      BY <2>7
    <3> HIDE DEF count, newCount
    <3>2. \A k \in 1 .. count : k <= newCount
      BY <3>1
    <3> QED BY <3>2 DEF count, newCount
  <2>9. Len(cs) <= Len(chunks')
    BY <1>2, <2>8
  <2> HIDE DEF row, filled, last
  <2>10. \A k \in 1 .. Len(cs) :
          chunks'[k].len \in Nat /\ cs[k].len \in Nat /\ chunks'[k].len >= cs[k].len
    <3> SUFFICES ASSUME NEW k \in 1 .. Len(cs)
                 PROVE  chunks'[k].len \in Nat /\ cs[k].len \in Nat /\ chunks'[k].len >= cs[k].len
      OBVIOUS
    <3>1. cs[k].len \in Nat
      BY <1>2 DEF Chunk
    <3>2. CASE k = Len(cs)
      <4>1. chunks'[k] = filled /\ cs[k] = last
        BY <2>6, <3>2 DEF last
      <4> QED BY <2>5, <3>1, <4>1
    <3>3. CASE k # Len(cs)
      <4>1. chunks'[k] = cs[k]
        BY <2>6, <3>3
      <4> QED BY <3>1, <4>1
    <3> QED BY <3>2, <3>3
  <2>11. \A i \in 1 .. n + 1 :
          /\ rows'[i].length = rows'[i].event.size
          /\ rows'[i].chunk <= Len(chunks')
          /\ End(rows'[i]) <= chunks'[rows'[i].chunk].len
    <3> SUFFICES ASSUME NEW i \in 1 .. n + 1
                 PROVE  /\ rows'[i].length = rows'[i].event.size
                        /\ rows'[i].chunk <= Len(chunks')
                        /\ End(rows'[i]) <= chunks'[rows'[i].chunk].len
      OBVIOUS
    <3>1. CASE i = n + 1
      <4>1. rows'[i] = row
        BY <1>5, <3>1
      <4>2. End(row) = filled.len
        BY <2>2, <2>5
      <4>3. chunks'[Len(cs)] = filled
        BY <2>6
      <4>4. chunks'[row.chunk].len = filled.len
        BY <2>2, <4>3
      <4>5. row.chunk <= Len(chunks')
        BY <2>2, <2>9
      <4>6. End(row) <= chunks'[row.chunk].len
        BY <2>5, <4>2, <4>4
      <4>7. row.length = row.event.size
        BY <2>2
      <4> HIDE DEF End
      <4> QED BY <4>1, <4>5, <4>6, <4>7
    <3>2. CASE i \in 1 .. n
      <4>1. rows'[i] = rows[i]
        BY <1>5, <3>2
      <4>2. End(rows[i]) \in Nat
        BY <1>9, <3>2 DEF RowOf
      <4> HIDE DEF End
      <4>3. rows[i].chunk \in 1 .. Len(cs) /\ End(rows[i]) <= cs[rows[i].chunk].len
        BY <2>4, <3>2
      <4>4. End(rows[i]) <= chunks'[rows[i].chunk].len
        BY <2>10, <4>2, <4>3
      <4>5. rows[i].length = rows[i].event.size
        BY <2>1, <3>2
      <4>6. rows[i].chunk <= Len(chunks')
        BY <2>8, <4>3
      <4> QED BY <4>1, <4>4, <4>5, <4>6
    <3> QED BY <1>1, <3>1, <3>2
  <2>12. \A i, j \in 1 .. n + 1 :
          i < j /\ rows'[i].chunk = rows'[j].chunk => End(rows'[i]) <= rows'[j].offset
    <3> SUFFICES ASSUME NEW i \in 1 .. n + 1, NEW j \in 1 .. n + 1,
                        i < j, rows'[i].chunk = rows'[j].chunk
                 PROVE  End(rows'[i]) <= rows'[j].offset
      OBVIOUS
    <3>1. i \in 1 .. n /\ rows'[i] = rows[i]
      BY <1>1, <1>5
    <3>2. CASE j \in 1 .. n
      BY <1>5, <2>1, <3>1, <3>2
    <3>3. CASE j = n + 1
      <4>1. rows'[j] = row /\ rows[i].chunk = Len(cs)
        BY <1>5, <2>2, <3>1, <3>3
      <4>2. cs[rows[i].chunk].len = row.offset
        BY <2>2, <4>1 DEF last
      <4> HIDE DEF End
      <4> QED BY <2>4, <3>1, <4>1, <4>2
    <3> QED BY <1>1, <3>2, <3>3
  <2> QED BY <1>5, <2>11, <2>12 DEF BytesReadBack
<1>14. RetainedIsAPrefix'
  <2>1. row.event = e
    OBVIOUS
  <2> HIDE DEF row
  <2>2. \A i \in 1 .. n + 1 : rows'[i].event = archive'[i]
    <3> SUFFICES ASSUME NEW i \in 1 .. n + 1 PROVE rows'[i].event = archive'[i]
      OBVIOUS
    <3>1. CASE i = n + 1
      BY <1>5, <1>6, <2>1, <3>1
    <3>2. CASE i \in 1 .. n
      <4>1. rows'[i] = rows[i] /\ archive'[i] = archive[i]
        BY <1>1, <1>5, <1>6, <3>2
      <4>2. rows[i].event = archive[i]
        BY <1>9, <3>2
      <4> QED BY <4>1, <4>2
    <3> QED BY <1>1, <3>1, <3>2
  <2> QED BY <1>1, <1>5, <1>6, <2>2 DEF RetainedIsAPrefix
<1>15. WithinBudget' /\ Accounted'
  <2>1. /\ (n + 1) * BytesPerEvent = n * BytesPerEvent + BytesPerEvent
        /\ n * BytesPerEvent \in Nat
    BY <1>1
  <2> DEFINE used == n * BytesPerEvent
  <2>2. BytesUsed = chunkBytes + used /\ BytesUsed' = chunkBytes' + (used + BytesPerEvent)
    BY <1>5, <2>1 DEF BytesUsed
  <2> HIDE DEF used
  <2>3. BytesUsed' = BytesUsed + e.size + BytesPerEvent
    BY <1>1, <1>8, <2>1, <2>2 DEF used
  <2>4. WithinBudget'
    BY <2>3 DEF WithinBudget
  <2>5. DOMAIN rows = 1 .. n /\ DOMAIN rows' = (1 .. n) \cup {n + 1} /\ n + 1 \notin 1 .. n
    BY <1>1, <1>5, LenProperties
  <2>6. \A i \in 1 .. n : Footprint[i] = Footprint'[i] /\ Footprint'[i] \in Nat
    <3> TAKE i \in 1 .. n
    <3>1. rows'[i] = rows[i] /\ rows[i] \in RowOf
      BY <1>5, <1>9
    <3>2. Footprint[i] = rows[i].length + BytesPerEvent /\ Footprint'[i] = rows'[i].length + BytesPerEvent
      BY <2>5 DEF Footprint
    <3> QED BY <1>1, <3>1, <3>2 DEF RowOf
  <2>7. Footprint'[n + 1] = e.size + BytesPerEvent
    BY <1>5 DEF Footprint
  <2> DEFINE old == Footprint
             new == Footprint'
  <2>8. SumFunctionOnSet(new, (1 .. n) \cup {n + 1}) = new[n + 1] + SumFunctionOnSet(new, 1 .. n)
    <3>1. \A i \in (1 .. n) \cup {n + 1} : new[i] \in Nat
      BY <1>1, <2>6, <2>7
    <3>2. IsFiniteSet(1 .. n) /\ n + 1 \notin 1 .. n
      BY <1>1, <2>5, FS_Interval
    <3> DEFINE past == 1 .. n
    <3> HIDE DEF new, past
    <3> QED BY <3>1, <3>2, SumAdd DEF past
  <2>9. SumFunctionOnSet(new, 1 .. n) = SumFunctionOnSet(old, 1 .. n)
    <3>1. \A i \in 1 .. n : new[i] = old[i]
      BY <2>6
    <3>2. IsFiniteSet(1 .. n)
      BY <1>1, FS_Interval
    <3> HIDE DEF old, new
    <3> QED BY <3>1, <3>2, SumSame
  <2>10. BytesUsed = SumFunctionOnSet(old, 1 .. n)
    BY <2>5 DEF StoreInv, Accounted
  <2>11. BytesUsed' = SumFunctionOnSet(new, (1 .. n) \cup {n + 1})
    <3>1. SumFunctionOnSet(new, (1 .. n) \cup {n + 1}) = e.size + BytesPerEvent + BytesUsed
      BY <2>7, <2>8, <2>9, <2>10
    <3>2. BytesUsed \in Nat
      BY <1>1, <2>1, <2>2 DEF used
    <3> HIDE DEF old, new
    <3> QED BY <1>1, <2>3, <3>1, <3>2
  <2>12. Accounted'
    BY <2>5, <2>11 DEF Accounted
  <2> QED BY <2>4, <2>12
<1> QED BY <1>10, <1>11, <1>12, <1>13, <1>14, <1>15 DEF StoreInv

(* Stopping, for whatever reason. *)
LEMMA StopStep ==
  ASSUME StoreInv, NEW e \in Events, NEW reason \in {"Budget", "OutOfMemory"},
         stop(reason), archive' = Append(archive, e)
  PROVE  StoreInv'
<1>1. /\ rows' = rows /\ chunkBytes' = chunkBytes
      /\ stopped' = reason /\ chunks' = Shrunk(chunks)
      /\ capacity' = [c \in 1 .. Len(Columns) |-> Len(rows)]
  BY DEF stop
<1>2. /\ rows \in Seq(RowOf) /\ Len(rows) \in Nat /\ DOMAIN rows = 1 .. Len(rows)
      /\ \A i \in 1 .. Len(rows) : rows[i] \in RowOf
  <2>1. rows \in Seq(RowOf)
    BY DEF StoreInv, StoreTypeOK, RowOf
  <2> QED BY <2>1, LenProperties, ElementOfSeq
<1>3. chunks \in Seq(Chunk) /\ Len(chunks) \in Nat /\ DOMAIN chunks = 1 .. Len(chunks)
  <2>1. chunks \in Seq(Chunk)
    BY DEF StoreInv, StoreTypeOK, Chunk
  <2> QED BY <2>1, LenProperties
<1>4. /\ chunks' \in Seq(Chunk) /\ Len(chunks') = Len(chunks)
      /\ \A i \in 1 .. Len(chunks) :
           chunks'[i].len = chunks[i].len /\ chunks'[i].len <= chunks'[i].capacity
  BY <1>1, ShrinkingKeeps
<1>5. DOMAIN chunks' = 1 .. Len(chunks)
  BY <1>4, LenProperties
<1>6. /\ archive' \in Seq(Events) /\ Len(archive') = Len(archive) + 1
      /\ \A i \in 1 .. Len(archive) : archive'[i] = archive[i]
      /\ Len(archive) \in Nat
  <2>1. archive \in Seq(Events)
    BY DEF StoreInv, StoreTypeOK
  <2> QED BY <2>1, AppendProperties, LenProperties
<1>7. StoreTypeOK'
  BY <1>1, <1>2, <1>4, <1>6 DEF StoreInv, StoreTypeOK, Chunk
<1>8. ColumnsInStep'
  BY <1>1, FirstColumn DEF ColumnsInStep
<1>9. NothingGrowsUnasked'
  BY <1>1, <1>2, <1>4, <1>5 DEF NothingGrowsUnasked
<1>10. BytesReadBack'
  <2>1. BytesReadBack
    BY DEF StoreInv
  <2>2. \A i \in 1 .. Len(rows) : rows[i].chunk \in 1 .. Len(chunks)
    <3> TAKE i \in 1 .. Len(rows)
    <3>1. rows[i].chunk \in Nat \ {0}
      BY <1>2 DEF RowOf
    <3>2. rows[i].chunk <= Len(chunks)
      BY <1>2, <2>1 DEF BytesReadBack
    <3> QED BY <1>3, <3>1, <3>2
  <2> QED BY <1>1, <1>2, <1>4, <2>1, <2>2 DEF BytesReadBack
<1>11. RetainedIsAPrefix'
  <2>1. /\ Len(rows) <= Len(archive)
        /\ \A i \in 1 .. Len(rows) : rows[i].event = archive[i]
    BY <1>2 DEF StoreInv, RetainedIsAPrefix
  <2>2. Len(rows') <= Len(archive') /\ DOMAIN rows' = 1 .. Len(rows) /\ stopped' # "no"
    BY <1>1, <1>2, <1>6, <2>1
  <2>3. \A i \in 1 .. Len(rows) : rows'[i].event = archive'[i]
    BY <1>1, <1>2, <1>6, <2>1
  <2> QED BY <2>2, <2>3 DEF RetainedIsAPrefix
<1>12. WithinBudget' /\ Accounted'
  BY <1>1 DEF StoreInv, WithinBudget, BytesUsed, Accounted, Footprint
<1> QED BY <1>7, <1>8, <1>9, <1>10, <1>11, <1>12 DEF StoreInv

(* One more event offered. *)
LEMMA PushStep ==
  ASSUME StoreInv, NEW e \in Events, push(e)
  PROVE  StoreInv'
<1>1. archive' = Append(archive, e)
  BY DEF push
<1>2. CASE stopped # "no"
  <2>1. UNCHANGED <<rows, capacity, chunks, chunkBytes, stopped>>
    BY <1>2 DEF push
  <2>2. /\ archive \in Seq(Events) /\ Len(archive) \in Nat
        /\ archive' \in Seq(Events) /\ Len(archive') = Len(archive) + 1
        /\ \A i \in 1 .. Len(archive) : archive'[i] = archive[i]
    <3>1. archive \in Seq(Events)
      BY DEF StoreInv, StoreTypeOK
    <3> QED BY <1>1, <3>1, AppendProperties, LenProperties
  <2>3. Len(rows) \in Nat /\ DOMAIN rows = 1 .. Len(rows)
    BY LenProperties DEF StoreInv, StoreTypeOK
  <2>4. StoreTypeOK'
    BY <2>1, <2>2 DEF StoreInv, StoreTypeOK
  <2>5. RetainedIsAPrefix'
    <3>1. /\ Len(rows) <= Len(archive)
          /\ \A i \in 1 .. Len(rows) : rows[i].event = archive[i]
      BY <2>3 DEF StoreInv, RetainedIsAPrefix
    <3>2. Len(rows') <= Len(archive') /\ DOMAIN rows' = 1 .. Len(rows) /\ stopped' # "no"
      BY <1>2, <2>1, <2>2, <2>3, <3>1
    <3>3. \A i \in 1 .. Len(rows) : rows'[i].event = archive'[i]
      BY <2>1, <2>2, <2>3, <3>1
    <3> QED BY <3>2, <3>3 DEF RetainedIsAPrefix
  <2> QED BY <2>1, <2>4, <2>5
      DEF StoreInv, ColumnsInStep, NothingGrowsUnasked, BytesReadBack, WithinBudget, BytesUsed,
          Accounted, Footprint
<1>3. CASE stopped = "no" /\ BytesUsed + e.size + BytesPerEvent > Budget
  BY <1>1, <1>3, StopStep DEF push
<1>4. CASE stopped = "no" /\ ~(BytesUsed + e.size + BytesPerEvent > Budget)
  <2> DEFINE cap == IF ColumnsHaveRoom THEN capacity ELSE GrownColumns
  <2>1. HasRoom(cap)
    BY GrowingMakesRoom
  <2>2. BytesUsed + e.size + BytesPerEvent <= Budget
    <3>1. chunkBytes \in Nat /\ Len(rows) \in Nat /\ e.size \in Nat /\ BytesPerEvent \in Nat
          /\ Budget \in Nat
      BY StoreAssumption, LenProperties DEF StoreInv, StoreTypeOK
    <3> QED BY <1>4, <3>1 DEF BytesUsed
  <2>3. \/ stop("OutOfMemory")
        \/ ChunkHasRoom(e.size) /\ Retain(e, chunks, cap)
        \/ Retain(e, WithNewChunk(e.size), cap)
    BY <1>4 DEF push
  <2> HIDE DEF cap
  <2>4. CASE stop("OutOfMemory")
    BY <1>1, <2>4, StopStep
  <2>5. CASE ChunkHasRoom(e.size) /\ Retain(e, chunks, cap)
    BY <1>1, <1>4, <2>1, <2>2, <2>5, SomeChunkFits, RetainStep
  <2>6. CASE Retain(e, WithNewChunk(e.size), cap)
    BY <1>1, <1>4, <2>1, <2>2, <2>6, SomeChunkFits, RetainStep
  <2> QED BY <2>3, <2>4, <2>5, <2>6
<1> QED BY <1>2, <1>3, <1>4

-----------------------------------------------------------------------------
(* The store's invariant holds however events and queries follow on another. *)
THEOREM StoreInvariant == Spec => []StoreInv
<1>1. Init => StoreInv
  <2> SUFFICES ASSUME StoreInit PROVE StoreInv
    BY DEF Init
  <2>1. /\ rows = <<>> /\ chunks = <<>> /\ archive = <<>>
        /\ chunkBytes = 0 /\ stopped = "no"
        /\ capacity = [c \in 1 .. Len(Columns) |-> 0]
    BY DEF StoreInit
  <2>2. Len(rows) = 0 /\ Len(chunks) = 0 /\ Len(archive) = 0
    BY <2>1
  <2>3. StoreTypeOK
    BY <2>1 DEF StoreTypeOK
  <2>4. ColumnsInStep /\ NothingGrowsUnasked /\ BytesReadBack /\ RetainedIsAPrefix
    BY <2>1, <2>2, FirstColumn DEF ColumnsInStep, NothingGrowsUnasked, BytesReadBack, RetainedIsAPrefix
  <2>5. WithinBudget /\ Accounted
    <3>1. DOMAIN rows = {} /\ BytesUsed = 0
      BY <2>1, <2>2, StoreAssumption DEF BytesUsed
    <3> QED BY <3>1, SumEmpty, StoreAssumption DEF WithinBudget, Accounted
  <2> QED BY <2>3, <2>4, <2>5 DEF StoreInv
<1>2. StoreInv /\ [Next]_vars => StoreInv'
  <2> SUFFICES ASSUME StoreInv, [Next]_vars PROVE StoreInv'
    OBVIOUS
  <2>1. ASSUME NEW e \in Events, Ingest(e) PROVE StoreInv'
    BY <2>1, PushStep DEF Ingest
  <2>2. CASE UNCHANGED storeVars
    BY <2>2 DEF storeVars, StoreInv, StoreTypeOK, ColumnsInStep, NothingGrowsUnasked,
                BytesReadBack, RetainedIsAPrefix, WithinBudget, BytesUsed, Accounted, Footprint
  <2>3. ASSUME NEW f \in Filters, NEW offset \in 0 .. MaxEvents, Query(f, offset)
        PROVE  UNCHANGED storeVars
    BY <2>3 DEF Query, storeVars
  <2>4. UNCHANGED vars => UNCHANGED storeVars
    BY DEF vars, storeVars
  <2> QED BY <2>1, <2>2, <2>3, <2>4 DEF Next
<1> QED BY <1>1, <1>2, PTL DEF Spec

(* No column and no chunk ever takes more than was reserved for it, whichever
   of the allocations fail: nothing in push can abort the module. *)
THEOREM NothingGrows == Spec => []NothingGrowsUnasked
<1>1. StoreInv => NothingGrowsUnasked
  BY DEF StoreInv
<1> QED BY <1>1, StoreInvariant, PTL

(* Every retained event's bytes lie within its chunk and overlap no other's. *)
THEOREM ReadsBack == Spec => []BytesReadBack
<1>1. StoreInv => BytesReadBack
  BY DEF StoreInv
<1> QED BY <1>1, StoreInvariant, PTL

(* What is retained is the first events of the archive, and all of them until
   retention stops. *)
THEOREM KeepsAPrefix == Spec => []RetainedIsAPrefix
<1>1. StoreInv => RetainedIsAPrefix
  BY DEF StoreInv
<1> QED BY <1>1, StoreInvariant, PTL

(* What the retained events take up, added up from the events themselves,
   never exceeds the budget: what push checks before it retains one more is
   the sum of all it has. *)
THEOREM BudgetHolds == Spec => []BudgetIsKept
<1>1. StoreInv => BudgetIsKept
  BY DEF StoreInv, WithinBudget, Accounted, Footprint, BudgetIsKept, SumFunction
<1> QED BY <1>1, StoreInvariant, PTL

-----------------------------------------------------------------------------
(***************************************************************************)
(* The pages of the event table.                                           *)
(***************************************************************************)
(* q lists the members of S up to n, in order. *)
Lists(S, n, q) ==
  /\ q \in Seq(1 .. n)
  /\ Len(q) = Cardinality({i \in 1 .. n : i \in S})
  /\ \A k \in 1 .. Len(q) :
       q[k] \in S /\ Cardinality({i \in 1 .. n : i \in S /\ i < q[k]}) = k - 1

(* One number further on. *)
LEMMA ListsMore ==
  ASSUME NEW S, NEW n \in Nat, NEW q, Lists(S, n, q)
  PROVE  /\ n + 1 \in S => Lists(S, n + 1, Append(q, n + 1))
         /\ n + 1 \notin S => Lists(S, n + 1, q)
<1> DEFINE had == {i \in 1 .. n : i \in S}
           has == {i \in 1 .. n + 1 : i \in S}
<1>1. q \in Seq(1 .. n) /\ Len(q) \in Nat /\ \A k \in 1 .. Len(q) : q[k] \in 1 .. n
  <2>1. q \in Seq(1 .. n)
    BY DEF Lists
  <2> QED BY <2>1, LenProperties, ElementOfSeq
<1>2. 1 .. n \subseteq 1 .. n + 1 /\ n + 1 \in 1 .. n + 1
  OBVIOUS
<1>3. q \in Seq(1 .. n + 1)
  <2>1. q \in [1 .. Len(q) -> 1 .. n]
    BY <1>1, LenProperties
  <2>2. q \in [1 .. Len(q) -> 1 .. n + 1]
    BY <1>2, <2>1
  <2> QED BY <1>1, <2>2, SeqDef
<1>4. \A k \in 1 .. Len(q) :
        {i \in 1 .. n + 1 : i \in S /\ i < q[k]} = {i \in 1 .. n : i \in S /\ i < q[k]}
  <2> TAKE k \in 1 .. Len(q)
  <2>1. q[k] \in 1 .. n
    BY <1>1
  <2> QED BY <2>1
<1>5. \A k \in 1 .. Len(q) :
        q[k] \in S /\ Cardinality({i \in 1 .. n + 1 : i \in S /\ i < q[k]}) = k - 1
  BY <1>4 DEF Lists
<1>6. Len(q) = Cardinality(had)
  BY DEF Lists
<1>7. ASSUME n + 1 \notin S PROVE Lists(S, n + 1, q)
  <2>1. has = had
    BY <1>7
  <2> QED BY <1>3, <1>5, <1>6, <2>1 DEF Lists
<1>8. ASSUME n + 1 \in S PROVE Lists(S, n + 1, Append(q, n + 1))
  <2> DEFINE q1 == Append(q, n + 1)
  <2>1. /\ q1 \in Seq(1 .. n + 1) /\ Len(q1) = Len(q) + 1
        /\ \A k \in 1 .. Len(q) : q1[k] = q[k]
        /\ q1[Len(q) + 1] = n + 1
    BY <1>2, <1>3, AppendProperties
  <2> HIDE DEF q1
  <2>2. has = had \cup {n + 1} /\ n + 1 \notin had
    BY <1>8
  <2>3. IsFiniteSet(had)
    BY FS_Interval, FS_Subset
  <2>4. Cardinality(has) = Cardinality(had) + 1
    <3> HIDE DEF had, has
    <3> QED BY <2>2, <2>3, FS_AddElement
  <2>5. {i \in 1 .. n + 1 : i \in S /\ i < n + 1} = had
    OBVIOUS
  <2>6. \A k \in 1 .. Len(q1) :
          q1[k] \in S /\ Cardinality({i \in 1 .. n + 1 : i \in S /\ i < q1[k]}) = k - 1
    <3> TAKE k \in 1 .. Len(q1)
    <3>1. CASE k \in 1 .. Len(q)
      BY <1>5, <2>1, <3>1
    <3>2. CASE k = Len(q) + 1
      <4>1. q1[k] = n + 1 /\ k - 1 = Len(q)
        BY <1>1, <2>1, <3>2
      <4>2. {i \in 1 .. n + 1 : i \in S /\ i < q1[k]} = had
        BY <2>5, <4>1
      <4> QED BY <1>6, <1>8, <4>1, <4>2
    <3> QED BY <1>1, <2>1, <3>1, <3>2
  <2>7. Len(q1) = Cardinality(has)
    BY <1>6, <2>1, <2>4
  <2>8. Lists(S, n + 1, q1)
    BY <2>1, <2>6, <2>7 DEF Lists
  <2> QED BY <2>8 DEF q1
<1> QED BY <1>7, <1>8

(* What a scan up to each row has found. *)
Finds(S, m, g) ==
  g = [n \in 0 .. m |-> IF n = 0 THEN <<>>
                        ELSE IF n \in S THEN Append(g[n - 1], n) ELSE g[n - 1]]

LEMMA FindsExist == ASSUME NEW S, NEW m \in Nat PROVE \E g : Finds(S, m, g)
<1> DEFINE T == {k \in 0 .. m : \E g : Finds(S, k, g)}
<1>1. 0 \in T
  <2>1. Finds(S, 0, [n \in 0 .. 0 |-> <<>>])
    BY DEF Finds
  <2>2. 0 \in 0 .. m
    OBVIOUS
  <2> QED BY <2>1, <2>2, Zenon
<1>2. \A k \in 0 .. m : k \in T /\ k < m => k + 1 \in T
  <2> SUFFICES ASSUME NEW k \in 0 .. m, k \in T, k < m PROVE k + 1 \in T
    OBVIOUS
  <2>1. PICK g : Finds(S, k, g)
    OBVIOUS
  <2> DEFINE h == [n \in 0 .. k + 1 |-> IF n = 0 THEN <<>>
                                        ELSE IF n \in S THEN Append(g[n - 1], n) ELSE g[n - 1]]
  <2>2. \A n \in 0 .. k : h[n] = g[n]
    <3> TAKE n \in 0 .. k
    <3>1. g[n] = IF n = 0 THEN <<>> ELSE IF n \in S THEN Append(g[n - 1], n) ELSE g[n - 1]
      BY <2>1 DEF Finds
    <3> QED BY <3>1
  <2>3. \A n \in 1 .. k + 1 : n - 1 \in 0 .. k
    OBVIOUS
  <2>4. \A n \in 0 .. k + 1 : n # 0 => n \in 1 .. k + 1
    OBVIOUS
  <2>5. \A n \in 0 .. k + 1 :
          h[n] = IF n = 0 THEN <<>> ELSE IF n \in S THEN Append(h[n - 1], n) ELSE h[n - 1]
    <3> TAKE n \in 0 .. k + 1
    <3>1. h[n] = IF n = 0 THEN <<>> ELSE IF n \in S THEN Append(g[n - 1], n) ELSE g[n - 1]
      OBVIOUS
    <3> HIDE DEF h
    <3> QED BY <2>2, <2>3, <2>4, <3>1
  <2>6. h = [n \in 0 .. k + 1 |-> h[n]]
    OBVIOUS
  <2> HIDE DEF h
  <2>7. Finds(S, k + 1, h)
    BY <2>5, <2>6 DEF Finds
  <2>8. k + 1 \in 0 .. m
    OBVIOUS
  <2> QED BY <2>7, <2>8, Zenon
<1>3. m \in T
  <2> HIDE DEF T
  <2>1. 0 .. m \subseteq T
    BY <1>1, <1>2, CountingUp
  <2> QED BY <2>1
<1> QED BY <1>3

(* A scan lists the members of S up to the last row. *)
LEMMA FindsLists ==
  ASSUME NEW S, NEW m \in Nat, NEW g, Finds(S, m, g)
  PROVE  Lists(S, m, g[m])
<1> DEFINE T == {k \in 0 .. m : Lists(S, k, g[k])}
<1>1. \A n \in 0 .. m :
        g[n] = IF n = 0 THEN <<>> ELSE IF n \in S THEN Append(g[n - 1], n) ELSE g[n - 1]
  BY DEF Finds
<1>2. 0 \in T
  <2>1. g[0] = <<>> /\ {i \in 1 .. 0 : i \in S} = {}
    BY <1>1
  <2>2. Lists(S, 0, <<>>)
    BY <2>1, FS_EmptySet DEF Lists
  <2> QED BY <2>1, <2>2
<1>3. \A k \in 0 .. m : k \in T /\ k < m => k + 1 \in T
  <2> SUFFICES ASSUME NEW k \in 0 .. m, k \in T, k < m PROVE k + 1 \in T
    OBVIOUS
  <2>1. k + 1 \in 0 .. m /\ k + 1 # 0 /\ (k + 1) - 1 = k
    OBVIOUS
  <2>2. g[k + 1] = IF k + 1 \in S THEN Append(g[k], k + 1) ELSE g[k]
    BY <1>1, <2>1
  <2>3. Lists(S, k + 1, g[k + 1])
    BY <2>2, ListsMore
  <2> QED BY <2>1, <2>3
<1>4. 0 .. m \subseteq T
  <2> HIDE DEF T
  <2> QED BY <1>2, <1>3, CountingUp
<1> QED BY <1>4

(* All rows, listed. *)
LEMMA ListsAll == ASSUME NEW m \in Nat PROVE Lists(1 .. m, m, [i \in 1 .. m |-> i])
<1> DEFINE q == [i \in 1 .. m |-> i]
<1>1. q \in Seq(1 .. m) /\ Len(q) = m
  <2>1. q \in [1 .. m -> 1 .. m]
    OBVIOUS
  <2> QED BY <2>1, SeqDef, LenProperties
<1>2. \A k \in 1 .. m : Cardinality(1 .. k - 1) = k - 1
  <2> TAKE k \in 1 .. m
  <2> QED BY FS_Interval
<1>3. \A k \in 1 .. m : {i \in 1 .. m : i \in 1 .. m /\ i < q[k]} = 1 .. k - 1
  OBVIOUS
<1>4. {i \in 1 .. m : i \in 1 .. m} = 1 .. m /\ Cardinality(1 .. m) = m
  <2>1. Cardinality(1 .. m) = m
    BY FS_Interval
  <2> QED BY <2>1
<1>5. \A k \in 1 .. m : q[k] = k
  OBVIOUS
<1> HIDE DEF q
<1>6. Lists(1 .. m, m, q)
  BY <1>1, <1>2, <1>3, <1>4, <1>5 DEF Lists
<1> QED BY <1>6 DEF q

(* What a query puts in the cache when it cannot answer from it. *)
Built(f) ==
  [filled |-> TRUE, filter |-> f, builtAtLen |-> Len(rows),
   all |-> Unconstrained(f),
   matches |-> IF Unconstrained(f) THEN <<>> ELSE scan(f),
   total |-> IF Unconstrained(f) THEN Len(rows) ELSE Len(scan(f))]

(* Every peer of a retained event is known, and 0 stands for none. *)
PeersKnown ==
  /\ 0 \notin DOMAIN addr
  /\ \A i \in 1 .. Len(rows) : rows[i].event.peer \in DOMAIN addr \cup {0}

(* The cache is of an earlier number of events, or what it would be now. *)
CacheRight ==
  /\ cache.builtAtLen \in 0 .. Len(rows)
  /\ cache.filled /\ stopped = "no" /\ cache.builtAtLen = Len(rows) => cache = Built(cache.filter)

QueryInv ==
  /\ StoreInv
  /\ PeersKnown
  /\ CacheRight
  /\ PagesAreRight

(* The rows are numbered from 1 on. *)
LEMMA RowNumbers == ASSUME StoreInv PROVE Len(rows) \in Nat /\ DOMAIN rows = 1 .. Len(rows)
BY LenProperties DEF StoreInv, StoreTypeOK

(* The dense index, 0 for peers unknown, makes no difference while all are known. *)
LEMMA MatchesWanted ==
  ASSUME StoreInv, PeersKnown, NEW f \in Filters, f.peerIds \subseteq DOMAIN addr,
         NEW i \in 1 .. Len(rows)
  PROVE  /\ Matches(rows[i].event, f) <=> Wanted(rows[i].event, f)
         /\ Unconstrained(f) => Wanted(rows[i].event, f)
<1> DEFINE e == rows[i].event
<1>1. e \in EventOf /\ f \in Filter
  <2>1. rows[i] \in RowOf
    <3>1. rows \in Seq(RowOf)
      BY DEF StoreInv, StoreTypeOK, RowOf
    <3> QED BY <3>1, ElementOfSeq
  <2> QED BY <2>1, FiltersAssumption DEF RowOf
<1>2. e.time \in Nat /\ e.peer \in Nat /\ f.from \in Int /\ f.to \in Int
      /\ e.peer \in DOMAIN addr \cup {0} /\ 0 \notin DOMAIN addr
  BY <1>1 DEF EventOf, Filter, PeersKnown
<1> HIDE DEF e
<1>3. PeerWanted(f) = f.peerIds
  BY DEF PeerWanted
<1>4. MatchesText(e, f.text) <=> f.text = e.kind \/ (e.peer # 0 /\ f.text = addr[e.peer])
  BY <1>2 DEF MatchesText
<1>5. Matches(e, f) <=> Wanted(e, f)
  BY <1>2, <1>3, <1>4 DEF Matches, Wanted
<1>6. Unconstrained(f) => Wanted(e, f)
  BY DEF Unconstrained, Wanted
<1> QED BY <1>5, <1>6 DEF e

(* Scan finds what is wanted now. *)
LEMMA ScanLists ==
  ASSUME StoreInv, PeersKnown, NEW f \in Filters, f.peerIds \subseteq DOMAIN addr
  PROVE  /\ Lists(WantedNow(f), Len(rows), scan(f))
         /\ Unconstrained(f) => Lists(WantedNow(f), Len(rows), [i \in DOMAIN rows |-> i])
         /\ Cardinality({i \in 1 .. Len(rows) : i \in WantedNow(f)}) = Cardinality(WantedNow(f))
<1> DEFINE m == Len(rows)
           Solves(g) == g = [n \in 0 .. m |-> IF n = 0 THEN <<>>
                                              ELSE IF Matches(rows[n].event, f) THEN Append(g[n - 1], n)
                                              ELSE g[n - 1]]
           c == CHOOSE g : Solves(g)
<1>1. m \in Nat /\ DOMAIN rows = 1 .. m
  BY RowNumbers
<1>2. scan(f) = c[m]
  BY DEF scan
<1>3. WantedNow(f) \subseteq 1 .. m /\ \A i \in 1 .. m : Matches(rows[i].event, f) <=> i \in WantedNow(f)
  BY <1>1, MatchesWanted DEF WantedNow
<1>4. \A g : Finds(WantedNow(f), m, g) <=> Solves(g)
  <2> TAKE g
  <2>1. [n \in 0 .. m |-> IF n = 0 THEN <<>>
                          ELSE IF Matches(rows[n].event, f) THEN Append(g[n - 1], n) ELSE g[n - 1]]
          = [n \in 0 .. m |-> IF n = 0 THEN <<>>
                              ELSE IF n \in WantedNow(f) THEN Append(g[n - 1], n) ELSE g[n - 1]]
    <3>1. \A n \in 0 .. m : n # 0 => (Matches(rows[n].event, f) <=> n \in WantedNow(f))
      BY <1>1, <1>3
    <3> HIDE DEF m
    <3> QED BY <3>1
  <2> QED BY <2>1 DEF Finds
<1>5. \E g : Solves(g)
  BY <1>1, <1>4, FindsExist
<1>6. Solves(c)
  <2> HIDE DEF Solves
  <2> QED BY <1>5
<1>7. Lists(WantedNow(f), m, scan(f))
  <2> HIDE DEF Solves, c
  <2> QED BY <1>1, <1>2, <1>4, <1>6, FindsLists
<1>8. ASSUME Unconstrained(f) PROVE Lists(WantedNow(f), m, [i \in DOMAIN rows |-> i])
  <2>1. WantedNow(f) = 1 .. m
    BY <1>1, <1>8, MatchesWanted DEF WantedNow
  <2> QED BY <1>1, <2>1, ListsAll
<1>9. {i \in 1 .. m : i \in WantedNow(f)} = WantedNow(f)
  BY <1>3
<1> QED BY <1>7, <1>8, <1>9

(* A page of a list of the rows wanted is right. *)
LEMMA PageOfList ==
  ASSUME StoreInv, NEW f, NEW offset \in Nat, NEW q, Lists(WantedNow(f), Len(rows), q),
         Cardinality({i \in 1 .. Len(rows) : i \in WantedNow(f)}) = Cardinality(WantedNow(f)),
         NEW a, a.filter = f, a.offset = offset, a.total = Len(q), a.rows = PageOf(q, offset)
  PROVE  Right(a)
<1> DEFINE last == Least(offset + Limit, Len(q))
<1>1. Len(rows) \in Nat /\ DOMAIN rows = 1 .. Len(rows) /\ Limit \in Nat \ {0}
  BY RowNumbers, FiltersAssumption
<1>2. q \in Seq(1 .. Len(rows)) /\ Len(q) \in Nat
  <2>1. q \in Seq(1 .. Len(rows))
    BY DEF Lists
  <2> QED BY <2>1, LenProperties
<1>3. last \in Nat /\ last <= Len(q) /\ last <= offset + Limit
      /\ (last = Len(q) \/ last = offset + Limit)
  BY <1>1, <1>2 DEF Least
<1>4. a.rows = SubSeq(q, offset + 1, last)
  BY DEF PageOf
<1> HIDE DEF last
<1>5. /\ Len(a.rows) = IF offset + 1 <= last THEN last - offset ELSE 0
      /\ DOMAIN a.rows = 1 .. Len(a.rows)
      /\ \A k \in 1 .. Len(a.rows) : a.rows[k] = q[offset + k]
  <2>1. (offset + 1 \in 1 .. Len(q) + 1 /\ last \in offset .. Len(q)) \/ last < offset + 1
    BY <1>2, <1>3
  <2>2. CASE last < offset + 1
    <3>1. SubSeq(q, offset + 1, last) = <<>>
      BY <1>2, <1>3, <2>2, SubSeqProperties
    <3> QED BY <1>3, <1>4, <2>2, <3>1
  <2>3. CASE offset + 1 <= last
    <3>1. offset + 1 \in 1 .. Len(q) + 1 /\ last \in (offset + 1) - 1 .. Len(q)
      BY <1>2, <1>3, <2>3
    <3>2. /\ SubSeq(q, offset + 1, last) \in Seq(1 .. Len(rows))
          /\ Len(SubSeq(q, offset + 1, last)) =
               IF offset + 1 <= last THEN last - (offset + 1) + 1 ELSE 0
          /\ \A k \in 1 .. last - (offset + 1) + 1 :
               SubSeq(q, offset + 1, last)[k] = q[(offset + 1) + k - 1]
      BY <1>2, <3>1, SubSeqProperties
    <3>3. Len(a.rows) = last - offset /\ last - (offset + 1) + 1 = last - offset
      BY <1>3, <1>4, <2>3, <3>2
    <3>4. DOMAIN a.rows = 1 .. Len(a.rows)
      BY <1>4, <3>2, LenProperties
    <3>5. \A k \in 1 .. Len(a.rows) : (offset + 1) + k - 1 = offset + k
      BY <3>3
    <3> QED BY <1>4, <2>3, <3>2, <3>3, <3>4, <3>5
  <2> QED BY <1>3, <2>2, <2>3
<1>6. a.total = Cardinality(WantedNow(a.filter))
  BY DEF Lists
<1>7. Len(a.rows) = IF a.total <= a.offset THEN 0 ELSE Least(a.total - a.offset, Limit)
  BY <1>1, <1>2, <1>3, <1>5 DEF Least
<1>8. \A k \in DOMAIN a.rows :
        /\ a.rows[k] \in WantedNow(a.filter)
        /\ Cardinality({i \in WantedNow(a.filter) : i < a.rows[k]}) = a.offset + k - 1
  <2> SUFFICES ASSUME NEW k \in 1 .. Len(a.rows)
               PROVE  /\ a.rows[k] \in WantedNow(a.filter)
                      /\ Cardinality({i \in WantedNow(a.filter) : i < a.rows[k]}) = a.offset + k - 1
    BY <1>5
  <2>1. offset + k \in 1 .. Len(q) /\ k \in Nat
    BY <1>2, <1>3, <1>5
  <2> DEFINE j == offset + k
  <2>2. j \in 1 .. Len(q)
    BY <2>1
  <2> HIDE DEF j
  <2>3. q[j] \in WantedNow(f)
        /\ Cardinality({i \in 1 .. Len(rows) : i \in WantedNow(f) /\ i < q[j]}) = j - 1
    BY <2>2 DEF Lists
  <2>4. /\ q[offset + k] \in WantedNow(f)
        /\ Cardinality({i \in 1 .. Len(rows) : i \in WantedNow(f) /\ i < q[offset + k]}) = offset + k - 1
    BY <2>3 DEF j
  <2>5. WantedNow(f) \subseteq 1 .. Len(rows)
    BY <1>1 DEF WantedNow
  <2>6. {i \in 1 .. Len(rows) : i \in WantedNow(f) /\ i < q[offset + k]}
          = {i \in WantedNow(f) : i < q[offset + k]}
    BY <2>5
  <2> QED BY <1>5, <2>4, <2>6
<1> QED BY <1>6, <1>7, <1>8 DEF Right

(* While rows and addresses stand still, so does what is wanted and found. *)
LEMMA Unmoved ==
  ASSUME rows' = rows, addr' = addr, NEW f
  PROVE  WantedNow(f)' = WantedNow(f) /\ Built(f)' = Built(f)
<1>1. \A e : Wanted(e, f)' <=> Wanted(e, f)
  BY DEF Wanted
<1>2. WantedNow(f)' = {i \in DOMAIN rows : Wanted(rows[i].event, f)'}
  BY DEF WantedNow
<1>3. \A i \in DOMAIN rows : Wanted(rows[i].event, f)' <=> Wanted(rows[i].event, f)
  BY <1>1
<1>4. WantedNow(f)' = WantedNow(f)
  BY <1>1, <1>2, <1>3 DEF WantedNow
<1>5. Built(f)' = Built(f)
  BY DEF Built, scan, Matches, PeerWanted, MatchesText, Unconstrained
<1> QED BY <1>4, <1>5

(* A page served from a cache that is right is right. *)
LEMMA QueryStep ==
  ASSUME QueryInv, NEW f \in Filters, NEW offset \in 0 .. MaxEvents, Query(f, offset)
  PROVE  QueryInv'
<1>1. /\ UNCHANGED <<storeVars, addr>>
      /\ rows' = rows /\ stopped' = stopped /\ addr' = addr /\ archive' = archive
  BY DEF Query, storeVars
<1>2. StoreInv' /\ PeersKnown'
  BY <1>1 DEF QueryInv, storeVars, StoreInv, StoreTypeOK, ColumnsInStep, NothingGrowsUnasked,
              BytesReadBack, RetainedIsAPrefix, WithinBudget, BytesUsed, Accounted, Footprint, PeersKnown
<1>3. Len(rows) \in Nat /\ DOMAIN rows = 1 .. Len(rows)
  BY RowNumbers DEF QueryInv
<1>4. cache' = IF Fresh(f) THEN cache ELSE Built(f)
  BY DEF Query, Refreshed, Built
<1>5. Built(f).builtAtLen = Len(rows) /\ Built(f).filter = f
  BY DEF Built
<1>6. Fresh(f) <=> cache.filled /\ cache.filter = f /\ cache.builtAtLen = Len(rows)
  BY DEF Fresh
<1>7. cache'.builtAtLen = Len(rows) /\ cache'.filter = f
  BY <1>4, <1>5, <1>6
<1>8. stopped = "no" => cache' = Built(f)
  BY <1>4, <1>6 DEF QueryInv, CacheRight
<1>9. Built(f)' = Built(f) /\ WantedNow(f)' = WantedNow(f)
  BY <1>1, Unmoved
<1>10. CacheRight'
  <2>1. cache'.builtAtLen \in 0 .. Len(rows')
    BY <1>1, <1>3, <1>7
  <2>2. stopped' = "no" => cache' = Built(f)'
    BY <1>1, <1>8, <1>9
  <2> QED BY <1>7, <2>1, <2>2 DEF CacheRight
<1>11. /\ answer'.given /\ answer'.filter = f /\ answer'.offset = offset /\ answer'.total = cache'.total
       /\ answer'.rows = PageOf(IF cache'.all THEN [i \in DOMAIN rows |-> i] ELSE cache'.matches, offset)
  BY DEF Query
<1>12. ASSUME stopped = "no", f.peerIds \subseteq DOMAIN addr PROVE Right(answer')
  <2> DEFINE a == answer'
             q == IF Unconstrained(f) THEN [i \in DOMAIN rows |-> i] ELSE scan(f)
  <2>1. /\ Built(f).all = Unconstrained(f)
        /\ Built(f).matches = IF Unconstrained(f) THEN <<>> ELSE scan(f)
        /\ Built(f).total = IF Unconstrained(f) THEN Len(rows) ELSE Len(scan(f))
    BY DEF Built
  <2>2. cache' = Built(f)
    BY <1>8, <1>12
  <2>3. Len([i \in DOMAIN rows |-> i]) = Len(rows)
    BY <1>3
  <2>4. /\ a.filter = f /\ a.offset = offset /\ a.total = Len(q) /\ a.rows = PageOf(q, offset)
    BY <1>11, <2>1, <2>2, <2>3
  <2>5. /\ Lists(WantedNow(f), Len(rows), q)
        /\ Cardinality({i \in 1 .. Len(rows) : i \in WantedNow(f)}) = Cardinality(WantedNow(f))
    BY <1>12, ScanLists DEF QueryInv
  <2>6. StoreInv /\ offset \in Nat
    BY StoreAssumption DEF QueryInv
  <2> HIDE DEF a, q
  <2>7. Right(a)
    BY <2>4, <2>5, <2>6, PageOfList
  <2> QED BY <2>7 DEF a
<1>13. PagesAreRight'
  <2> SUFFICES ASSUME stopped' = "no", f.peerIds \subseteq DOMAIN addr' PROVE Right(answer)'
    BY <1>11 DEF PagesAreRight
  <2>1. Right(answer')
    BY <1>1, <1>12
  <2>2. WantedNow(answer.filter)' = WantedNow(answer'.filter)
    BY <1>9, <1>11
  <2> QED BY <2>1, <2>2 DEF Right
<1> QED BY <1>2, <1>10, <1>13 DEF QueryInv

(* Another event: the cache is behind, unless retention stops. *)
LEMMA IngestStep ==
  ASSUME QueryInv, NEW e \in Events, Ingest(e)
  PROVE  QueryInv'
<1>1. StoreInv /\ StoreInv' /\ push(e) /\ cache' = cache /\ ~answer'.given
  <2>1. push(e) /\ cache' = cache /\ answer' = NoAnswer
    BY DEF Ingest
  <2> QED BY <2>1, PushStep DEF QueryInv, NoAnswer
<1>2. /\ Len(rows) \in Nat /\ DOMAIN rows = 1 .. Len(rows)
      /\ Len(rows') \in Nat /\ DOMAIN rows' = 1 .. Len(rows')
  BY <1>1, LenProperties DEF StoreInv, StoreTypeOK
<1>3. \/ rows' = rows /\ stopped' # "no"
      \/ /\ Len(rows') = Len(rows) + 1
         /\ \A i \in 1 .. Len(rows) : rows'[i] = rows[i]
         /\ rows'[Len(rows) + 1].event = e
  <2>1. \/ rows' = rows /\ stopped' # "no"
        \/ \E cs, cap : Retain(e, cs, cap)
    BY <1>1 DEF push, stop
  <2>2. ASSUME NEW cs, NEW cap, Retain(e, cs, cap)
        PROVE  /\ Len(rows') = Len(rows) + 1
               /\ \A i \in 1 .. Len(rows) : rows'[i] = rows[i]
               /\ rows'[Len(rows) + 1].event = e
    <3> DEFINE row == [event |-> e, chunk |-> Len(cs), offset |-> cs[Len(cs)].len, length |-> e.size]
               R == {rows[i] : i \in 1 .. Len(rows)} \cup {row}
    <3>1. rows' = Append(rows, row)
      BY <2>2 DEF Retain
    <3>2. rows \in Seq(R) /\ row \in R
      <4>1. rows \in Seq(RowOf)
        BY <1>1 DEF StoreInv, StoreTypeOK, RowOf
      <4>2. rows \in [1 .. Len(rows) -> R]
        BY <1>2, <4>1, LenProperties
      <4> QED BY <1>2, <4>2, SeqDef
    <3>3. row.event = e
      OBVIOUS
    <3> HIDE DEF row, R
    <3> QED BY <3>1, <3>2, <3>3, AppendProperties
  <2> QED BY <2>1, <2>2
<1>4. PeersKnown'
  <2>1. e.peer \in Nat
    BY FiltersAssumption DEF EventOf
  <2>2. addr' = IF e.peer = 0 THEN addr
                ELSE [p \in DOMAIN addr \cup {e.peer} |->
                        IF p = e.peer /\ (e.addr # "" \/ p \notin DOMAIN addr) THEN e.addr ELSE addr[p]]
    BY DEF Ingest
  <2>3. /\ DOMAIN addr' = IF e.peer = 0 THEN DOMAIN addr ELSE DOMAIN addr \cup {e.peer}
    BY <2>2
  <2>4. 0 \notin DOMAIN addr /\ \A i \in 1 .. Len(rows) : rows[i].event.peer \in DOMAIN addr \cup {0}
    BY DEF QueryInv, PeersKnown
  <2>5. e.peer \in DOMAIN addr' \cup {0} /\ 0 \notin DOMAIN addr' /\ DOMAIN addr \subseteq DOMAIN addr'
    BY <2>3, <2>4
  <2>6. \A i \in 1 .. Len(rows') : rows'[i].event.peer \in DOMAIN addr' \cup {0}
    <3> TAKE i \in 1 .. Len(rows')
    <3>1. CASE i \in 1 .. Len(rows)
      <4>1. rows'[i] = rows[i]
        BY <1>3, <3>1
      <4>2. rows[i].event.peer \in DOMAIN addr \cup {0}
        BY <2>4, <3>1
      <4> QED BY <2>5, <4>1, <4>2
    <3>2. CASE i \notin 1 .. Len(rows)
      <4>1. i = Len(rows) + 1 /\ rows'[i].event = e
        <5> DEFINE n == Len(rows)
                   n1 == Len(rows')
        <5>1. n1 = n + 1 /\ rows'[n + 1].event = e
          BY <1>3, <3>2
        <5>2. n \in Nat /\ i \in 1 .. n1 /\ i \notin 1 .. n
          BY <1>2, <3>2
        <5>3. i = n + 1
          <6> HIDE DEF n, n1
          <6> QED BY <5>1, <5>2
        <5> QED BY <5>1, <5>3
      <4> QED BY <2>5, <4>1
    <3> QED BY <3>1, <3>2
  <2> QED BY <2>5, <2>6 DEF PeersKnown
<1>5. CacheRight'
  <2>1. cache.builtAtLen \in 0 .. Len(rows)
    BY DEF QueryInv, CacheRight
  <2>2. cache'.builtAtLen \in 0 .. Len(rows') /\ (stopped' = "no" => cache'.builtAtLen # Len(rows'))
    <3> DEFINE n == Len(rows)
               n1 == Len(rows')
               was == cache.builtAtLen
    <3>1. n \in Nat /\ was \in 0 .. n /\ ((n1 = n /\ stopped' # "no") \/ n1 = n + 1)
      BY <1>2, <1>3, <2>1
    <3>2. cache'.builtAtLen = was
      BY <1>1
    <3>3. was \in 0 .. n1 /\ (stopped' = "no" => was # n1)
      <4> HIDE DEF n, n1, was
      <4> QED BY <3>1
    <3> QED BY <3>2, <3>3
  <2> QED BY <2>2 DEF CacheRight
<1>6. PagesAreRight'
  BY <1>1 DEF PagesAreRight
<1> QED BY <1>1, <1>4, <1>5, <1>6 DEF QueryInv

(* A page asked for while retention goes on, between any two events, shows just
   the rows that match now, whatever was cached before. *)
THEOREM PagesRight == Spec => []PagesAreRight
<1>1. Init /\ StoreInv => QueryInv
  <2> SUFFICES ASSUME Init, StoreInv PROVE QueryInv
    OBVIOUS
  <2>1. rows = <<>> /\ addr = <<>> /\ ~cache.filled /\ cache.builtAtLen = 0 /\ ~answer.given
    BY DEF Init, StoreInit, NoAnswer
  <2>2. Len(rows) = 0 /\ DOMAIN addr = {}
    BY <2>1
  <2> QED BY <2>1, <2>2 DEF QueryInv, PeersKnown, CacheRight, PagesAreRight
<1>2. QueryInv /\ [Next]_vars => QueryInv'
  <2> SUFFICES ASSUME QueryInv, [Next]_vars PROVE QueryInv'
    OBVIOUS
  <2>1. CASE UNCHANGED vars
    <3>1. UNCHANGED <<rows, capacity, chunks, chunkBytes, stopped, archive, addr, cache, answer>>
      BY <2>1 DEF vars, storeVars
    <3>2. StoreInv' /\ PeersKnown'
      BY <3>1 DEF QueryInv, StoreInv, StoreTypeOK, ColumnsInStep, NothingGrowsUnasked, BytesReadBack,
                  RetainedIsAPrefix, WithinBudget, BytesUsed, Accounted, Footprint, PeersKnown
    <3>3. Built(cache.filter)' = Built(cache.filter)
      BY <3>1 DEF Built, scan, Matches, PeerWanted, MatchesText, Unconstrained
    <3>4. CacheRight'
      BY <3>1, <3>3 DEF QueryInv, CacheRight
    <3>5. WantedNow(answer.filter)' = WantedNow(answer.filter)
      BY <3>1 DEF WantedNow, Wanted
    <3>6. Right(answer)' <=> Right(answer)
      BY <3>1, <3>5 DEF Right
    <3>7. PagesAreRight'
      BY <3>1, <3>6 DEF QueryInv, PagesAreRight
    <3> QED BY <3>2, <3>4, <3>7 DEF QueryInv
  <2> QED BY <2>1, IngestStep, QueryStep DEF Next
<1>3. QueryInv => PagesAreRight
  BY DEF QueryInv
<1> QED BY <1>1, <1>2, <1>3, StoreInvariant, PTL DEF Spec

=============================================================================
