--------------------------- MODULE RecordDecoder ---------------------------
(***************************************************************************)
(* The streaming archive decoder (crates/core/src/decode.rs): bytes come   *)
(* in chunks of any size, complete records go out.                         *)
(*                                                                         *)
(* A file is a sequence of cells, each standing for one or more bytes.     *)
(* The plain stream is made of cells <<i, j>>, the j-th of record i; a     *)
(* record is a length prefix followed by its body.  A compressed file is a *)
(* zstd frame header and blocks; its cells <<0, j>> carry no content of    *)
(* their own, and a block yields its part of the plain stream once all its *)
(* cells are there.                                                        *)
(*                                                                         *)
(* A definition named X_Y is X with the mistake Y in it.                   *)
(***************************************************************************)
EXTENDS Integers, Sequences, FiniteSets, SequencesExt

CONSTANTS
  Files,            \* the archives
  MagicLen,         \* cells of the zstd magic
  HeaderLen,        \* cells of the zstd frame header, magic included
  MinHeader,        \* the longest a frame header can be (18 bytes)
  MinDecodeInput,   \* MIN_DECODE_INPUT
  Window,           \* plain cells the zstd decoder withholds until its frame ends
  CompactThreshold, \* COMPACT_THRESHOLD
  MaxChunk          \* bound of the model: cells in a chunk

(* prefix and body: lengths in cells.  kind: whether the prefix is a varint of
   a length up to MAX_RECORD_LEN ("good"), of a greater one ("huge"), or no
   varint at all ("malformed"). *)
RecordSpec == [prefix : Nat \ {0}, body : Nat, kind : {"good", "huge", "malformed"}]

(* disk and plain: cells of the file, and of the plain stream, up to the end
   of a block.  corrupt: the block that does not decode, or 0. *)
BlockSpec == [disk : Nat, plain : Nat]
File == [zstd : BOOLEAN, records : Seq(RecordSpec), blocks : Seq(BlockSpec), corrupt : Nat]

Plain(f) ==
  FlattenSeq([i \in DOMAIN f.records |->
                [j \in 1 .. f.records[i].prefix + f.records[i].body |-> <<i, j>>]])

DiskLen(f) == IF f.zstd THEN f.blocks[Len(f.blocks)].disk ELSE Len(Plain(f))
Disk(f) == IF f.zstd THEN [j \in 1 .. DiskLen(f) |-> <<0, j>>] ELSE Plain(f)

(* Cells of the plain stream that the first n cells of a compressed file yield. *)
Yield(f, n) == Max({0} \cup {b.plain : b \in {b \in Range(f.blocks) : b.disk <= n}})

ASSUME FilesAssumption ==
  /\ Files \subseteq File
  /\ \A f \in Files :
       /\ f.records # <<>>
       /\ f.records[1].prefix + f.records[1].body >= MagicLen  \* the ArchiveHeader
       /\ f.zstd =>
            /\ f.blocks # <<>>
            /\ f.corrupt \in 0 .. Len(f.blocks)
            /\ DiskLen(f) >= MinHeader
            /\ f.blocks[1].disk > HeaderLen
            /\ f.blocks[1].disk <= MinDecodeInput  \* no block is larger
            /\ f.blocks[Len(f.blocks)].plain = Len(Plain(f))
            /\ \A b \in 1 .. Len(f.blocks) - 1 :
                 /\ f.blocks[b].disk < f.blocks[b + 1].disk
                 /\ f.blocks[b + 1].disk <= f.blocks[b].disk + MinDecodeInput
                 /\ f.blocks[b].plain <= f.blocks[b + 1].plain
ASSUME SizesAssumption ==
  /\ {MagicLen, HeaderLen, MinHeader, MinDecodeInput, Window, CompactThreshold, MaxChunk} \subseteq Nat
  /\ 1 <= MagicLen /\ MagicLen <= HeaderLen /\ HeaderLen <= MinHeader
  /\ MinHeader <= MinDecodeInput

VARIABLES
  file,        \* the archive read
  size,        \* cells of it that exist: less than DiskLen while it is being written
  hint,        \* what its name suggests: "zstd" or "none"
  fed,         \* cells pushed so far (bytes_in)
  d,           \* the RecordDecoder
  emitted,     \* the records handed to the sink
  phase,       \* "reading", "failed" or "done"
  completion   \* what finish returned

vars == <<file, size, hint, fed, d, emitted, phase, completion>>

Completion == [truncated : BOOLEAN, trailing : Nat, incomplete : BOOLEAN]

-----------------------------------------------------------------------------
(***************************************************************************)
(* The steps of a call, each from a decoder to a decoder.                  *)
(***************************************************************************)
Detect_AtBlock(dec, finishing) ==
  IF dec.compression = "unknown" /\ (finishing \/ Len(dec.cin) >= MinDecodeInput)
  THEN [dec EXCEPT !.compression = IF dec.cin # <<>> /\ dec.cin[1] = <<0, 1>> THEN "zstd" ELSE "none"]
  ELSE dec
Detect(dec, finishing) ==
  IF dec.compression # "unknown" THEN dec
  ELSE IF Len(dec.cin) >= MagicLen
       THEN [dec EXCEPT !.compression = IF dec.cin[1] = <<0, 1>> THEN "zstd" ELSE "none"]
       ELSE IF finishing THEN [dec EXCEPT !.compression = hint] ELSE dec

(* FrameDecoder::decode_from_to of the ruzstd library, called until it makes
   no more progress: takes the header and every whole block, and gives out
   what lies further back than the window; all of it after the last block. *)
Decodable(dec) ==
  /\ dec.read = 0 => Len(dec.cin) >= HeaderLen
  /\ dec.cin = SubSeq(Disk(file), dec.read + 1, dec.read + Len(dec.cin))
  /\ file.corrupt # 0 => file.blocks[file.corrupt].disk > dec.read + Len(dec.cin)

Decode(dec) ==
  LET stops == {dec.read, HeaderLen} \cup {b.disk : b \in Range(file.blocks)}
      read == Max({n \in stops : n <= dec.read + Len(dec.cin)})
      finished == read = DiskLen(file)
      window == dec.window \o SubSeq(Plain(file), Yield(file, dec.read) + 1, Yield(file, read))
      kept == IF finished THEN 0 ELSE Min({Window, Len(window)})
  IN  [dec EXCEPT !.read = read,
                  !.finished = finished,
                  !.cin = SubSeq(@, read - dec.read + 1, Len(@)),
                  !.out = @ \o SubSeq(window, 1, Len(window) - kept),
                  !.window = SubSeq(window, Len(window) - kept + 1, Len(window))]

(* decompress: whether it calls into the zstd decoder at all. *)
Waits_OffByOne(dec, finishing) ==
  \/ ~finishing /\ Len(dec.cin) <= MinDecodeInput
  \/ ~dec.started /\ Len(dec.cin) < MinHeader
Waits(dec, finishing) ==
  \/ ~finishing /\ Len(dec.cin) < MinDecodeInput
  \/ ~dec.started /\ Len(dec.cin) < MinHeader

(* scan: the records that lie complete in out from position p on. *)
SpecAt(dec, p) == file.records[dec.out[p + 1][1]]
PrefixAt(dec, p) ==
  /\ p < Len(dec.out)
  /\ dec.out[p + 1][1] \in DOMAIN file.records
  /\ p + SpecAt(dec, p).prefix <= Len(dec.out)
CompleteAt(dec, p) ==
  /\ PrefixAt(dec, p)
  /\ dec.out[p + 1][2] = 1
  /\ SpecAt(dec, p).kind = "good"
  /\ p + SpecAt(dec, p).prefix + SpecAt(dec, p).body <= Len(dec.out)

Found(dec) ==
  LET from[p \in 0 .. Len(dec.out)] ==
        IF ~CompleteAt(dec, p) THEN <<>>
        ELSE LET start == p + SpecAt(dec, p).prefix
                 end == start + SpecAt(dec, p).body
             IN  <<SubSeq(dec.out, start + 1, end)>> \o from[end]
  IN  from[dec.outPos]
ScanEnd(dec) ==
  LET from[p \in 0 .. Len(dec.out)] ==
        IF ~CompleteAt(dec, p) THEN p
        ELSE from[p + SpecAt(dec, p).prefix + SpecAt(dec, p).body]
  IN  from[dec.outPos]

(* MalformedVarint, RecordTooLarge; bytes read out of step are malformed. *)
ScanFails(dec) ==
  LET p == ScanEnd(dec) IN
    PrefixAt(dec, p) /\ (dec.out[p + 1][2] # 1 \/ SpecAt(dec, p).kind # "good")

Scanned_DropsTail(dec) ==
  IF ScanEnd(dec) < CompactThreshold THEN [dec EXCEPT !.outPos = ScanEnd(dec)]
  ELSE [dec EXCEPT !.out = <<>>, !.outPos = 0]
Scanned(dec) ==
  IF ScanEnd(dec) < CompactThreshold THEN [dec EXCEPT !.outPos = ScanEnd(dec)]
  ELSE [dec EXCEPT !.out = SubSeq(@, ScanEnd(dec) + 1, Len(@)), !.outPos = 0]

(* pump up to its scan: nothing more happens while the compression is unknown. *)
Fill(dec, finishing) ==
  LET known == Detect(dec, finishing) IN
    CASE known.compression = "unknown" -> known
      [] known.compression = "none" -> [known EXCEPT !.out = @ \o known.cin, !.cin = <<>>]
      [] OTHER -> IF Waits(known, finishing) THEN known
                  ELSE Decode([known EXCEPT !.started = TRUE])
FillFails(dec, finishing) ==
  LET known == Detect(dec, finishing) IN
    known.compression = "zstd" /\ ~Waits(known, finishing) /\ ~Decodable(known)

-----------------------------------------------------------------------------
Init ==
  /\ file \in Files
  /\ size \in 0 .. DiskLen(file)
  /\ hint \in {"zstd", "none"}
  /\ fed = 0
  /\ d = [compression |-> "unknown", started |-> FALSE, finished |-> FALSE, read |-> 0,
          cin |-> <<>>, window |-> <<>>, out |-> <<>>, outPos |-> 0]
  /\ emitted = <<>>
  /\ phase = "reading"
  /\ completion = [truncated |-> FALSE, trailing |-> 0, incomplete |-> FALSE]

Push(n) ==
  /\ phase = "reading"
  /\ fed + n <= size
  /\ fed' = fed + n
  /\ LET dec == [d EXCEPT !.cin = @ \o SubSeq(Disk(file), fed + 1, fed + n)]
         filled == Fill(dec, FALSE)
     IN  IF FillFails(dec, FALSE)
         THEN /\ phase' = "failed"
              /\ UNCHANGED <<d, emitted>>
         ELSE /\ d' = Scanned(filled)
              /\ emitted' = emitted \o Found(filled)
              /\ phase' = IF ScanFails(filled) THEN "failed" ELSE phase
  /\ UNCHANGED <<file, size, hint, completion>>

(* finish: whether the frame lacks its last block, taken before the synthetic
   one of flush_truncated_frame makes it look finished. *)
Incomplete_AfterFlush(dec) == dec.compression = "zstd" /\ ~dec.started /\ size > 0
Incomplete(dec) ==
  dec.compression = "zstd" /\ IF dec.started THEN ~dec.finished ELSE size > 0
Flushed(dec) ==
  [dec EXCEPT !.cin = <<>>, !.finished = TRUE, !.out = @ \o dec.window, !.window = <<>>]

Finish ==
  /\ phase = "reading"
  /\ fed = size
  /\ LET filled == Fill(d, TRUE)
         first == Scanned(filled)
         flushes == Incomplete(first) /\ first.started
         last == IF flushes THEN Flushed(first) ELSE first
         end == Scanned(last)
     IN  IF FillFails(d, TRUE)
         THEN /\ phase' = "failed"
              /\ UNCHANGED <<d, emitted, completion>>
         ELSE IF ScanFails(filled)
         THEN /\ phase' = "failed"
              /\ d' = first
              /\ emitted' = emitted \o Found(filled)
              /\ UNCHANGED completion
         ELSE /\ d' = end
              /\ emitted' = emitted \o Found(filled) \o (IF flushes THEN Found(last) ELSE <<>>)
              /\ IF ScanFails(last)
                 THEN phase' = "failed" /\ UNCHANGED completion
                 ELSE /\ phase' = "done"
                      /\ completion' =
                           [trailing   |-> Len(end.out) - end.outPos,
                            incomplete |-> Incomplete(first),
                            truncated  |-> Incomplete(first) \/ Len(end.out) > end.outPos]
  /\ UNCHANGED <<file, size, hint, fed>>

(* The page reads the file to its end, unless reading fails. *)
Over == phase # "reading" /\ UNCHANGED vars

Next == (\E n \in 1 .. MaxChunk : Push(n)) \/ Finish \/ Over

Spec == Init /\ [][Next]_vars

-----------------------------------------------------------------------------
(***************************************************************************)
(* What can be recovered from the cells that exist, read off the file as a *)
(* whole.                                                                  *)
(***************************************************************************)
(* A zstd decoder is not even started on less than MinHeader. *)
Available ==
  CASE ~file.zstd -> size
    [] file.zstd /\ size < MinHeader -> 0
    [] file.zstd /\ size >= MinHeader -> Yield(file, size)
EndOf(i) == Cardinality({p \in DOMAIN Plain(file) : Plain(file)[p][1] <= i})
Body(i) == [j \in 1 .. file.records[i].body |-> <<i, file.records[i].prefix + j>>]

GoodUpTo(i, cells) == \A k \in 1 .. i : file.records[k].kind = "good" /\ EndOf(k) <= cells
Recoverable(cells) ==
  LET n == Max({i \in 0 .. Len(file.records) : GoodUpTo(i, cells)})
  IN  [i \in 1 .. n |-> Body(i)]

(* Every prefix that lies within the cells that exist is one, and so is every block. *)
Sound ==
  /\ \A i \in DOMAIN file.records :
       EndOf(i) - file.records[i].body <= Available => file.records[i].kind = "good"
  /\ file.zstd /\ file.corrupt # 0 => file.blocks[file.corrupt].disk > size

Stream == INSTANCE RecordStream WITH
  source <- Recoverable(Available),
  sound <- Sound,
  delivered <- emitted,
  ended <- CASE phase = "reading" -> "no" [] phase = "done" -> "yes" [] OTHER -> "failed"

(* However the file is cut into chunks, and wherever it ends, the records go
   out in order, whole, and once; all that can be recovered do before finish
   returns well; and only a broken file makes the decoder fail. *)
ChunkingIsInvisible == Stream!Spec

(* finish calls an archive truncated exactly when its cells end inside a frame
   or inside a record. *)
TruncationIsReported ==
  phase = "done" =>
    (completion.truncated <=>
       IF file.zstd THEN size > 0 /\ size < DiskLen(file)
       ELSE \A i \in 1 .. Len(file.records) : size > 0 /\ size # EndOf(i))

(* Between calls the decoder never holds as much compressed input as would let
   it decode a block: what waits is less than MIN_DECODE_INPUT. *)
InputIsConsumed ==
  phase = "reading" /\ d.compression = "zstd" => Len(d.cin) < MinDecodeInput

(* An uncompressed archive is not delayed: as soon as its compression is known,
   every record that has arrived whole has gone out. *)
PlainRecordsAreNotDelayed ==
  phase = "reading" /\ ~file.zstd /\ fed >= MagicLen => emitted = Recoverable(fed)

=============================================================================
