-------------------------- MODULE MCRecordDecoder --------------------------
(***************************************************************************)
(* Archives of a few records: plain, compressed in two and three blocks,   *)
(* with a malformed prefix, a huge length, and a corrupt block.            *)
(***************************************************************************)
EXTENDS RecordDecoder

Good(prefix, body) == [prefix |-> prefix, body |-> body, kind |-> "good"]
Block(disk, plain) == [disk |-> disk, plain |-> plain]
Archive(zstd, records, blocks, corrupt) ==
  [zstd |-> zstd, records |-> records, blocks |-> blocks, corrupt |-> corrupt]

(* An empty body, and a prefix of two cells. *)
Records == <<Good(1, 1), Good(2, 2), Good(1, 0), Good(1, 2)>>
Malformed == <<Good(1, 1), Good(1, 2), [prefix |-> 2, body |-> 0, kind |-> "malformed"], Good(1, 1)>>
Huge == <<Good(1, 2), Good(1, 1), [prefix |-> 1, body |-> 3, kind |-> "huge"], Good(1, 1)>>

(* Blocks end inside a prefix and inside a body; one ends before MinHeader. *)
TwoBlocks == <<Block(6, 3), Block(9, 10)>>
ShortBlock == <<Block(4, 5), Block(9, 10)>>
ThreeBlocks == <<Block(5, 3), Block(8, 6), Block(11, 10)>>

Archives ==
  {Archive(FALSE, Records, <<>>, 0),
   Archive(FALSE, Malformed, <<>>, 0),
   Archive(FALSE, Huge, <<>>, 0),
   Archive(TRUE, Records, TwoBlocks, 0),
   Archive(TRUE, Records, ShortBlock, 0),
   Archive(TRUE, Records, ThreeBlocks, 0),
   Archive(TRUE, Records, ThreeBlocks, 2),
   Archive(TRUE, Malformed, <<Block(6, 6), Block(9, 9)>>, 0)}

=============================================================================
