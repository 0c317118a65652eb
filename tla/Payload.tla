------------------------------- MODULE Payload -------------------------------
(***************************************************************************)
(* What a message names on the wire (crates/core/src/payload.rs and the    *)
(* last helpers of crates/core/src/relay.rs).  Two readings of the same    *)
(* inventory: the turn matcher takes the hash of every item, the relay     *)
(* statistics only those of transactions.                                  *)
(*                                                                         *)
(* A message is a record: its command, the items of its inventory, and     *)
(* the identifiers it carries outside one (txid and wtxid, block hash,     *)
(* nonce).  A hash is a model value standing for its first eight bytes;    *)
(* NoHash is one that is missing or shorter than that.                     *)
(***************************************************************************)
EXTENDS Sequences, Functions

CONSTANT NoHash

Inventories == {"inv", "getdata", "notfound"}

TransactionTypes == {"transaction", "wtx", "witness_transaction"}
ItemTypes == TransactionTypes \cup
  {"block", "witness_block", "compact_block", "unknown", "error"}

Item(type, hash) == [type |-> type, hash |-> hash]
Message(command, items, ids) == [command |-> command, items |-> items, ids |-> ids]

(***************************************************************************)
(* has_keys                                                                *)
(***************************************************************************)
Keyed == Inventories \cup
  {"tx", "block", "merkleblock", "cmpctblock", "getblocktxn", "blocktxn", "ping", "pong"}

(***************************************************************************)
(* item_key: the hash, whatever the type says it is.                       *)
(***************************************************************************)
ItemKey(item) == IF item.type = "error" THEN {} ELSE {item.hash} \ {NoHash}

(***************************************************************************)
(* carried and keys_of: sorted and without repeats, hence a set.           *)
(***************************************************************************)
KeysOf(m) ==
  IF m.command \in Inventories THEN UNION {ItemKey(item) : item \in Range(m.items)}
  ELSE IF m.command \in Keyed THEN Range(m.ids) \ {NoHash}
  ELSE {}

(***************************************************************************)
(* transaction_hash: blocks are announced through the same message and     *)
(* are left out.                                                           *)
(***************************************************************************)
TransactionHash(item) ==
  IF item.type \in TransactionTypes THEN item.hash ELSE NoHash

=============================================================================
