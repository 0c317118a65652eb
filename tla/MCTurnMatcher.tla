---------------------------- MODULE MCTurnMatcher ----------------------------
(***************************************************************************)
(* Small pages for TLC.  inv, getdata and getblocktxn overlap: getdata     *)
(* answers inv and asks in turn, notfound answers getdata and getblocktxn. *)
(***************************************************************************)
EXTENDS TurnMatcher

CONSTANTS p1, p2, a, b

LOCAL T == INSTANCE ExchangeTable

RelayTable == <<T!EXCHANGES[4], T!EXCHANGES[5], T!EXCHANGES[9]>>

TwoPeers == {p1, p2}

Tx(hash) == Item("wtx", hash)

Row(peer, direction, message, times) ==
  {[peer |-> peer, direction |-> direction, message |-> message, timestamp |-> t] : t \in times}

(***************************************************************************)
(* inv waits 1 for its getdata, getblocktxn 4, getdata 20.  An inventory   *)
(* may name an item twice, under two types, or hold one that is an error.  *)
(***************************************************************************)
AFewRows ==
  Row(p1, "in", Message("inv", <<Tx(a)>>, <<>>), {0})
  \cup Row(p1, "out", Message("getdata", <<Item("witness_transaction", a), Item("block", b)>>, <<>>), {0, 1})
  \cup Row(p1, "out", Message("getdata", <<Item("witness_transaction", a)>>, <<>>), {0, 1})
  \cup Row(p1, "out", Message("getdata", <<Item("error", NoHash)>>, <<>>), {0, 1})
  \cup Row(p1, "out", Message("getblocktxn", <<>>, <<b>>), {0, 17})
  \cup Row(p1, "in", Message("tx", <<>>, <<a, b>>), {1, 21})
  \cup Row(p1, "in", Message("tx", <<>>, <<a, NoHash>>), {1, 21})
  \cup Row(p1, "in", Message("notfound", <<Item("block", b)>>, <<>>), {1, 21})
  \cup Row(p1, "in", Message("tx", <<>>, <<NoHash, NoHash>>), {1, 21})
  \cup Row(p2, "out", Message("getdata", <<Tx(a)>>, <<>>), {0})
  \cup Row(p2, "in", Message("tx", <<>>, <<a, NoHash>>), {1})
  \cup Row(p1, "none", Message("closed", <<>>, <<>>), {1})
  \cup Row(NoPeer, "none", Message("added", <<>>, <<>>), {1})

=============================================================================
