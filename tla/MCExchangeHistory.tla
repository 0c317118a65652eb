------------------------- MODULE MCExchangeHistory -------------------------
(***************************************************************************)
(* Small archives for TLC, with their history: three rows of the table,    *)
(* chosen so that they overlap.  getdata both answers inv and asks;        *)
(* notfound answers getdata and getblocktxn.  inv is optional, getdata has *)
(* several replies, getblocktxn has one and is judged.  A second peer      *)
(* sends no more than notfound, unasked.                                   *)
(***************************************************************************)
EXTENDS ExchangeHistory

CONSTANTS p1, p2

LOCAL T == INSTANCE ExchangeTable

RelayTable == <<T!EXCHANGES[4], T!EXCHANGES[5], T!EXCHANGES[9]>>

(* On the window of getblocktxn (4), past it, and past that of getdata (20). *)
RelayTimes == {0, 4, 21}

TwoPeers == {p1, p2}

From(peer, commands, directions) ==
  [peer : {peer}, command : commands, inbound : directions, timestamp : Times]

OnePeerAndAStranger ==
  From(p1, {"getdata", "notfound"}, BOOLEAN) \cup From(p1, {"inv", "tx"}, {TRUE})
    \cup From(p1, {"getblocktxn"}, {FALSE}) \cup From(p2, {"notfound"}, {TRUE})

(* A single request repeated before it is answered. *)
Repeats == From(p1, {"getdata", "notfound"}, BOOLEAN)

=============================================================================
