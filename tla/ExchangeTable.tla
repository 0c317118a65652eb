--------------------------- MODULE ExchangeTable ---------------------------
(***************************************************************************)
(* The table of request/reply exchanges of crates/core/src/exchange.rs.    *)
(* Windows are in half minutes, the finest unit the table uses.            *)
(***************************************************************************)
EXTENDS Integers, Sequences

HalfMinute == 1
Minute     == 2 * HalfMinute

Row(request, replies, multi, optional, window) ==
  [request |-> request, replies |-> replies, multi |-> multi,
   optional |-> optional, window |-> window]

EXCHANGES ==
  << Row("version",      {"verack"},              FALSE, FALSE, 2 * Minute),
     Row("ping",         {"pong"},                FALSE, FALSE, 20 * Minute),
     Row("getaddr",      {"addr", "addrv2"},      TRUE,  FALSE, 3 * Minute),
     Row("inv",          {"getdata"},             FALSE, TRUE,  HalfMinute),
     Row("getdata",      {"tx", "block", "merkleblock", "cmpctblock", "notfound"},
                                                  TRUE,  FALSE, 10 * Minute),
     Row("getheaders",   {"headers"},             FALSE, FALSE, 2 * Minute),
     Row("getblocks",    {"inv"},                 FALSE, FALSE, 2 * Minute),
     Row("cmpctblock",   {"getblocktxn"},         FALSE, TRUE,  2 * Minute),
     Row("getblocktxn",  {"blocktxn", "notfound"}, FALSE, FALSE, 2 * Minute),
     Row("mempool",      {"inv"},                 TRUE,  FALSE, 2 * Minute),
     Row("getcfilters",  {"cfilter"},             TRUE,  FALSE, 2 * Minute),
     Row("getcfheaders", {"cfheaders"},           FALSE, FALSE, 2 * Minute),
     Row("getcfcheckpt", {"cfcheckpt"},           FALSE, FALSE, 2 * Minute) >>

=============================================================================
