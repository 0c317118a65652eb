------------------------------ MODULE MCSession ------------------------------
(***************************************************************************)
(* Archives for TLC.  Each holds the events of one concern: connections,   *)
(* names, relay, and traffic; two peers appear in each.                    *)
(***************************************************************************)
EXTENDS SessionTruth

CONSTANTS p1, p2, onion, clearnet, x, y, z, t, w, b, AS1

TwoAddrs == [addr \in {onion, clearnet} |-> IF addr = onion THEN NoIp ELSE clearnet]
OneSystem == [ip \in {clearnet} |-> AS1]

AddrOf(p) == IF p = p1 THEN clearnet ELSE onion

Sent(p, inbound, timestamp, size, message, agent) ==
  [class |-> "message", peer |-> p, inbound |-> inbound, timestamp |-> timestamp,
   size |-> size, addr |-> AddrOf(p), connType |-> 0, message |-> message, agent |-> agent]

Plain(command) == Message(command, <<>>, <<>>)
In(p, timestamp, message) == Sent(p, TRUE, timestamp, 1, message, NoAgent)
Out(p, timestamp, message) == Sent(p, FALSE, timestamp, 2, message, NoAgent)
Version(p, inbound, timestamp, agent) == Sent(p, inbound, timestamp, 1, Plain("version"), agent)
Infos(timestamp, infos) == [class |-> "peer_infos", timestamp |-> timestamp, infos |-> infos]
Info(p, agent) == [peer |-> p, agent |-> agent]
Other(group, name, timestamp) ==
  [class |-> "other", group |-> group, name |-> name, timestamp |-> timestamp]
Connection(p, kind, timestamp, connType, established) ==
  [class |-> "connection", kind |-> kind, peer |-> p, timestamp |-> timestamp, addr |-> AddrOf(p),
   connType |-> connType, network |-> "ipv4", established |-> established]

(***************************************************************************)
(* Lifetimes on both sides of each bucket's edge, a type past the last     *)
(* slot, an establishment time of zero and one in the future.              *)
(***************************************************************************)
Connections ==
  { Connection(p1, "inbound", 2, 0, 0), Connection(p2, "outbound", 1, 1, 0),
    Connection(p1, "closed", 4, 0, 1), Connection(p1, "closed", 6, 0, 2),
    Connection(p2, "closed", 9, 7, 0), Connection(p1, "closed", 2, 0, 2),
    Connection(p1, "inbound_evicted", 5, 0, 1), Connection(p2, "inbound_evicted", 30, 1, 1),
    Connection(p1, "misbehaving", 8, 0, 0), Connection(p1, "none", 3, 0, 0) }

Names ==
  { Version(p1, TRUE, 2, x), Version(p1, TRUE, 3, y), Version(p1, FALSE, 1, z),
    Version(p1, TRUE, 2, NoAgent), In(p2, 4, Plain("ping")),
    Infos(3, <<Info(p1, y), Info(p2, z)>>), Infos(5, <<Info(p1, NoAgent), Info(p2, x)>>) }

Wtx(hash) == Item("wtx", hash)
Txid(hash) == Item("transaction", hash)

Relaying ==
  { In(p1, 1, Message("inv", <<Wtx(w), Item("block", b)>>, <<>>)),
    In(p2, 3, Message("inv", <<Txid(t)>>, <<>>)),
    In(p2, 9, Message("inv", <<Wtx(w), Wtx(b)>>, <<>>)),
    In(p1, 4, Message("tx", <<>>, <<t, w>>)), In(p2, 9, Message("tx", <<>>, <<t, w>>)),
    In(p1, 5, Message("tx", <<>>, <<NoHash, NoHash>>)), In(p2, 5, Message("tx", <<>>, <<b, b>>)),
    In(p2, 8, Message("tx", <<>>, <<t, b>>)),
    Out(p1, 2, Message("inv", <<Wtx(w)>>, <<>>)) }

Traffic ==
  { In(p1, 0, Plain("ping")), Out(p1, 3, Plain("pong")), In(p1, 7, Plain("addr")),
    In(p2, 3, Plain("ping")), Out(p2, 5, Plain("ping")),
    Connection(p1, "inbound", 1, 0, 0), Connection(p2, "closed", 9, 0, 1),
    Other("log", "block_connected", 4), Other("validation", "block_connected", 4) }

FourArchives == {Connections, Names, Relaying, Traffic}

=============================================================================
