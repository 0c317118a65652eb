---------------------------- MODULE MCEventQuery ----------------------------
(* Two peers, one of which changes its address; an event larger than a chunk;
   and a budget that a small event may still fit when a large one does not. *)
EXTENDS EventQuery

Event(size, time, kind, peer, address) ==
  [size |-> size, time |-> time, kind |-> kind, peer |-> peer, addr |-> address]
MCEvents ==
  {Event(1, 1, "mempool", 0, ""), Event(2, 2, "inv", 1, "a"), Event(4, 1, "inv", 2, "b"),
   Event(0, 3, "misbehaving", 1, ""), Event(1, 2, "tx", 1, "b")}

Select(kinds, peers, from, to, text) ==
  [kinds |-> kinds, peerIds |-> peers, from |-> from, to |-> to, text |-> text]
MCFilters ==
  {Select({}, {}, None, None, ""), Select({}, {1}, None, None, ""),
   Select({}, {}, None, None, "b"), Select({"inv", "tx"}, {1, 2}, 1, 2, "")}

MCColumns == <<"timestamp", "kind", "peer">>

=============================================================================
