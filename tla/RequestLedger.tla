--------------------------- MODULE RequestLedger ---------------------------
(***************************************************************************)
(* What the request tallies promise, without saying how replies are        *)
(* matched: every request asked has one fate, a fate once settled is       *)
(* final, and the tallies are the counts of those fates.                   *)
(***************************************************************************)
EXTENDS Integers, FiniteSets

CONSTANTS
  Ids,        \* names of requests
  Exchanges,  \* the kinds of request
  Optional    \* the kinds to which silence is a normal outcome

VARIABLES
  requests,  \* the requests asked: id |-> its exchange, its direction, its fate
  tallies    \* per exchange: opened, answered, unanswered by peers and by us

vars == <<requests, tallies>>

Fates == {"waiting", "answered", "unanswered", "undetermined"}
Request == [exchange : Exchanges, inbound : BOOLEAN, fate : Fates]

TypeOK ==
  /\ DOMAIN requests \subseteq Ids
  /\ requests \in [DOMAIN requests -> Request]
  /\ tallies \in [Exchanges -> [opened : Nat, answered : Nat, byPeers : Nat, byUs : Nat]]

Having(rs, e, fates) == {p \in DOMAIN rs : rs[p].exchange = e /\ rs[p].fate \in fates}
Tally(rs, e) ==
  [opened   |-> Cardinality(Having(rs, e, Fates)),
   answered |-> Cardinality(Having(rs, e, {"answered"})),
   byPeers  |-> Cardinality({p \in Having(rs, e, {"unanswered"}) : ~rs[p].inbound}),
   byUs     |-> Cardinality({p \in Having(rs, e, {"unanswered"}) : rs[p].inbound})]

Init ==
  /\ requests = [p \in {} |-> p]
  /\ tallies = [e \in Exchanges |-> Tally(requests, e)]

(* A settled fate is final, and silence is never held against an optional     *)
(* request.                                                                   *)
MayBecome(old, new) ==
  \/ new = old
  \/ /\ old.fate = "waiting"
     /\ new \in {[old EXCEPT !.fate = fate] : fate \in Fates}
     /\ new.fate = "unanswered" => old.exchange \notin Optional

Asked == DOMAIN requests' \ DOMAIN requests
NewlyAnswered ==
  {p \in DOMAIN requests : requests'[p].fate = "answered" /\ requests[p].fate # "answered"}

(* One step asks at most one request, which then waits, answers at most one,  *)
(* and gives up on or loses sight of any number.                              *)
Next ==
  /\ DOMAIN requests \subseteq DOMAIN requests'
  /\ Cardinality(Asked) <= 1
  /\ \A p \in Asked : requests'[p] \in Request /\ requests'[p].fate = "waiting"
  /\ \A p \in DOMAIN requests : MayBecome(requests[p], requests'[p])
  /\ Cardinality(NewlyAnswered) <= 1
  /\ tallies' = [e \in Exchanges |-> Tally(requests', e)]

Spec == Init /\ [][Next]_vars

=============================================================================
