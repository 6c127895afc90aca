----------------------------- MODULE MCLotWrites -----------------------------
(* Instances of LotWrites for TLC: lots 1 and 2, line 3 cut from lot 1 and  *)
(* waiting, line 4 waiting and cut from no lot.                             *)
EXTENDS LotWrites, TLC

CONSTANTS k1, k2, nokey, norequest

Here(status, source, amount) ==
  [status |-> status, source |-> source, amount |-> amount, version |-> 1, receipt |-> nokey]
MCRow == <<Here("received", 0, 3), Here("received", 0, 1),
           Here("pending", 1, 1), Here("pending", 0, 1)>>
MCStock == <<[onHand |-> 2, revision |-> 0], [onHand |-> 1, revision |-> 0],
             [onHand |-> 0, revision |-> 0], [onHand |-> 0, revision |-> 0]>>

Post(op, key, lots, line, amount, seen, version) ==
  [op |-> op, key |-> key, lots |-> lots, line |-> line, amount |-> amount,
   seen |-> seen, version |-> version]
Unseen == [l \in Row |-> NotSeen]
Loss(key, l, a) == Post("loss", key, {l}, 0, a, Unseen, 0)
Dispatch(key, lots, a) == Post("dispatch", key, lots, 0, a, Unseen, 0)
\* The client was shown lots 1 and 2 before anything else was posted.
Shipment(key, a) ==
  Post("shipment", key, Row, 0, a, [l \in Row |-> IF l <= 2 THEN 0 ELSE NotSeen], 0)
Recount(key, l, a) == Post("count", key, {l}, 0, a, [Unseen EXCEPT ![l] = 0], 0)
Confirm(key, line) == Post("confirm", key, {}, line, 0, Unseen, 0)
Update(line, a) == Post("update", nokey, {}, line, a, Unseen, 1)
Void(line) == Post("void", nokey, {}, line, 0, Unseen, 0)

\* The same key with the same and with another payload, one lot from several sides,
\* and the competing ends of one line.
Writes == {Loss(k1, 1, 2), Loss(k1, 2, 1), Loss(k2, 1, 1),
           Confirm(k1, 3), Confirm(k1, 4), Void(3)}
Shipments == {Shipment(k1, 3), Shipment(k2, 2), Dispatch(k2, {1, 2}, 1), Recount(k2, 1, 5),
              Update(3, 2), Void(3)}
\* Handlers are interchangeable: nothing compares them.
Symmetry == Permutations(Handler)
OneShipment == {Shipment(k1, 2)}
=============================================================================
