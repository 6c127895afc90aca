---------------------------- MODULE MCWarehouse ----------------------------
(* Instances of Warehouse for TLC: two slots, and for each question a table  *)
(* to start from with the operations it needs.                               *)
EXTENDS Warehouse, TLC

CONSTANTS A, B, none, f1, f2, nobody, m, n, x

Nothing == [claim |-> 0, receive |-> 0, send |-> 0, edit |-> 0, confirm |-> 0, void |-> 0,
            dispatch |-> 0, lose |-> 0, correct |-> 0, reallocate |-> 0, look |-> 0, place |-> 0,
            manage |-> 0, tidy |-> 0, whats |-> {m}]

Named(name, active) == [FreshSlot EXCEPT !.name = name, !.active = active]
TwoSlots == <<Named(A, TRUE), Named(B, TRUE)>>
OneSlot == <<Named(A, TRUE), FreshSlot>>

Stock(kind, q, status, location) == Filed(kind, "warehouse", m, q, status, location, 0)
Order(q) == Filed("outbound", "outside", m, q, "pending", none, 1)

Table(docs) == [d \in Docs |-> IF d <= Len(docs) THEN docs[d] ELSE NoDoc]
InSlots(rows) == [s \in Slots |-> [d \in Docs |-> IF d <= Len(rows[s]) THEN rows[s][d] ELSE 0]]

Case(slots, docs, rows, budget) ==
    [slot |-> slots, doc |-> Table(docs), placed |-> InSlots(rows), left |-> budget @@ Nothing]

McCases ==
    { \* two forms, two slots, two materials and one without a name
      Case(TwoSlots, <<>>, <<<<>>, <<>>>>,
           [claim |-> 3, receive |-> 1, send |-> 1, whats |-> {m, x}]),
      \* signs of life up to the limit
      Case(OneSlot, <<>>, <<<<>>, <<>>>>, [claim |-> 4, receive |-> 1]),
      \* documents on their way are edited, received or withdrawn
      Case(TwoSlots, <<Stock("transfer", 1, "pending", A), Stock("transfer", 2, "pending", none)>>,
           <<<<1>>, <<>>>>, [claim |-> 2, edit |-> 2, confirm |-> 1, void |-> 1, whats |-> {m, n}]),
      \* a lot in two slots, and partly in none, is sent, lost, corrected and placed
      Case(TwoSlots, <<Stock("transfer", 4, "received", A)>>, <<<<2>>, <<1>>>>,
           [dispatch |-> 2, edit |-> 1, void |-> 1, lose |-> 1, correct |-> 1, look |-> 1, place |-> 1]),
      \* an order of earlier versions waits for its goods to leave
      Case(TwoSlots, <<Stock("receipt", 3, "received", A), Order(1)>>, <<<<1>>, <<1>>>>,
           [confirm |-> 1, dispatch |-> 1, edit |-> 1, void |-> 1, lose |-> 1, look |-> 1, place |-> 2]),
      \* two lots of one origin, one of them overdrawn
      Case(TwoSlots, <<Stock("receipt", 1, "received", A), Stock("receipt", 2, "received", none)>>,
           <<<<1>>, <<>>>>, [dispatch |-> 2, void |-> 1, look |-> 1, place |-> 1]),
      \* part of a lot becomes another material
      Case(TwoSlots, <<Stock("receipt", 2, "received", A)>>, <<<<2>>, <<>>>>,
           [claim |-> 2, reallocate |-> 1, dispatch |-> 1, whats |-> {m, n}]),
      \* managers and forms
      Case(OneSlot, <<Stock("receipt", 2, "received", none)>>, <<<<>>, <<>>>>,
           [claim |-> 1, receive |-> 1, look |-> 2, place |-> 1, manage |-> 2]),
      \* a slot with several batches of earlier versions is tidied
      Case(TwoSlots, <<Stock("transfer", 1, "pending", A), Stock("transfer", 2, "received", A),
                       Stock("receipt", 1, "received", A)>>,
           <<<<1, 2, 1>>, <<0, 0, 0>>>>,
           [tidy |-> 1, claim |-> 1, confirm |-> 1, lose |-> 1, look |-> 1, place |-> 1]) }
=============================================================================
