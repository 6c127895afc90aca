--------------------------- MODULE LotWritesProofs ---------------------------
(***************************************************************************)
(* Proofs about LotRequests and LotWrites, for any rows, keys, requests    *)
(* and handlers.  First the abstract module: its types, and that a loss or *)
(* a shipment never takes what is not there.  Then the transactions: the   *)
(* rows a request depends on stay as they were checked while its handler   *)
(* holds their locks, so every commit is a step of LotRequests.            *)
(***************************************************************************)
EXTENDS LotWrites, LedgerTotalsProofs

-----------------------------------------------------------------------------
(* LotRequests.                                                            *)

LEMMA RequestFields ==
  ASSUME NEW r \in Request
  PROVE  /\ r \in RequestType /\ r # NoRequest
         /\ r.op \in Keyed \cup LineOps /\ r.amount \in Nat /\ r.key \in Key \cup {NoKey}
         /\ r.lots \in SUBSET Row /\ Seen(r) \in SUBSET Row
         /\ r.op \in LineOps => r.line \in Row
         /\ r.op \in Keyed => r.key \in Key
BY RequestAssumption DEF RequestType, Seen

\* What a lot can give to a shipment, and the running sums of it, are numbers.
LEMMA ShareWithinStock ==
  ASSUME TypeOK, NEW r \in Request, NEW l \in Row
  PROVE  /\ Share(r, l) \in Nat
         /\ Share(r, l) <= Shippable(l)
         /\ Share(r, l) > 0 => stock[l].onHand > 0 /\ Share(r, l) <= stock[l].onHand
<1>1. \A x \in Row : Shippable(x) \in Nat /\ stock[x].onHand \in Int
  BY DEF TypeOK, Shippable
<1>2. MaxRow \in Nat /\ l \in 1 .. MaxRow
  BY RequestAssumption DEF Row
<1> DEFINE f == [x \in 1 .. l - 1 |-> When(x \in Seen(r), Shippable(x))]
<1>3. f \in [1 .. l - 1 -> Int]
  BY <1>1, <1>2 DEF When, Row
<1>4. l - 1 \in Nat
  BY <1>2
<1>5. Total(f, l - 1) \in Int
  <2> HIDE DEF f
  <2>. QED  BY <1>3, <1>4, TotalType
<1>6. UpTo(r, l - 1) \in Int
  BY <1>5 DEF UpTo
<1>7. r.amount \in Nat
  BY RequestFields
<1>. QED
  BY <1>1, <1>6, <1>7 DEF Share, Shippable

LEMMA ChangeType ==
  ASSUME TypeOK, NEW r \in Request, NEW l \in Row
  PROVE  Change(r, l) \in Int
<1>1. stock[l].onHand \in Int /\ r.amount \in Nat /\ Share(r, l) \in Nat
  BY RequestFields, ShareWithinStock DEF TypeOK
<1>2. r.op \in LineOps => row[r.line].amount \in Nat
  BY RequestFields DEF TypeOK, RowType
<1>3. r.op \in Keyed \cup LineOps
  BY RequestFields
<1>. QED
  BY <1>1, <1>2, <1>3 DEF Change, Keyed, LineOps

LEMMA NewRowType ==
  ASSUME TypeOK, NEW r \in Request, r.op \in LineOps
  PROVE  /\ NewRow(r) \in RowType
         /\ NewRow(r).source = row[r.line].source
         /\ NewRow(r).receipt = IF r.op = "confirm" THEN r.key ELSE row[r.line].receipt
<1>1. row[r.line] \in RowType /\ r.amount \in Nat /\ r.key \in Key \cup {NoKey}
  BY RequestFields DEF TypeOK
<1> DEFINE edited == [row[r.line] EXCEPT !.version = @ + 1]
<1>2. /\ edited \in RowType
      /\ edited.source = row[r.line].source /\ edited.receipt = row[r.line].receipt
  BY <1>1 DEF RowType
<1>3. CASE r.op = "confirm"
  <2>1. NewRow(r) = [edited EXCEPT !.status = "received", !.receipt = r.key]
    BY <1>3 DEF NewRow
  <2> HIDE DEF edited
  <2>. QED  BY <1>1, <1>2, <1>3, <2>1 DEF RowType
<1>4. CASE r.op = "update"
  <2>1. NewRow(r) = [edited EXCEPT !.amount = r.amount]
    BY <1>4 DEF NewRow
  <2> HIDE DEF edited
  <2>. QED  BY <1>1, <1>2, <1>4, <2>1 DEF RowType
<1>5. CASE r.op = "void"
  <2>1. NewRow(r) = [edited EXCEPT !.status = "voided"]
    BY <1>5 DEF NewRow
  <2> HIDE DEF edited
  <2>. QED  BY <1>1, <1>2, <1>5, <2>1 DEF RowType
<1>. QED
  BY <1>3, <1>4, <1>5 DEF LineOps

LEMMA WriteKeepsTypes ==
  ASSUME TypeOK, NEW r \in Request, Write(r)
  PROVE  TypeOK'
<1>1. row' \in [Row -> RowType]
  BY NewRowType, RequestFields DEF Write, TypeOK
<1>2. record' \in [Slot -> Request \cup {NoRequest}]
  BY DEF Write, TypeOK
<1>3. stock' \in [Row -> [onHand : Int, revision : Nat]]
  <2>1. ASSUME NEW l \in Row
        PROVE  /\ row[l].amount \in Nat /\ stock[l] \in [onHand : Int, revision : Nat]
               /\ stock[l].onHand + Change(r, l) \in Int /\ stock[l].revision + 1 \in Nat
    BY ChangeType DEF TypeOK, RowType
  <2>. QED  BY <2>1 DEF Write
<1>. QED  BY <1>1, <1>2, <1>3 DEF TypeOK

\* The tables hold what models.py declares, whatever requests are served.
THEOREM RequestsTyped == Spec => []TypeOK
<1>1. Init => TypeOK
  BY StartAssumption DEF Init, TypeOK
<1>2. TypeOK /\ [Next]_tables => TypeOK'
  <2>1. TypeOK /\ Next => TypeOK'
    BY WriteKeepsTypes DEF Next, Serve
  <2>2. TypeOK /\ UNCHANGED tables => TypeOK'
    BY DEF TypeOK, tables
  <2>. QED  BY <2>1, <2>2
<1>. QED
  BY <1>1, <1>2, PTL DEF Spec

-----------------------------------------------------------------------------
(* Writes that are limited by what is on hand.                             *)

Capped ==
  \A s \in Slot : record'[s] # record[s] /\ record'[s].op \in {"loss", "shipment"} =>
    \A l \in Row : stock'[l].onHand < stock[l].onHand => stock'[l].onHand >= 0

LEMMA ServeIsCapped ==
  ASSUME TypeOK, NEW r \in Request, Serve(r)
  PROVE  Capped
<1> SUFFICES ASSUME NEW s \in Slot, record'[s] # record[s],
                    record'[s].op \in {"loss", "shipment"},
                    NEW l \in Row, stock'[l].onHand < stock[l].onHand
             PROVE  stock'[l].onHand >= 0
  BY DEF Capped
<1>1. May(r) /\ Write(r)
  BY DEF Serve
<1>2. record'[s] = r
  BY <1>1 DEF Write, TypeOK
<1>3. r.op \in {"loss", "shipment"}
  BY <1>2
<1>4. /\ stock[l] \in [onHand : Int, revision : Nat]
      /\ stock[l].onHand \in Int /\ Change(r, l) \in Int
  BY ChangeType DEF TypeOK
<1>5. stock'[l].onHand = stock[l].onHand + Change(r, l)
  <2>1. stock'[l] = IF Touches(r, l)
                      THEN [onHand |-> stock[l].onHand + Change(r, l),
                            revision |-> stock[l].revision + 1]
                      ELSE stock[l]
    BY <1>1, <1>3 DEF Write
  <2>. QED  BY <1>4, <2>1 DEF Touches
<1>6. Change(r, l) < 0
  BY <1>4, <1>5
<1>7. CASE r.op = "loss"
  <2>1. l \in r.lots /\ Change(r, l) = -r.amount
    BY <1>6, <1>7 DEF Change
  <2>2. r.amount <= stock[l].onHand
    BY <1>1, <1>7, <2>1 DEF May, LineOps
  <2>. QED  BY <1>4, <1>5, <2>1, <2>2, RequestFields
<1>8. CASE r.op = "shipment"
  <2>1. Change(r, l) = -Share(r, l)
    BY <1>6, <1>8 DEF Change
  <2>2. Share(r, l) <= stock[l].onHand
    BY <1>6, <2>1, ShareWithinStock
  <2>. QED  BY <1>4, <1>5, <2>1, <2>2, ShareWithinStock
<1>. QED  BY <1>3, <1>7, <1>8

\* Losses and shipments leave no lot below zero that they drew on, for any stock.
THEOREM CappedAlways == Spec => CappedWritesStayWithinStock
<1>1. TypeOK /\ [Next]_tables => [Capped]_tables
  BY ServeIsCapped DEF Next
<1>. QED
  BY <1>1, RequestsTyped, PTL DEF Spec, CappedWritesStayWithinStock, Capped

-----------------------------------------------------------------------------
(* The rows a request reads and writes, and what another request's write   *)
(* leaves of them.                                                         *)

Footprint(r) ==
  CASE r.op = "shipment" -> Seen(r)
    [] r.op \in LineOps  -> {SourceOf(r), r.line} \ {0}
    [] OTHER             -> r.lots

Same(l) == row'[l] = row[l] /\ stock'[l] = stock[l]

LEMMA WriteFrame ==
  ASSUME TypeOK, NEW r \in Request, Write(r)
  PROVE  /\ \A l \in Row \ Footprint(r) : Same(l)
         /\ \A l \in Row : row'[l].source = row[l].source
<1>1. ASSUME NEW l \in Row \ Footprint(r)
      PROVE  Same(l)
  <2>1. r.op \in LineOps => l # r.line /\ l # SourceOf(r)
    BY <1>1, RequestFields DEF Footprint, LineOps, Row
  <2>2. row'[l] = row[l]
    BY <2>1 DEF Write, TypeOK
  <2>3. ~Touches(r, l)
    BY <1>1, <2>1, RequestFields DEF Touches, Change, Footprint, LineOps, Keyed
  <2>4. stock'[l] = stock[l]
    BY <2>1, <2>3 DEF Write, LineOps
  <2>. QED  BY <2>2, <2>4 DEF Same
<1>2. ASSUME NEW l \in Row
      PROVE  row'[l].source = row[l].source
  BY <1>2, NewRowType, RequestFields DEF Write, TypeOK
<1>. QED  BY <1>1, <1>2

\* Total takes the same value when the rows it counts are the same.
LEMMA UpToFrame ==
  ASSUME NEW r \in Request, \A l \in Seen(r) : Same(l)
  PROVE  UpTo(r, MaxRow)' = UpTo(r, MaxRow)
<1>1. \A l \in Seen(r) : Shippable(l)' = Shippable(l)
  BY DEF Same, Shippable
<1>2. [l \in 1 .. MaxRow |-> When(l \in Seen(r), Shippable(l)')]
        = [l \in 1 .. MaxRow |-> When(l \in Seen(r), Shippable(l))]
  BY <1>1 DEF When
<1>. QED  BY <1>2 DEF UpTo, Seen, Row

LEMMA MayFrame ==
  ASSUME TypeOK, NEW r \in Request, May(r), \A l \in Footprint(r) : Same(l)
  PROVE  May(r)'
<1>0. /\ r.op \in Keyed \cup LineOps
      /\ r.op \in LineOps => r.line \in Row /\ r.lots = {}
      /\ r.op = "count" => Seen(r) = r.lots
  BY RequestFields, RequestAssumption
<1>1. CASE r.op \in {"loss", "dispatch"}
  <2>1. \A l \in r.lots : Same(l)
    BY <1>1 DEF Footprint, LineOps
  <2>. QED  BY <1>1, <2>1 DEF May, LotsOf, IsLot, Same, LineOps
<1>2. CASE r.op = "count"
  <2>1. Seen(r) = r.lots /\ \A l \in r.lots : Same(l)
    BY <1>0, <1>2 DEF Footprint, LineOps
  <2>. QED  BY <1>2, <2>1 DEF May, LotsOf, IsLot, Same, LineOps, SeenIsCurrent, Seen
<1>3. CASE r.op = "shipment"
  <2>1. \A l \in Seen(r) : Same(l)
    BY <1>3 DEF Footprint, LineOps
  <2>2. UpTo(r, MaxRow)' = UpTo(r, MaxRow)
    BY <2>1, UpToFrame
  <2>3. r.amount <= UpTo(r, MaxRow) /\ SeenIsCurrent(r) /\ \A l \in Seen(r) : IsLot(l)
    BY <1>3 DEF May, LotsOf, LineOps
  <2>4. SeenIsCurrent(r)' /\ \A l \in Seen(r) : IsLot(l)'
    BY <2>1, <2>3 DEF SeenIsCurrent, IsLot, Same, Seen
  <2>. QED  BY <1>3, <2>2, <2>3, <2>4 DEF May, LotsOf, Seen
<1>4. CASE r.op \in LineOps
  <2>1. r.line \in Row /\ r.lots = {} /\ Same(r.line)
    BY <1>0, <1>4 DEF Footprint, LineOps, Row
  <2>2. SourceOf(r)' = SourceOf(r)
    BY <2>1 DEF SourceOf, Same
  <2>3. SourceOf(r) # 0 => Same(SourceOf(r))
    BY <1>4 DEF Footprint, LineOps
  <2>4. MayEdit(r)
    BY <1>4 DEF May, LineOps
  <2>5. MayEdit(r)'
    BY <2>1, <2>2, <2>3, <2>4 DEF MayEdit, IsLot, Same
  <2>. QED  BY <1>4, <2>1, <2>5 DEF May, LotsOf, LineOps
<1>. QED  BY <1>0, <1>1, <1>2, <1>3, <1>4 DEF Keyed

LEMMA FootprintFrame ==
  ASSUME NEW r \in Request, \A l \in Row : row'[l].source = row[l].source
  PROVE  Footprint(r)' = Footprint(r)
<1>1. r.op \in LineOps => SourceOf(r)' = SourceOf(r)
  BY RequestFields DEF SourceOf
<1>. QED  BY <1>1 DEF Footprint, Seen, Row, LineOps

LEMMA KeyIsFreeFrame ==
  ASSUME TypeOK, NEW r \in Request, NEW q \in Request, Write(q), ~SameKey(r, q), KeyIsFree(r)
  PROVE  KeyIsFree(r)'
<1>1. r.op \in Keyed => SlotOf(r) \notin Recorded'
  <2>1. SUFFICES ASSUME r.op \in Keyed, SlotOf(r) \in Slot
                 PROVE  record'[SlotOf(r)] = NoRequest
    BY DEF Recorded
  <2>2. record[SlotOf(r)] = NoRequest
    BY <2>1 DEF KeyIsFree, Recorded
  <2>3. q.op \in Keyed => SlotOf(r) # SlotOf(q)
    BY <2>1 DEF SameKey
  <2>. QED  BY <2>1, <2>2, <2>3 DEF Write, TypeOK
<1>2. r.op = "confirm" => \A x \in Row \ {r.line} : row'[x].receipt # r.key
  <2> SUFFICES ASSUME r.op = "confirm", NEW x \in Row \ {r.line}
               PROVE  row'[x].receipt # r.key
    OBVIOUS
  <2>1. row[x].receipt # r.key
    BY DEF KeyIsFree
  <2>2. CASE q.op \in LineOps /\ x = q.line
    <3>1. row'[x] = NewRow(q)
      BY <2>2, RequestFields DEF Write, TypeOK
    <3>2. row'[x].receipt = IF q.op = "confirm" THEN q.key ELSE row[x].receipt
      BY <2>2, <3>1, NewRowType
    <3>. QED  BY <2>1, <3>2 DEF SameKey
  <2>3. CASE ~(q.op \in LineOps /\ x = q.line)
    <3>1. row'[x] = row[x]
      BY <2>3, RequestFields DEF Write, TypeOK
    <3>. QED  BY <2>1, <3>1
  <2>. QED  BY <2>2, <2>3
<1>. QED  BY <1>1, <1>2 DEF KeyIsFree, SlotOf

-----------------------------------------------------------------------------
(* The invariant: what a handler has established at each place of its      *)
(* transaction, with its rows locked against the others from then on.      *)

Fit(s) ==
  /\ s.pc # "idle" => s.req \in Request
  /\ s.pc = "preflight" => s.req.op \in Keyed
  /\ s.pc = "lookup" => s.req.op \in LineOps \cup {"shipment"}
  /\ s.pc \in {"preflight", "lookup"} => s.locked = {}
  /\ s.pc = "lock" => \A x \in s.locked : \A y \in s.want \ s.locked : x < y
  /\ s.pc \in {"lock", "check"} /\ s.req.op # "shipment" => Footprint(s.req) \subseteq s.want
  /\ s.pc = "check" => s.want \subseteq s.locked
  /\ s.pc \in {"insert", "commit"} => Footprint(s.req) \subseteq s.locked /\ May(s.req)
  /\ s.pc = "commit" => KeyIsFree(s.req)

HandlersFit == \A h \in Handler : \A s \in HandlerType : handler[h] = s => Fit(s)

\* Two handlers share no lock, and do not write under the same key.
Apart(s, t) ==
  /\ s.locked \cap t.locked = {}
  /\ s.pc = "commit" /\ t.pc = "commit" => ~SameKey(s.req, t.req)
HandlersApart == \A g, h \in Handler : g # h => Apart(handler[g], handler[h])

IInv == TypeOKWrites /\ HandlersFit /\ HandlersApart

LEMMA IdleIsFit ==
  ASSUME NEW answer \in Answer
  PROVE  /\ [Idle EXCEPT !.answer = answer] \in HandlerType
         /\ Fit([Idle EXCEPT !.answer = answer])
         /\ Fit([Idle EXCEPT !.answer = answer])'
         /\ \A t \in HandlerType : Apart([Idle EXCEPT !.answer = answer], t)
BY DEF Idle, HandlerType, Fit, Pc, Answer, Apart

LEMMA FitUnchanged ==
  ASSUME NEW s \in HandlerType, UNCHANGED tables, Fit(s)
  PROVE  Fit(s)'
<1>1. row' = row /\ stock' = stock /\ record' = record
  BY DEF tables
<1>. QED
  BY <1>1 DEF Fit, Footprint, May, LotsOf, IsLot, SeenIsCurrent, Seen, UpTo, Shippable,
              MayEdit, SourceOf, KeyIsFree, Recorded, Slot

\* A step of one handler that writes nothing: enough that its new state is fit and apart.
LEMMA StillStep ==
  ASSUME IInv, UNCHANGED tables, NEW h \in Handler, NEW s \in HandlerType,
         handler' = [handler EXCEPT ![h] = s], Fit(s),
         \A g \in Handler \ {h} : Apart(handler[g], s) /\ Apart(s, handler[g])
  PROVE  IInv'
<1>1. handler \in [Handler -> HandlerType] /\ TypeOK
  BY DEF IInv, TypeOKWrites
<1>2. TypeOKWrites'
  BY <1>1 DEF TypeOKWrites, TypeOK, tables, HandlerType
<1>3. HandlersFit'
  <2> SUFFICES ASSUME NEW g \in Handler, NEW t \in HandlerType, handler'[g] = t
               PROVE  Fit(t)'
    BY DEF HandlersFit, HandlerType
  <2>1. g # h => handler[g] = t
    BY <1>1
  <2>2. g = h => t = s
    BY <1>1
  <2>3. Fit(t)
    BY <2>1, <2>2 DEF IInv, HandlersFit
  <2>. QED  BY <2>3, FitUnchanged
<1>4. HandlersApart'
  <2> SUFFICES ASSUME NEW f \in Handler, NEW g \in Handler, f # g
               PROVE  Apart(handler'[f], handler'[g])
    BY DEF HandlersApart, Apart, SameKey, SlotOf
  <2>1. handler'[f] = IF f = h THEN s ELSE handler[f]
    BY <1>1
  <2>2. handler'[g] = IF g = h THEN s ELSE handler[g]
    BY <1>1
  <2>3. f # h /\ g # h => Apart(handler[f], handler[g])
    BY DEF IInv, HandlersApart
  <2>4. CASE f = h
    BY <2>1, <2>2, <2>4
  <2>5. CASE g = h
    BY <2>1, <2>2, <2>5
  <2>. QED  BY <2>1, <2>2, <2>3, <2>4, <2>5
<1>. QED  BY <1>2, <1>3, <1>4 DEF IInv

-----------------------------------------------------------------------------
(* Every step keeps the invariant.                                         *)

LEMMA AtWork ==
  ASSUME IInv, NEW h \in Handler
  PROVE  /\ handler[h] \in HandlerType /\ Fit(handler[h])
         /\ handler[h].pc # "idle" => handler[h].req \in Request
         /\ \A g \in Handler \ {h} : Apart(handler[g], handler[h]) /\ Apart(handler[h], handler[g])
<1>1. handler[h] \in HandlerType /\ Fit(handler[h])
  BY DEF IInv, TypeOKWrites, HandlersFit
<1>. QED  BY <1>1 DEF IInv, HandlersApart, Fit

LEMMA EndStep ==
  ASSUME IInv, UNCHANGED tables, NEW h \in Handler, NEW answer \in Answer, End(h, answer)
  PROVE  IInv'
<1>1. PICK s \in HandlerType : s = [Idle EXCEPT !.answer = answer]
  BY IdleIsFit
<1>2. handler' = [handler EXCEPT ![h] = s] /\ Fit(s)
  BY <1>1, IdleIsFit DEF End
<1>3. \A g \in Handler \ {h} : Apart(handler[g], s) /\ Apart(s, handler[g])
  BY <1>1 DEF Idle, Apart
<1>. QED  BY <1>2, <1>3, StillStep

LEMMA RollBackStep ==
  ASSUME IInv, UNCHANGED tables, NEW h \in Handler, handler[h].pc # "idle", RollBack(h)
  PROVE  IInv'
<1>1. [Idle EXCEPT !.pc = "again", !.req = handler[h].req] \in HandlerType
  BY AtWork DEF Idle, HandlerType, Pc, Answer
<1>2. PICK s \in HandlerType : s = [Idle EXCEPT !.pc = "again", !.req = handler[h].req]
  BY <1>1
<1>3. handler' = [handler EXCEPT ![h] = s]
  BY <1>2 DEF RollBack
<1>4. Fit(s)
  BY <1>2, AtWork DEF Fit, Idle
<1>5. \A g \in Handler \ {h} : Apart(handler[g], s) /\ Apart(s, handler[g])
  BY <1>2 DEF Idle, Apart
<1>. QED  BY <1>3, <1>4, <1>5, StillStep

\* A step within the transaction: the request and the locks stay.
LEMMA InnerStep ==
  ASSUME IInv, UNCHANGED tables, NEW h \in Handler, NEW pc \in Pc \ {"commit"},
         NEW view \in SUBSET Slot, NEW want \in SUBSET Row, NEW s, s = handler[h],
         handler' = [handler EXCEPT ![h] = [s EXCEPT !.pc = pc, !.view = view, !.want = want]],
         Fit([s EXCEPT !.pc = pc, !.view = view, !.want = want])
  PROVE  IInv'
<1>1. s \in HandlerType
  BY AtWork
<1>2. [s EXCEPT !.pc = pc, !.view = view, !.want = want] \in HandlerType
  BY <1>1 DEF HandlerType
<1>3. PICK t \in HandlerType : t = [s EXCEPT !.pc = pc, !.view = view, !.want = want]
  BY <1>2
<1>4. t.pc # "commit" /\ t.locked = s.locked
  BY <1>1, <1>3 DEF HandlerType
<1>5. \A g \in Handler \ {h} : Apart(handler[g], t) /\ Apart(t, handler[g])
  BY <1>4, AtWork DEF Apart
<1>. QED  BY <1>3, <1>5, StillStep

\* What a handler has to show to look its rows up, or to start locking them.
LEMMA FitOf ==
  ASSUME NEW s \in HandlerType, s.locked = {}, s.req \in Request, NEW view, NEW want
  PROVE  /\ s.req.op \in LineOps \cup {"shipment"} =>
              Fit([s EXCEPT !.pc = "lookup", !.view = view, !.want = want])
         /\ (s.req.op # "shipment" => Footprint(s.req) \subseteq want) =>
              Fit([s EXCEPT !.pc = "lock", !.view = view, !.want = want])
<1> DEFINE t(pc) == [s EXCEPT !.pc = pc, !.view = view, !.want = want]
<1>1. ASSUME NEW pc
      PROVE  t(pc).pc = pc /\ t(pc).req = s.req /\ t(pc).want = want /\ t(pc).locked = {}
  BY DEF HandlerType
<1> HIDE DEF t
<1>2. s.req.op \in LineOps \cup {"shipment"} => Fit(t("lookup"))
  BY <1>1 DEF Fit
<1>3. (s.req.op # "shipment" => Footprint(s.req) \subseteq want) => Fit(t("lock"))
  BY <1>1 DEF Fit
<1>. QED  BY <1>2, <1>3 DEF t

LEMMA ReplayStep ==
  ASSUME IInv, UNCHANGED tables, NEW h \in Handler, NEW r, Replay(h, r)
  PROVE  IInv'
<1>1. End(h, "done") \/ End(h, "refused")
  BY DEF Replay
<1>. QED  BY <1>1, EndStep DEF Answer

LEMMA ReceiveStep == ASSUME IInv, NEW h \in Handler, Receive(h) PROVE IInv'
<1>1. PICK r \in Request :
        handler' = [handler EXCEPT ![h] = [Idle EXCEPT
                      !.req = r, !.pc = IF r.op \in Keyed THEN "preflight" ELSE "lookup"]]
  BY DEF Receive
<1>2. [Idle EXCEPT !.req = r, !.pc = IF r.op \in Keyed THEN "preflight" ELSE "lookup"]
        \in HandlerType
  BY DEF Idle, HandlerType, Pc, Answer
<1>3. PICK s \in HandlerType :
        s = [Idle EXCEPT !.req = r, !.pc = IF r.op \in Keyed THEN "preflight" ELSE "lookup"]
  BY <1>2
<1>4. /\ s.req = r /\ s.locked = {}
      /\ s.pc = IF r.op \in Keyed THEN "preflight" ELSE "lookup"
  BY <1>3 DEF Idle
<1>5. Fit(s)
  BY <1>4, RequestFields DEF Fit, LineOps, Keyed
<1>6. \A g \in Handler \ {h} : Apart(handler[g], s) /\ Apart(s, handler[g])
  BY <1>4 DEF Apart
<1>. QED  BY <1>1, <1>3, <1>5, <1>6, StillStep DEF Receive

LEMMA PreflightStep == ASSUME IInv, NEW h \in Handler, Preflight(h) PROVE IInv'
<1> DEFINE r == handler[h].req
<1>1. UNCHANGED tables /\ handler[h].pc = "preflight"
  BY DEF Preflight
<1>2. /\ handler[h] \in HandlerType /\ r \in Request /\ r.op \in Keyed
      /\ r.lots \in SUBSET Row
  BY <1>1, AtWork, RequestFields DEF Fit
<1>3. CASE Replay(h, r)
  BY <1>1, <1>3, ReplayStep
<1>4. CASE r.op = "shipment" /\ Goto(h, "lookup")
  <2>1. PICK s : s = handler[h]
    OBVIOUS
  <2>2. handler' = [handler EXCEPT ![h] = [s EXCEPT !.pc = "lookup", !.view = s.view,
                                                    !.want = s.want]]
    BY <1>2, <1>4, <2>1, AtWork DEF Goto, HandlerType
  <2>3. Fit([s EXCEPT !.pc = "lookup", !.view = s.view, !.want = s.want])
    <3>1. s.locked = {} /\ s.req \in Request /\ s.req.op = "shipment"
      BY <1>1, <1>2, <1>4, <2>1, AtWork DEF Fit
    <3>. QED  BY <1>2, <2>1, <3>1, FitOf DEF LineOps
  <2>. QED  BY <1>1, <1>2, <2>1, <2>2, <2>3, InnerStep DEF Pc, HandlerType
<1>5. CASE /\ r.op # "shipment"
           /\ handler' = [handler EXCEPT ![h].pc = "lock", ![h].want = r.lots]
  <2>1. PICK s : s = handler[h]
    OBVIOUS
  <2>2. handler' = [handler EXCEPT ![h] = [s EXCEPT !.pc = "lock", !.view = s.view,
                                                    !.want = r.lots]]
    BY <1>2, <1>5, <2>1, AtWork DEF HandlerType
  <2>3. Fit([s EXCEPT !.pc = "lock", !.view = s.view, !.want = r.lots])
    <3>1. s.locked = {} /\ s.req = r
      BY <1>1, <2>1, AtWork DEF Fit
    <3>2. Footprint(r) = r.lots
      BY <1>2, <1>5 DEF Footprint, LineOps, Keyed
    <3>. QED  BY <1>2, <2>1, <3>1, <3>2, FitOf
  <2>. QED  BY <1>1, <1>2, <2>1, <2>2, <2>3, InnerStep DEF Pc, HandlerType
<1>. QED  BY <1>3, <1>4, <1>5 DEF Preflight

LEMMA LookupStep == ASSUME IInv, NEW h \in Handler, Lookup(h) PROVE IInv'
<1> DEFINE r == handler[h].req
<1>1. UNCHANGED tables /\ handler[h].pc = "lookup"
  BY DEF Lookup
<1>2. handler[h] \in HandlerType /\ r \in Request /\ r.op \in LineOps \cup {"shipment"}
  BY <1>1, AtWork DEF Fit
<1>3. Found(r) \in SUBSET Row
  <2>1. r.op \in LineOps => SourceOf(r) \in 0 .. MaxRow /\ r.line \in Row
    BY <1>2, RequestFields DEF IInv, TypeOKWrites, TypeOK, RowType, SourceOf
  <2>. QED  BY <1>2, <2>1, RequestFields, RequestAssumption DEF Found, Row
<1>4. r.op # "shipment" => Footprint(r) \subseteq Found(r)
  BY <1>2 DEF Footprint, Found
<1>5. PICK s : s = handler[h]
  OBVIOUS
<1>6. handler' = [handler EXCEPT ![h] = [s EXCEPT !.pc = "lock", !.view = Recorded,
                                                  !.want = Found(r)]]
  BY <1>2, <1>5, AtWork DEF Lookup, HandlerType
<1>7. Fit([s EXCEPT !.pc = "lock", !.view = Recorded, !.want = Found(r)])
  <2>1. s.locked = {} /\ s.req = r
    BY <1>1, <1>5, AtWork DEF Fit
  <2>. QED  BY <1>2, <1>4, <1>5, <2>1, FitOf
<1>8. PICK want \in SUBSET Row : want = Found(r)
  BY <1>3
<1>9. PICK view \in SUBSET Slot : view = Recorded
  BY DEF Recorded
<1>. QED  BY <1>1, <1>5, <1>6, <1>7, <1>8, <1>9, InnerStep DEF Pc

LEMMA LockStep == ASSUME IInv, NEW h \in Handler, Lock(h) PROVE IInv'
<1> DEFINE r == handler[h].req
<1>1. PICK x \in Row :
        /\ IsNextLock(h, x) /\ ~HeldByOther(h, x)
        /\ \/ End(h, "refused")
           \/ handler' = [handler EXCEPT ![h].locked = @ \cup {x}]
  BY DEF Lock
<1>2. UNCHANGED tables /\ handler[h].pc = "lock" /\ handler[h] \in HandlerType /\ Fit(handler[h])
  BY AtWork DEF Lock
<1>3. CASE End(h, "refused")
  BY <1>2, <1>3, EndStep DEF Answer
<1>4. CASE handler' = [handler EXCEPT ![h].locked = @ \cup {x}]
  <2>1. [handler[h] EXCEPT !.locked = @ \cup {x}] \in HandlerType
    BY <1>2 DEF HandlerType
  <2>2. PICK s \in HandlerType : s = [handler[h] EXCEPT !.locked = @ \cup {x}]
    BY <2>1
  <2>3. /\ s.pc = "lock" /\ s.req = r /\ s.want = handler[h].want
        /\ s.locked = handler[h].locked \cup {x}
    BY <1>2, <2>2 DEF HandlerType
  <2>4. handler' = [handler EXCEPT ![h] = s]
    BY <1>4, <2>2
  <2>5. Fit(s)
    <3>1. \A z \in s.locked : \A y \in s.want \ s.locked : z < y
      BY <1>1, <1>2, <2>3 DEF Fit, IsNextLock, HandlerType, Row
    <3>. QED  BY <1>2, <2>3, <3>1 DEF Fit
  <2>6. \A g \in Handler \ {h} : Apart(handler[g], s) /\ Apart(s, handler[g])
    BY <1>1, <2>3, AtWork DEF Apart, HeldByOther
  <2>. QED  BY <1>2, <2>4, <2>5, <2>6, StillStep
<1>. QED  BY <1>1, <1>3, <1>4

LEMMA LockedStep == ASSUME IInv, NEW h \in Handler, Locked(h) PROVE IInv'
<1>1. /\ UNCHANGED tables /\ handler[h].pc = "lock" /\ handler[h] \in HandlerType
      /\ Fit(handler[h]) /\ handler[h].want \subseteq handler[h].locked
  BY AtWork DEF Locked
<1>2. PICK view \in SUBSET Slot :
        view = IF handler[h].req.op \in Keyed \ {"shipment"} THEN Recorded ELSE handler[h].view
  BY <1>1 DEF Recorded, HandlerType
<1>3. PICK s : s = handler[h]
  OBVIOUS
<1>4. handler' = [handler EXCEPT ![h] = [s EXCEPT !.pc = "check", !.view = view,
                                                  !.want = s.want]]
  BY <1>1, <1>2, <1>3 DEF Locked, HandlerType
<1>5. Fit([s EXCEPT !.pc = "check", !.view = view, !.want = s.want])
  BY <1>1, <1>3 DEF Fit, HandlerType
<1>. QED  BY <1>1, <1>3, <1>4, <1>5, InnerStep DEF Pc, HandlerType

\* The checks pass: the rows they read are the request's, and it holds their locks.
LEMMA CheckStep == ASSUME IInv, NEW h \in Handler, Check(h) PROVE IInv'
<1> DEFINE r == handler[h].req
<1>1. /\ UNCHANGED tables /\ handler[h].pc = "check" /\ handler[h] \in HandlerType
      /\ Fit(handler[h]) /\ r \in Request
  BY AtWork DEF Check
<1>2. \/ Replay(h, r)
      \/ End(h, "done")
      \/ End(h, "refused")
      \/ Checks(h, r) /\ Goto(h, "insert")
  BY DEF Check
<1>3. CASE Replay(h, r)
  BY <1>1, <1>3, ReplayStep
<1>4. CASE End(h, "done") \/ End(h, "refused")
  BY <1>1, <1>4, EndStep DEF Answer
<1>5. CASE Checks(h, r) /\ Goto(h, "insert")
  <2>1. PICK s : s = handler[h]
    OBVIOUS
  <2>2. handler' = [handler EXCEPT ![h] = [s EXCEPT !.pc = "insert", !.view = s.view,
                                                    !.want = s.want]]
    BY <1>1, <1>5, <2>1 DEF Goto, HandlerType
  <2>3. Footprint(r) \subseteq handler[h].want
    BY <1>1, <1>5 DEF Checks, Footprint, Fit, LineOps
  <2>4. Footprint(r) \subseteq handler[h].locked /\ May(r)
    BY <1>1, <1>5, <2>3 DEF Checks, Fit
  <2>5. Fit([s EXCEPT !.pc = "insert", !.view = s.view, !.want = s.want])
    BY <1>1, <2>1, <2>4 DEF Fit, HandlerType
  <2>. QED  BY <1>1, <2>1, <2>2, <2>5, InnerStep DEF Pc, HandlerType
<1>. QED  BY <1>2, <1>3, <1>4, <1>5

\* No other handler that is about to commit writes under the same key.
LEMMA InsertStep == ASSUME IInv, NEW h \in Handler, Insert(h) PROVE IInv'
<1> DEFINE r == handler[h].req
<1>1. /\ UNCHANGED tables /\ handler[h].pc = "insert" /\ handler[h] \in HandlerType
      /\ Fit(handler[h]) /\ r \in Request
  BY AtWork DEF Insert
<1>2. CASE RollBack(h)
  BY <1>1, <1>2, RollBackStep
<1>3. CASE KeyIsFree(r) /\ Goto(h, "commit")
  <2>1. [handler[h] EXCEPT !.pc = "commit"] \in HandlerType
    BY <1>1 DEF HandlerType, Pc
  <2>2. PICK s \in HandlerType : s = [handler[h] EXCEPT !.pc = "commit"]
    BY <2>1
  <2>3. s.pc = "commit" /\ s.req = r /\ s.want = handler[h].want /\ s.locked = handler[h].locked
    BY <1>1, <2>2 DEF HandlerType
  <2>4. handler' = [handler EXCEPT ![h] = s]
    BY <1>3, <2>2 DEF Goto
  <2>5. Fit(s)
    BY <1>1, <1>3, <2>3 DEF Fit
  <2>6. ASSUME NEW g \in Handler \ {h}
        PROVE  Apart(handler[g], s) /\ Apart(s, handler[g])
    <3>1. handler[g].pc = "commit" => ~SameKey(r, handler[g].req)
      BY <1>1 DEF Insert, WaitsFor
    <3>2. handler[g].pc = "commit" => ~SameKey(handler[g].req, r)
      BY <3>1 DEF SameKey
    <3>3. handler[g].locked \cap s.locked = {} /\ s.locked \cap handler[g].locked = {}
      BY <2>3, AtWork DEF Apart
    <3>. QED  BY <2>3, <3>1, <3>2, <3>3 DEF Apart
  <2>. QED  BY <1>1, <2>4, <2>5, <2>6, StillStep
<1>. QED  BY <1>2, <1>3 DEF Insert

LEMMA AgainStep == ASSUME IInv, NEW h \in Handler, Again(h) PROVE IInv'
<1>1. UNCHANGED tables
  BY DEF Again
<1>2. \/ Replay(h, handler[h].req) \/ End(h, "done") \/ End(h, "refused")
  BY DEF Again
<1>. QED  BY <1>1, <1>2, ReplayStep, EndStep DEF Answer

LEMMA TimeOutStep == ASSUME IInv, NEW h \in Handler, TimeOut(h) PROVE IInv'
<1>1. UNCHANGED tables /\ handler[h].pc # "idle"
  BY DEF TimeOut, WaitsFor
<1>2. RollBack(h) \/ End(h, "failed")
  BY DEF TimeOut
<1>. QED  BY <1>1, <1>2, RollBackStep, EndStep DEF Answer

LEMMA CrashStep == ASSUME IInv, NEW h \in Handler, Crash(h) PROVE IInv'
BY EndStep DEF Crash, Answer

\* A commit is a step of LotRequests.
LEMMA CommitServes ==
  ASSUME IInv, NEW h \in Handler, Commit(h)
  PROVE  handler[h].req \in Request /\ Serve(handler[h].req)
BY AtWork DEF Commit, Serve, Fit

\* What the others checked stays as they checked it: they hold its locks.
LEMMA CommitStep == ASSUME IInv, NEW h \in Handler, Commit(h) PROVE IInv'
<1>1. PICK q \in Request : q = handler[h].req
  BY CommitServes
<1>2. /\ Write(q) /\ TypeOK /\ handler[h].pc = "commit"
      /\ Footprint(q) \subseteq handler[h].locked
      /\ handler \in [Handler -> HandlerType]
  BY <1>1, AtWork DEF Commit, Fit, IInv, TypeOKWrites
<1>3. PICK e \in HandlerType : e = [Idle EXCEPT !.answer = "done"]
  BY IdleIsFit DEF Answer
<1>4. handler' = [handler EXCEPT ![h] = e]
  BY <1>3 DEF Commit, End
<1>5. TypeOKWrites'
  <2>1. TypeOK'
    BY <1>2, WriteKeepsTypes
  <2>2. handler' \in [Handler -> HandlerType]
    BY <1>2, <1>4
  <2>. QED  BY <2>1, <2>2 DEF TypeOKWrites, HandlerType
<1>6. HandlersFit'
  <2> SUFFICES ASSUME NEW g \in Handler, NEW s \in HandlerType, handler'[g] = s
               PROVE  Fit(s)'
    BY DEF HandlersFit, HandlerType
  <2>1. CASE g = h
    <3>1. s = e
      BY <1>2, <1>4, <2>1
    <3>. QED  BY <1>3, <3>1 DEF Fit, Idle
  <2>2. CASE g # h
    <3>1. handler[g] = s /\ Fit(s) /\ Apart(s, handler[h])
      BY <1>2, <1>4, <2>2, AtWork
    <3>2. s.locked \cap Footprint(q) = {}
      BY <1>2, <3>1 DEF Apart
    <3>3. /\ \A l \in Row \ Footprint(q) : Same(l)
          /\ \A l \in Row : row'[l].source = row[l].source
      BY <1>2, WriteFrame
    <3>4. s.pc # "idle" => s.req \in Request
      BY <3>1 DEF Fit
    <3>5. s.pc # "idle" => Footprint(s.req)' = Footprint(s.req)
      BY <3>3, <3>4, FootprintFrame
    <3>6. s.pc \in {"insert", "commit"} => May(s.req)'
      <4> SUFFICES ASSUME s.pc \in {"insert", "commit"}
                   PROVE  May(s.req)'
        OBVIOUS
      <4>1. s.req \in Request /\ Footprint(s.req) \subseteq s.locked /\ May(s.req)
        BY <3>1, <3>4 DEF Fit
      <4>2. \A l \in Footprint(s.req) : Same(l)
        BY <3>2, <3>3, <4>1 DEF HandlerType
      <4>. QED  BY <1>2, <4>1, <4>2, MayFrame
    <3>7. s.pc = "commit" => KeyIsFree(s.req)'
      <4> SUFFICES ASSUME s.pc = "commit"
                   PROVE  KeyIsFree(s.req)'
        OBVIOUS
      <4>1. s.req \in Request /\ KeyIsFree(s.req) /\ ~SameKey(s.req, q)
        BY <1>1, <1>2, <3>1, <3>4 DEF Fit, Apart
      <4>. QED  BY <1>2, <4>1, KeyIsFreeFrame
    <3>. QED  BY <3>1, <3>5, <3>6, <3>7 DEF Fit
  <2>. QED  BY <2>1, <2>2
<1>7. HandlersApart'
  <2> SUFFICES ASSUME NEW f \in Handler, NEW g \in Handler, f # g
               PROVE  Apart(handler'[f], handler'[g])
    BY DEF HandlersApart, Apart, SameKey, SlotOf
  <2>1. /\ handler'[f] = IF f = h THEN e ELSE handler[f]
        /\ handler'[g] = IF g = h THEN e ELSE handler[g]
    BY <1>2, <1>4
  <2>2. Apart(handler[f], handler[g])
    BY DEF IInv, HandlersApart
  <2>3. e.locked = {} /\ e.pc = "idle"
    BY <1>3 DEF Idle
  <2>. QED  BY <2>1, <2>2, <2>3 DEF Apart
<1>. QED  BY <1>5, <1>6, <1>7 DEF IInv

LEMMA InitIsFit == InitWrites => IInv
<1> SUFFICES ASSUME InitWrites PROVE IInv
  OBVIOUS
<1>1. TypeOK
  BY StartAssumption DEF InitWrites, Init, TypeOK
<1>2. handler = [h \in Handler |-> Idle] /\ Idle \in HandlerType
  BY DEF InitWrites, Idle, HandlerType, Pc, Answer
<1>3. HandlersFit
  BY <1>2 DEF HandlersFit, Fit, Idle
<1>4. HandlersApart
  BY <1>2 DEF HandlersApart, Apart, Idle
<1>. QED  BY <1>1, <1>2, <1>3, <1>4 DEF IInv, TypeOKWrites

LEMMA NextKeepsFit == IInv /\ [NextWrites]_vars => IInv'
<1>1. ASSUME IInv, NEW h \in Handler, Step(h)
      PROVE  IInv'
  BY <1>1, PreflightStep, LookupStep, LockStep, LockedStep, CheckStep, InsertStep,
     CommitStep, AgainStep DEF Step
<1>2. IInv /\ NextWrites => IInv'
  BY <1>1, ReceiveStep, TimeOutStep, CrashStep DEF NextWrites
<1>3. ASSUME IInv, UNCHANGED vars
      PROVE  IInv'
  <2>1. UNCHANGED tables /\ UNCHANGED handler
    BY <1>3 DEF vars, tables
  <2>2. TypeOKWrites'
    BY <1>3, <2>1 DEF IInv, TypeOKWrites, TypeOK, tables
  <2>3. HandlersFit'
    BY <1>3, <2>1, FitUnchanged DEF IInv, HandlersFit, HandlerType
  <2>4. HandlersApart'
    BY <1>3, <2>1 DEF IInv, HandlersApart, Apart, SameKey, SlotOf
  <2>. QED  BY <2>2, <2>3, <2>4 DEF IInv
<1>. QED  BY <1>2, <1>3

\* Records of handlers are records of handlers, whatever they do.
THEOREM WritesTyped == SpecWrites => []TypeOKWrites
<1>1. IInv => TypeOKWrites
  BY DEF IInv
<1>. QED
  BY <1>1, InitIsFit, NextKeepsFit, PTL DEF SpecWrites

\* Every transaction takes effect as one step of LotRequests, on rows that still
\* allow it and under a key that is still free.
THEOREM WritesImplementRequests == SpecWrites => ImplementsRequests
<1>1. InitWrites => Init
  BY DEF InitWrites
<1>2. IInv /\ [NextWrites]_vars => [Next]_tables
  <2>1. ASSUME IInv, NEW h \in Handler, Commit(h)
        PROVE  Next
    BY <2>1, CommitServes DEF Next
  <2>2. ASSUME NEW h \in Handler, Step(h), ~Commit(h)
        PROVE  UNCHANGED tables
    BY <2>2 DEF Step, Preflight, Lookup, Lock, Locked, Check, Insert, Again
  <2>3. ASSUME NEW h \in Handler, Receive(h) \/ TimeOut(h) \/ Crash(h)
        PROVE  UNCHANGED tables
    BY <2>3 DEF Receive, TimeOut, Crash
  <2>4. UNCHANGED vars => UNCHANGED tables
    BY DEF vars, tables
  <2>. QED  BY <2>1, <2>2, <2>3, <2>4 DEF NextWrites, Step
<1>. QED
  BY <1>1, <1>2, InitIsFit, NextKeepsFit, PTL DEF SpecWrites, ImplementsRequests, Spec

\* The transactions leave no lot below zero that a loss or a shipment drew on.
THEOREM CappedByTransactions == SpecWrites => CappedWritesStayWithinStock
BY WritesImplementRequests, CappedAlways DEF ImplementsRequests

-----------------------------------------------------------------------------
(* Deadlocks.  A handler that waits for a row holds only rows before it,   *)
(* and one that waits for a key waits for a handler that waits for nobody: *)
(* along a circle of waits the row waited for would grow for ever.         *)

LEMMA WaitsForARow ==
  ASSUME NEW h \in Handler, NEW g \in Handler, NEW f \in Handler, WaitsFor(h, g), WaitsFor(g, f)
  PROVE  handler[h].pc = "lock" /\ \E x \in handler[g].locked : IsNextLock(h, x)
BY DEF WaitsFor

\* A set of rows without a greatest one is empty.
LEMMA NoGreatestRow ==
  ASSUME NEW D \in SUBSET Row, \A x \in D : \E y \in D : x < y
  PROVE  D = {}
<1> SUFFICES ASSUME D # {} PROVE FALSE
  OBVIOUS
<1> DEFINE S == {n \in Nat : \E x \in D : n <= x}
<1>0. D \subseteq Nat /\ MaxRow \in Nat /\ \A x \in D : x <= MaxRow
  BY RequestAssumption DEF Row
<1>1. 0 \in S
  <2>1. PICK x : x \in D
    OBVIOUS
  <2>2. x \in Nat /\ 0 <= x
    BY <1>0, <2>1
  <2>. QED  BY <2>1, <2>2
<1>2. ASSUME NEW n \in Nat, n \in S
      PROVE  n + 1 \in S
  <2>1. PICK x \in D : n <= x
    BY <1>2
  <2>2. PICK y \in D : x < y
    BY <2>1
  <2>3. n + 1 <= y
    BY <1>0, <2>1, <2>2
  <2>. QED  BY <2>2, <2>3
<1>3. S = Nat
  <2>1. S \in SUBSET Nat
    OBVIOUS
  <2> HIDE DEF S
  <2>. QED  BY <1>1, <1>2, <2>1, SetInduction
<1>4. MaxRow + 1 \in S
  <2> HIDE DEF S
  <2>. QED  BY <1>0, <1>3
<1>. QED  BY <1>0, <1>4

LEMMA FitHasNoDeadlock == IInv => NoDeadlock
<1> SUFFICES ASSUME IInv, NEW waiting \in (SUBSET Handler) \ {{}},
                    \A h \in waiting : \E g \in waiting : WaitsFor(h, g)
             PROVE  FALSE
  BY DEF NoDeadlock
<1>1. ASSUME NEW h \in waiting
      PROVE  /\ handler[h].pc = "lock"
             /\ \E g \in waiting : \E x \in handler[g].locked : IsNextLock(h, x)
  BY WaitsForARow
<1> DEFINE D == {x \in Row : \E h \in waiting : IsNextLock(h, x)}
<1>2. ASSUME NEW h \in waiting, NEW x, IsNextLock(h, x)
      PROVE  x \in D
  BY <1>2, AtWork DEF IsNextLock, HandlerType
<1>3. D # {}
  BY <1>1, <1>2
<1>4. ASSUME NEW x \in D
      PROVE  \E y \in D : x < y
  <2>1. PICK h \in waiting : IsNextLock(h, x)
    OBVIOUS
  <2>2. PICK g \in waiting : \E z \in handler[g].locked : IsNextLock(h, z)
    BY <1>1
  <2>3. x \in handler[g].locked
    BY <2>1, <2>2, AtWork DEF IsNextLock, HandlerType, Row
  <2>4. PICK y : IsNextLock(g, y)
    BY <1>1
  <2>5. x < y
    BY <1>1, <2>3, <2>4, AtWork DEF IsNextLock, Fit
  <2>. QED  BY <1>2, <2>4, <2>5
<1> HIDE DEF D
<1>5. D \in SUBSET Row
  BY DEF D
<1>. QED  BY <1>3, <1>4, <1>5, NoGreatestRow

\* However many handlers run, no set of them waits for one another.
THEOREM NoDeadlockEver == SpecWrites => []NoDeadlock
BY InitIsFit, NextKeepsFit, FitHasNoDeadlock, PTL DEF SpecWrites
=============================================================================
