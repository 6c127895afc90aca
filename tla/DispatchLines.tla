---------------------------- MODULE DispatchLines ----------------------------
(***************************************************************************)
(* One submission of several lines from a lot of a team to the warehouse,  *)
(* line by line inside its transaction. A line with a slot consumes the    *)
(* claim on it and writes the slot at once, which runs the hook that keeps *)
(* the balances; a line is only written with the last of them, but the     *)
(* hook counts every document that is new in the session. The other        *)
(* modules see a submission as a whole: this one looks inside.             *)
(***************************************************************************)
EXTENDS Integers, Sequences, FiniteSets, FiniteSetsExt

CONSTANTS Received,     \* the quantity of the lot
          Slots,        \* free slots the form has claimed
          NoSlot,
          Amounts,      \* the quantities of lines
          MaxLines      \* the lines there may be (a bound)

VARIABLES balance,      \* the row of the lot in the table of balances
          line,         \* the lines written: quantity, status, slot
          claimed       \* the slots the form still has a claim on

vars == <<balance, line, claimed>>

Sum(rows) == MapThenSumSet(LAMBDA i : rows[i].quantity, DOMAIN rows)

\* consume: the first line for a slot takes the claim and flushes the slot.
Flushes(rows, k) == rows[k].slot # NoSlot /\ \A i \in 1..(k - 1) : rows[i].slot # rows[k].slot

\* remember_balances, apply_balances: how often row i counts, with every flush
\* of a later line while it is new, and with the last one.
Hooks(rows, i) == Cardinality({k \in (i + 1)..Len(rows) : Flushes(rows, k)}) + 1
Counted(rows) == MapThenSumSet(LAMBDA i : rows[i].quantity * Hooks(rows, i), DOMAIN rows)

\* apply_changes: a placement of a row that has no number yet is refused.
Accepted(rows) == \A i \in DOMAIN rows : rows[i].slot # NoSlot => Hooks(rows, i) = 1

Dispatch(rows) ==
    /\ \A i \in DOMAIN rows : rows[i].slot \in claimed \union {NoSlot}
    /\ Len(line) + Len(rows) <= MaxLines
    /\ Accepted(rows)
    /\ line' = line \o [i \in DOMAIN rows |-> [rows[i] EXCEPT !.status = "pending"]]
    /\ balance' = [balance EXCEPT !.onHand = @ - Counted(rows), !.reserved = @ + Counted(rows)]
    /\ claimed' = claimed \ {rows[i].slot : i \in DOMAIN rows}

\* void_material_transfer: the row is counted back, once.
Void(i) ==
    /\ line[i].status = "pending"
    /\ line' = [line EXCEPT ![i].status = "voided"]
    /\ balance' = [balance EXCEPT !.onHand = @ + line[i].quantity, !.reserved = @ - line[i].quantity]
    /\ UNCHANGED claimed

Rows == [quantity : Amounts, slot : Slots \union {NoSlot}, status : {"new"}]

Init == /\ balance = [onHand |-> Received, reserved |-> 0]
        /\ line = <<>> /\ claimed = Slots
Next == \/ \E n \in 1..MaxLines : \E rows \in [1..n -> Rows] : Dispatch(rows)
        \/ \E i \in DOMAIN line : Void(i)
Spec == Init /\ [][Next]_vars

\* What the comment at the last flush promises: a submission takes each of its
\* lines off the balance of the lot once, so that the balance always is what the
\* documents say (create_dispatch, consume, remember_balances).
EachLineCountsOnce ==
    balance.reserved = Sum([i \in {j \in DOMAIN line : line[j].status = "pending"} |-> line[i]])
=============================================================================
