------------------------------ MODULE SlotLease ------------------------------
(***************************************************************************)
(* What the people who share the storage slots are promised. A form that   *)
(* is open on a slot has it alone, for so long at most, counted from its   *)
(* first claim and not from its last sign of life. Only the document of    *)
(* that form, or a manager while no form has the slot, puts material in;   *)
(* material may leave at any time; the slot's name and use change only     *)
(* while no form has it, and a slot with material stays in use.            *)
(***************************************************************************)
EXTENDS Naturals

CONSTANTS Slots,
          NoForm,       \* no form
          Longest       \* the longest a form may keep a slot

VARIABLE shared         \* what is known of every slot, a record of
                        \*   claim     the form that claimed it last
                        \*   live      whether its claim still counts
                        \*   age       the time since its first claim
                        \*   contents  the batches in the slot
                        \*   label     its name, and whether it is in use

Init == \A s \in Slots : shared[s].claim = NoForm /\ ~shared[s].live /\ shared[s].age = 0

\* What may become of a slot a: it is b afterwards. Each says what stays.
Keeps(a, b, fields) == \A i \in fields : a[i] = b[i]

Claim(a, b) ==
    /\ ~a.live /\ b.live /\ b.claim # NoForm /\ a.label.active
    /\ b.age = (IF b.claim = a.claim THEN a.age ELSE 0) /\ b.age < Longest
    /\ Keeps(a, b, {"contents", "label"})
Wait(a, b) ==
    /\ a.claim # NoForm /\ a.age < Longest /\ b.age = a.age + 1
    /\ b.live => a.live /\ b.age < Longest
    /\ Keeps(a, b, {"claim", "contents", "label"})
Free(b) == b.claim = NoForm /\ ~b.live /\ b.age = 0
GiveUp(a, b) == a.claim # NoForm /\ Free(b) /\ Keeps(a, b, {"contents", "label"})
Submit(a, b) == a.live /\ Free(b) /\ a.contents \subseteq b.contents /\ Keeps(a, b, {"label"})
Arrange(a, b) == /\ ~a.live /\ a.label.active /\ a.contents \subseteq b.contents
                 /\ Keeps(a, b, {"claim", "live", "age", "label"})
Leave(a, b) == b.contents \subseteq a.contents /\ Keeps(a, b, {"claim", "live", "age", "label"})
Edit(a, b) == /\ ~a.live /\ (b.label.active \/ a.contents = {})
              /\ Keeps(a, b, {"claim", "live", "age", "contents"})

Step(a, b) == \/ Claim(a, b) \/ Wait(a, b) \/ GiveUp(a, b) \/ Submit(a, b)
              \/ Arrange(a, b) \/ Leave(a, b) \/ Edit(a, b)

Next == \A s \in Slots : Step(shared[s], shared'[s])

Spec == Init /\ [][Next]_shared
=============================================================================
