-------------------------- MODULE SettingsRegister --------------------------
(***************************************************************************)
(* What a reader of the settings may rely on. While nothing overlaps a     *)
(* write there is one register and every page shows what it holds at that  *)
(* moment; otherwise a page shows settings that were saved at some time.   *)
(***************************************************************************)
CONSTANTS Values, Workers

VARIABLES
    value,   \* the settings
    stored,  \* every settings saved so far
    page,    \* page[w]: the settings last shown by worker w
    apart    \* nothing overlaps a write in this behaviour

RegisterInit ==
    /\ value \in Values
    /\ stored = {value}
    /\ page = [w \in Workers |-> [shown |-> value, turn |-> FALSE]]
    /\ apart \in BOOLEAN

Write(v) ==
    /\ value' = v
    /\ stored' = stored \cup {v}
    /\ UNCHANGED <<page, apart>>

Show(w, v) ==
    /\ v \in stored
    /\ apart => v = value
    /\ page' = [page EXCEPT ![w] = [shown |-> v, turn |-> ~@.turn]]
    /\ UNCHANGED <<value, stored, apart>>

RegisterNext ==
    \E v \in Values : Write(v) \/ \E w \in Workers : Show(w, v)

RegisterSpec ==
    RegisterInit /\ [][RegisterNext]_<<value, stored, page, apart>>
=============================================================================
