---------------------------- MODULE ResourceStore ----------------------------
(***************************************************************************)
(* What a resource container promises its user, without files: a list of   *)
(* slots that an in-place session extends or punches holes into one slot   *)
(* at a time, and that a creating session replaces as a whole, or not at   *)
(* all.  A crash, a failed call and a failed close are stuttering steps    *)
(* on `store'.  Pres implements this module.                               *)
(***************************************************************************)
EXTENDS Integers, Sequences

CONSTANTS Names, Lens     \* as in Pres: names a resource may get, its sizes

VARIABLES store,          \* the container under its own name
          draft           \* the container a creating session is building

vars == <<store, draft>>

\* The data of a resource is the sequence of its units.
Content(r, n) == [j \in 1..n |-> <<r, j>>]
Slot(r, n)    == [name |-> r, data |-> Content(r, n)]
Hole          == [name |-> "deleted", data |-> <<>>]

\* No container, and a container with the slots s.
Nothing    == [live |-> FALSE, slots |-> <<>>]
Holding(s) == [live |-> TRUE, slots |-> s]

Added(c, r, n)  == Holding(Append(c.slots, Slot(r, n)))
Punched(c, i)   == Holding([c.slots EXCEPT ![i] = Hole])

Init == store = Nothing /\ draft = Nothing

\* One successful call of a session, on the container c it works on.
Grown(c, d) ==
  /\ c.live
  /\ \/ \E r \in Names, n \in Lens : d = Added(c, r, n)
     \/ \E i \in DOMAIN c.slots : d = Punched(c, i)

Edit    == Grown(store, store') /\ ~draft.live /\ UNCHANGED draft
Begin   == ~draft.live /\ draft' = Holding(<<>>) /\ UNCHANGED store
Compose == Grown(draft, draft') /\ UNCHANGED store
Publish == draft.live /\ store' = draft /\ draft' = Nothing
Discard == draft.live /\ draft' = Nothing /\ UNCHANGED store

Next == Edit \/ Begin \/ Compose \/ Publish \/ Discard

Spec == Init /\ [][Next]_vars
=============================================================================
