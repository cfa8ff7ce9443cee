------------------------------- MODULE Ledger --------------------------------
(***************************************************************************)
(* What the proxy promises its client, with no thread, map or pipe in it:  *)
(* every request that expects an answer is answered once, with one of the  *)
(* treatments its kind allows, and sooner or later.                        *)
(***************************************************************************)
CONSTANTS
  Lines,       \* serial numbers of the client's lines
  Kinds,       \* kinds of line that expect an answer
  Allowed(_)   \* the treatments a kind allows

VARIABLES
  kind,        \* kind[l]: "none" until line l is read
  outcome      \* outcome[l]: the answers given to line l

Init ==
  /\ kind = [l \in Lines |-> "none"]
  /\ outcome = [l \in Lines |-> {}]

\* A line is read and refused on the spot, or left open.
Open(l) ==
  /\ kind[l] = "none"
  /\ \E k \in Kinds : kind' = [kind EXCEPT ![l] = k]
  /\ outcome' \in {outcome, [outcome EXCEPT ![l] = {"refused"}]}

Close(l) ==
  /\ kind[l] # "none" /\ outcome[l] = {}
  /\ \E t \in Allowed(kind[l]) : outcome' = [outcome EXCEPT ![l] = {t}]
  /\ UNCHANGED kind

Next == \E l \in Lines : Open(l) \/ Close(l)

\* No line is answered twice, or with another kind's treatment ...
Safe == Init /\ [][Next]_<<kind, outcome>>

\* ... and none is left without.
Spec == Safe /\ \A l \in Lines : WF_<<kind, outcome>>(Close(l))

=============================================================================
