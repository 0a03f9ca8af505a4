---------------------------- MODULE WarmupPolicy ----------------------------
(***************************************************************************)
(* What speculative prefill promises, without its machinery: a warmup goes *)
(* forward through its stages at most once, only Slots of them prepare at  *)
(* a time, a preparation keeps its slot until it really ends, and nothing  *)
(* commits to sending once its owner is switched off.                      *)
(***************************************************************************)
EXTENDS Naturals, FiniteSets

CONSTANTS Warmups, Owners, OwnerOf, Slots

VARIABLES stage,    \* "idle", "watching", "preparing", "committed", "sent" or "over"
          busy,     \* warmups whose preparation occupies a slot
          off       \* owners that have been switched off

policyVars == <<stage, busy, off>>

PolicyInit ==
    /\ stage = [w \in Warmups |-> "idle"]
    /\ busy = {}
    /\ off = {}

Move(w, from, to) == stage[w] = from /\ stage' = [stage EXCEPT ![w] = to]

Watch(w) == Move(w, "idle", "watching") /\ UNCHANGED <<busy, off>>

Prepare(w) ==
    /\ Cardinality(busy) < Slots
    /\ Move(w, "watching", "preparing")
    /\ busy' = busy \cup {w}
    /\ UNCHANGED off

\* A preparation ends, whether or not anyone still wants its result.
Release(w) == w \in busy /\ busy' = busy \ {w} /\ UNCHANGED <<stage, off>>

Commit(w) ==
    /\ w \notin busy /\ OwnerOf[w] \notin off
    /\ Move(w, "preparing", "committed")
    /\ UNCHANGED <<busy, off>>

Send(w) == Move(w, "committed", "sent") /\ UNCHANGED <<busy, off>>

\* A warmup may be given up, or fail, or be done, at any stage.
End(w) ==
    /\ stage[w] \notin {"idle", "over"}
    /\ stage' = [stage EXCEPT ![w] = "over"]
    /\ UNCHANGED <<busy, off>>

SwitchOff(owners) == off' = off \cup owners /\ UNCHANGED <<stage, busy>>

PolicyNext ==
    \/ \E w \in Warmups :
         Watch(w) \/ Prepare(w) \/ Release(w) \/ Commit(w) \/ Send(w) \/ End(w)
    \/ \E owners \in SUBSET Owners : SwitchOff(owners)

PolicySpec == PolicyInit /\ [][PolicyNext]_policyVars

=============================================================================
