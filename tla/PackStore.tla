------------------------------ MODULE PackStore ------------------------------
(***************************************************************************)
(* What writing packs promises a reader of the directory: a pack appears    *)
(* under its name all at once and holds exactly the objects of one request, *)
(* an index appears after its pack and lists exactly its objects, and a     *)
(* call answers Ok only for a pack that has both.  Nothing disappears.      *)
(***************************************************************************)
VARIABLES requests,  \* the sets of objects that calls ask to store
          packs,     \* name of a pack file -> the objects it holds
          index,     \* name of a readable index -> the objects it lists
          answered   \* names of the packs for which a call returned Ok

Init == packs = << >> /\ index = << >> /\ answered = {}

Extends(new, old) ==
  /\ DOMAIN old \subseteq DOMAIN new
  /\ \A h \in DOMAIN old: new[h] = old[h]

\* A pack file appears.
Publish ==
  /\ Extends(packs', packs)
  /\ \E h \in DOMAIN packs' \ DOMAIN packs:
       DOMAIN packs' = DOMAIN packs \union {h} /\ packs'[h] \in requests
  /\ UNCHANGED <<requests, index, answered>>

\* The index of a pack becomes readable.
Index ==
  /\ Extends(index', index)
  /\ \E h \in DOMAIN packs \ DOMAIN index:
       DOMAIN index' = DOMAIN index \union {h} /\ index'[h] = packs[h]
  /\ UNCHANGED <<requests, packs, answered>>

\* A call returns Ok.
Answer ==
  /\ \E h \in DOMAIN index: answered' = answered \union {h}
  /\ UNCHANGED <<requests, packs, index>>

Spec == Init /\ [][Publish \/ Index \/ Answer]_<<requests, packs, index, answered>>
=============================================================================
