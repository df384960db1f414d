---------------------------- MODULE PackContract ----------------------------
(***************************************************************************)
(* What decoding a pack promises its caller, with no threads, waitlist or  *)
(* caches: objects are delivered one at a time, a delta only after its     *)
(* base, and the call returns a verdict that fits what was delivered.      *)
(***************************************************************************)
EXTENDS Naturals

CONSTANTS
  Packs       \* the pack layouts (records as in PackDecode)

VARIABLES
  pack,       \* the pack being decoded
  delivered,  \* the objects the callback has received
  outcome     \* "running", or what decode returned

cvars == <<pack, delivered, outcome>>

Entries == 1..pack.n
BasesOf(d) ==
  {b \in Entries : \/ pack.kind[d] = "ofs" /\ pack.base[d] = b
                   \/ pack.kind[d] = "ref" /\ pack.base[d] = pack.hash[b]}

\* The entry is complete, or its base has been delivered.
Ready(o) == pack.kind[o] = "base" \/ BasesOf(o) \intersect delivered # {}

\* Rebuilding the delta from its base fails.
Fails(o) == pack.kind[o] # "base" /\ o \in pack.corrupt

ContractInit ==
  /\ pack \in Packs
  /\ delivered = {}
  /\ outcome = "running"

Deliver(o) ==
  /\ outcome = "running"
  /\ o \in Entries \ delivered
  /\ Ready(o)
  /\ ~Fails(o)
  /\ delivered' = delivered \union {o}
  /\ UNCHANGED <<pack, outcome>>

\* Every object was delivered.
ReturnOk ==
  /\ delivered = Entries
  /\ outcome' = "ok"

\* A delta whose base was delivered does not apply to it.
ReturnRebuildFailed ==
  /\ \E d \in Entries : Ready(d) /\ Fails(d)
  /\ outcome' = "rebuild_failed"

\* Something is left, and nothing that is left can be delivered.
ReturnUnresolved ==
  /\ delivered # Entries
  /\ \A o \in Entries \ delivered : ~Ready(o)
  /\ outcome' = "unresolved"

\* The header or an entry cannot be read, or the trailer does not fit.
ReturnInvalid ==
  /\ ~pack.header \/ Entries \intersect pack.unreadable # {} \/ ~pack.trailer
  /\ outcome' = "invalid"

Return ==
  /\ outcome = "running"
  /\ ReturnOk \/ ReturnRebuildFailed \/ ReturnUnresolved \/ ReturnInvalid
  /\ UNCHANGED <<pack, delivered>>

ContractNext == (\E o \in Entries : Deliver(o)) \/ Return

ContractSpec == ContractInit /\ [][ContractNext]_cvars
=============================================================================
