---------------------------- MODULE MCPackDecode ----------------------------
(* Packs and options for model checking PackDecode.                        *)
EXTENDS PackDecode

\* A pack from its entries <<kind, base>>; object o has the name o.
PackOf(entries) ==
  [n |-> Len(entries),
   kind |-> [o \in Objects |-> IF o <= Len(entries) THEN entries[o][1] ELSE "base"],
   base |-> [o \in Objects |-> IF o <= Len(entries) THEN entries[o][2] ELSE 0],
   hash |-> [o \in Objects |-> o],
   unreadable |-> {}, corrupt |-> {}, header |-> TRUE, trailer |-> TRUE]

Blob == <<"base", 0>>
Ofs(b) == <<"ofs", b>>
Ref(h) == <<"ref", h>>

\* Every pack of three entries: any mixture of bases, offset deltas and ref
\* deltas, on a base before or after them, missing, or the entry itself.
EntriesAt(o) ==
  {Blob} \union {Ofs(b) : b \in 1..o} \union {Ref(h) : h \in 0..3}
AllPacks ==
  {PackOf(<<a, b, c>>) : a \in EntriesAt(1), b \in EntriesAt(2), c \in EntriesAt(3)}

\* Damage at every level: header, entry, delta, trailer, an offset at which no
\* entry starts; and the empty pack.
DamagedPacks ==
  {[PackOf(<<Blob>>) EXCEPT !.header = FALSE],
   [PackOf(<<Blob, Ofs(1), Ofs(2)>>) EXCEPT !.unreadable = {3}],
   [PackOf(<<Blob, Ofs(1), Ofs(2)>>) EXCEPT !.corrupt = {2}],
   [PackOf(<<Ref(3), Ref(1), Blob>>) EXCEPT !.corrupt = {1}],
   [PackOf(<<Blob, Ref(1)>>) EXCEPT !.trailer = FALSE],
   PackOf(<<Blob, Ofs(0)>>),
   PackOf(<<>>)}
StreamPacks == AllPacks \union DamagedPacks

\* Packs in which an entry that is itself a delta, or that comes after a delta
\* that needs it, has at most one dependent; any number for other bases.
Needs(p, b) == Dependents(p, <<"ofs", b>>) \union Dependents(p, <<"ref", p.hash[b]>>)
Ordered(p) == \A b \in 1..p.n : \A d \in Needs(p, b) : b < d
SingleUse(p) ==
  \A b \in 1..p.n : p.kind[b] # "base" => Cardinality(Needs(p, b)) <= 1
OrderedPacks == {p \in StreamPacks : Ordered(p)}
TreePacks == {p \in StreamPacks : Ordered(p) /\ SingleUse(p)}

\* Packs of four entries with every base before its deltas.
EarlierAt(o) ==
  {Blob} \union {Ofs(b) : b \in 1..(o - 1)} \union {Ref(h) : h \in 1..(o - 1)}
FourPacks ==
  {PackOf(<<Blob, b, c, d>>) :
     b \in {Blob, Ofs(1)}, c \in {Blob, Ofs(1), Ref(2)}, d \in EarlierAt(4)}

\* Packs that keep at most one delta waiting for a base that comes late or never.
OneWaitingPacks ==
  {PackOf(<<Ref(3), Blob, Blob>>), PackOf(<<Blob, Ref(0), Ofs(1), Ref(1)>>)}
BoundedPacks == FourPacks \union OneWaitingPacks

\* A delta used as a base by two others.
RacePacks == {PackOf(<<Blob, Ofs(1), Ofs(2), Ofs(2)>>)}

\* One object stored at two offsets.
DuplicatePacks ==
  {[PackOf(<<Blob, Blob, Ofs(2),
   Ofs(1)>>) EXCEPT !.hash = [o \in Objects |-> IF o = 2 THEN 1 ELSE o]]}

\* A ref delta stored before its base; three of them.
ForwardPacks == {PackOf(<<Ref(2), Blob>>)}
ManyForwardPacks == {PackOf(<<Ref(4), Ref(4), Ref(4), Blob>>)}

-----------------------------------------------------------------------------
(* The calls of each run.                                                  *)

CONSTANTS w1, w2
Two == {w1, w2}
One == {w1}

\* A limit with room for the index of four entries but the last, for an object in
\* the LRU cache, and for nothing else: a cell less and the last entry is never
\* read.  An object weighs two cells, and has one under its offset and one under
\* its name.
Bounded(options) == WithLimit(options, 8, 2, 1)

\* Without a memory limit; with a small one; and with one so large that the
\* caches are unbounded and one worker runs.
DecodeCalls ==
  (StreamPacks \X {DecodeStream(Two, TRUE), DecodeFile(One, TRUE, FALSE)})
    \union (OrderedPacks \X {DecodeFile(One, FALSE, TRUE)})
    \union (TreePacks \X {DecodeFile(Two, TRUE, FALSE), VerifyFile(Two, TRUE)})
    \union (FourPacks \X {DecodeStream(One, FALSE)})
    \union (BoundedPacks \X {Bounded(DecodeStream(Two, TRUE)), Bounded(DecodeFile(One, TRUE, TRUE))})

RaceCalls == RacePacks \X {DecodeFile(Two, TRUE, FALSE)}
DuplicateCalls == DuplicatePacks \X {DecodeFile(One, TRUE, FALSE)}
SkipForwardCalls == ForwardPacks \X {VerifyFile(One, TRUE)}
BackpressureCalls == ManyForwardPacks \X {WithLimit(DecodeStream(One, TRUE), 4, 2, 1)}
=============================================================================
