----------------------------- MODULE MCPackEncode -----------------------------
(***************************************************************************)
(* Instances of PackEncode for TLC.                                         *)
(***************************************************************************)
EXTENDS PackEncode

CONSTANTS s1, s2

Obj(n, t, r, c) == [name |-> n, kind |-> "sha1", type |-> t, rank |-> r, chain |-> c]
Foreign(n) == [Obj(n, "blob", 1, 0) EXCEPT !.kind = "sha256"]

WindowedCall(objs) == [kind |-> "sha1", number |-> Len(objs), window |-> 10, objs |-> objs]
PlainCall(objs) == [WindowedCall(objs) EXCEPT !.window = 0]

\* Four blobs, two of them of equal rank, split over two chunks; a commit, two
\* trees and a tag, one with a chain of its own; four trees in one window; and
\* the calls that end in an error or a panic.
MCCalls ==
  {WindowedCall(<<Obj(3, "blob", 1, 0), Obj(1, "blob", 2, 0),
                  Obj(4, "blob", 3, 0), Obj(2, "blob", 3, 0)>>),
   WindowedCall(<<Obj(3, "tag", 1, 0), Obj(5, "tree", 1, 1), Obj(1, "tree", 2, 0),
                  Obj(2, "commit", 1, 0)>>),
   WindowedCall(<<Obj(5, "tree", 1, 0), Obj(1, "tree", 2, 0), Obj(3, "tree", 3, 0),
                  Obj(4, "tree", 4, 0)>>),
   WindowedCall(<<Obj(1, "blob", 1, 0), Obj(2, "ai", 1, 0)>>),
   WindowedCall(<<Foreign(1)>>),
   WindowedCall(<< >>),
   PlainCall(<<Obj(5, "blob", 1, 0), Obj(1, "tree", 1, 0), Obj(3, "commit", 1, 1)>>),
   PlainCall(<<Obj(1, "blob", 1, 0), Obj(2, "ai", 1, 0)>>),
   PlainCall(<<Obj(1, "blob", 1, 0), Obj(2, "delta", 1, 0)>>),
   [PlainCall(<<Obj(1, "blob", 1, 0), Obj(2, "blob", 1, 0)>>) EXCEPT !.number = 3]}

\* One object each, for two sessions at once.
PairCalls == {PlainCall(<<Obj(n, "blob", 1, 0)>>): n \in 1 .. 2}
=============================================================================
