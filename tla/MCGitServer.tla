----------------------------- MODULE MCGitServer -----------------------------
(***************************************************************************)
(* Instances of GitServer for TLC.                                          *)
(***************************************************************************)
EXTENDS GitServer

CONSTANTS r1, r2, w1, w2

MCFormat == ("p" :> "sha256" @@ "q" :> "sha256")

Ref(mode, id) == [mode |-> mode, id |-> id]
Obj(type, refs) == [type |-> type, refs |-> refs]

\* c1 <- c2; c2's tree has a sub-tree, a blob shared with c1 and a submodule.
\* t4 has an entry with a quoted name and mode 100664, t5 one with a mode nobody
\* knows, and c5 a signature that is serialised otherwise than it was written.
MCGraph ==
  [o \in {"c1", "c2", "c3", "c4", "c5", "t1", "t2", "t3", "t4", "t5", "b1", "b2", "tag", "away"} |->
     CASE o = "c1" -> Obj("commit", <<Ref("tree", "t1")>>)
       [] o = "c2" -> Obj("commit", <<Ref("tree", "t2"), Ref("parent", "c1")>>)
       [] o = "t1" -> Obj("tree", <<Ref("blob", "b1")>>)
       [] o = "t2" -> Obj("tree", <<Ref("tree", "t3"), Ref("exec", "b1"), Ref("commit", "away")>>)
       [] o = "t3" -> Obj("tree", <<Ref("blob", "b2")>>)
       [] o = "c3" -> Obj("commit", <<Ref("tree", "t4")>>)
       [] o = "t4" -> Obj("tree", <<Ref("blob", "b1")>>)
       [] o = "c4" -> Obj("commit", <<Ref("tree", "t5")>>)
       [] o = "t5" -> Obj("tree", <<Ref("blob", "b1")>>)
       [] o = "c5" -> Obj("commit", <<Ref("tree", "t1")>>)
       [] o = "tag" -> Obj("tag", <<Ref("tagged", "c1")>>)
       [] OTHER -> Obj("blob", << >>)]

MCReparsed == [o \in DOMAIN MCGraph |->
  CASE o = "t4" -> "t4mode" [] o = "t5" -> None [] o = "c5" -> "c5name" [] OTHER -> o]
MCListed == [MCReparsed EXCEPT !["t4"] = "t4quoted"]

First == {"c1", "t1", "b1"}
Second == {"c2", "t2", "t3", "b2"}

Odd == {"c3", "c4", "c5", "t4", "t5"}

MCDisk == ("p" :> [store |-> First, torn |-> {}, refs |-> ("main" :> "c1" @@ "dev" :> Zero)]
           @@ "q" :> [store |-> First \union Odd, torn |-> {}, refs |-> ("main" :> "c3" @@ "dev" :> "c5")])

Line(cmd, id) == [cmd |-> cmd, id |-> id]
Flush == Line("flush", None)
Cmd(name, old, new) == [name |-> name, old |-> old, new |-> new]

Blank ==
  [repo |-> "p", via |-> "http", service |-> "info", ids |-> "sha256", fmt |-> None,
   lines |-> << >>, has |-> {}, cmds |-> << >>, flush |-> TRUE, pack |-> << >>, whole |-> TRUE]

Fetch(lines, has) == [Blank EXCEPT !.service = "fetch", !.lines = lines, !.has = has]
Push(cmds, pack) == [Blank EXCEPT !.service = "push", !.cmds = cmds, !.pack = pack]

Clone == Fetch(<<Line("want", "c1"), Flush, Line("done", None)>>, {})
Update == Fetch(<<Line("want", "c2"), Line("have", "c1"), Line("done", None)>>, First)
Current == Fetch(<<Line("want", "c1"), Line("have", "c1"), Flush>>, First)
Ahead == Fetch(<<Line("want", "c1"), Line("have", "c1"), Line("have", "tag"), Flush>>, First)
Nothing == Fetch(<<Flush>>, {})

CloneOdd == [Fetch(<<Line("want", "c3"), Flush>>, {}) EXCEPT !.repo = "q"]
UpdateOdd == [Fetch(<<Line("want", "c5"), Line("have", "c3"), Flush>>, {"c3", "t4", "b1"}) EXCEPT !.repo = "q"]
CloneBroken == [Fetch(<<Line("want", "c4"), Flush>>, {}) EXCEPT !.repo = "q"]
WantTree == Fetch(<<Line("want", "t1"), Flush>>, {})

Advance == Push(<<Cmd("main", "c1", "c2")>>, <<"c2", "t2", "t3", "b2">>)
Branch == Push(<<Cmd("main", "c1", "c2"), Cmd("dev", Zero, "c2")>>, <<"c2", "t2", "t3", "b2">>)
TagPush == Push(<<Cmd("dev", Zero, "tag")>>, <<"tag">>)
PushOdd == Push(<<Cmd("main", "c1", "c3"), Cmd("dev", Zero, "c5")>>, <<"c3", "t4", "c5">>)
PushBroken == Push(<<Cmd("dev", Zero, "c4")>>, <<"c4", "t5">>)
Delete == Push(<<Cmd("main", "c1", Zero)>>, << >>)

Pair(a, b) == (r1 :> a @@ r2 :> b)

Unknown == [Blank EXCEPT !.repo = "none"]

MCScenarios ==
  {Pair(Clone, Unknown), Pair(Update, Advance), Pair(Branch, Advance), Pair(Current, Delete),
   Pair(Ahead, Unknown), Pair(Delete, Advance), Pair(Blank, [TagPush EXCEPT !.via = "ssh"]),
   Pair([Nothing EXCEPT !.via = "ssh"], [Advance EXCEPT !.via = "ssh"]),
   Pair([Clone EXCEPT !.ids = "sha1"], [Advance EXCEPT !.ids = "blake3"]),
   Pair([Clone EXCEPT !.fmt = "blake3"], [Advance EXCEPT !.flush = FALSE]),
   Pair([Advance EXCEPT !.whole = FALSE], WantTree), Pair(CloneBroken, Unknown),
   Pair(CloneOdd, Unknown), Pair(UpdateOdd, Unknown), Pair(PushOdd, PushBroken)}

\* The tree of c1 also holds a symbolic link.
LinkGraph == [MCGraph EXCEPT !["t1"].refs = <<Ref("blob", "b1"), Ref("link", "b2")>>]
LinkDisk == [MCDisk EXCEPT !["p"].store = First \union {"b2"}]
LinkScenarios == {Pair(Clone, Unknown)}
=============================================================================
