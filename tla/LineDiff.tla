------------------------------ MODULE LineDiff -------------------------------
(***************************************************************************)
(* Unified diffs of the files of two trees.  The Myers edit script comes    *)
(* from a library: here it is any script of equal, deleted and inserted     *)
(* lines, and the two texts are what it spells.  The hunks are cut out of it *)
(* on the fly, with a bounded context before and after.  A line is its words *)
(* and its ending, which a hunk does not print.                             *)
(***************************************************************************)
EXTENDS SequencesExt, Integers, FiniteSetsExt

CONSTANTS DiffCases,       \* [old, new, filter, file, text, crlf]: maps from paths to hashes, the file
                           \* diffed, whether it is text, the edits whose line ends in CR LF
          Under,           \* Under[p]: the filter entries p lies under
          Context,         \* lines of context
          MaxEdits,        \* longest script
          MaxDiffLines     \* MAX_DIFF_LINES

VARIABLES dcase,           \* the case, and where the diff of its file is
          script,          \* the edits so far
          hunk,            \* [cur, run, prefix, open]
          seen,            \* last old and new line printed
          printed,         \* hunks printed
          lineOps          \* compute_line_operations on the same script

diffVars == <<dcase, script, hunk, seen, printed, lineOps>>

\* A line: its number in the old and in the new text (0: not there), its words and ending.
Equal(o, n, t) == [op |-> "equal", old |-> o, new |-> n, text |-> t]
Delete(o, t) == [op |-> "delete", old |-> o, new |-> 0, text |-> t]
Insert(n, t) == [op |-> "insert", old |-> 0, new |-> n, text |-> t]

InOld(e) == e.op # "insert"
InNew(e) == e.op # "delete"
Texts(es) == [i \in DOMAIN es |-> es[i].text]
OldText == Texts(SelectSeq(script, InOld))
NewText == Texts(SelectSeq(script, InNew))
Words(texts) == [i \in DOMAIN texts |-> texts[i].words]

\* The ending is trimmed from the line and a newline printed after it.
PrintedLine(e) == [e EXCEPT !.text.end = "lf"]

\* Only the last line of a text may end without a newline.
Ended(text) == text # << >> /\ text[Len(text)].end = "none"
LineHere(end) == [words |-> Len(script) + 1, end |-> end]
Endings == {IF Len(script) + 1 \in dcase.c.crlf THEN "crlf" ELSE "lf", "none"}

HashOf(map, file) == IF file \in DOMAIN map THEN {map[file]} ELSE {}

\* The files of either side that lie under the filter and differ.
ShouldProcess(c, file) ==
  /\ c.filter = {} \/ c.filter \intersect Under[file] # {}
  /\ HashOf(c.old, file) # HashOf(c.new, file)
Processed(c) == {f \in DOMAIN c.old \union DOMAIN c.new : ShouldProcess(c, f)}

NoHunk == [cur |-> << >>, run |-> << >>, prefix |-> << >>, open |-> FALSE]

LinesStart ==
  /\ script = << >> /\ hunk = NoHunk /\ seen = [old |-> 0, new |-> 0] /\ printed = << >> /\ lineOps = << >>
DiffInit == dcase \in {[c |-> c, at |-> "read"] : c \in DiffCases} /\ LinesStart

\* One file of those to process; its contents are read once for each side.
TakeFile ==
  /\ dcase.at = "read"
  /\ dcase' = [dcase EXCEPT !.at = IF dcase.c.file \in Processed(dcase.c) THEN "diff" ELSE "skipped"]
  /\ UNCHANGED <<script, hunk, seen, printed, lineOps>>

\* What the two sides can spell: a side without the file is empty.
MayHave(side) == dcase.c.file \in DOMAIN (IF side = "old" THEN dcase.c.old ELSE dcase.c.new)

Flushed(h) ==
  LET keep == SubSeq(h.run, Len(h.run) - Min({Context, Len(h.run)}) + 1, Len(h.run))
  IN [cur |-> << >>, run |-> << >>, prefix |-> keep, open |-> FALSE]

\* The header: first line and count of each side; a side without lines starts
\* after the last line printed.
Printed(h) ==
  LET body == h.cur \o SubSeq(h.run, 1, Min({Context, Len(h.run)}))
      olds == SelectSeq(body, InOld)
      news == SelectSeq(body, InNew)
  IN [old |-> IF olds = << >> THEN seen.old + 1 ELSE olds[1].old, oldCount |-> Len(olds),
      new |-> IF news = << >> THEN seen.new + 1 ELSE news[1].new, newCount |-> Len(news), body |-> body]

Flush(h) ==
  LET p == Printed(h)
      last(f) == Max({seen[f]} \union {p.body[i][f] : i \in DOMAIN p.body})
  IN /\ printed' = Append(printed, p)
     /\ seen' = [old |-> last("old"), new |-> last("new")]
     /\ hunk' = Flushed(h)

NextEdit(e) ==
  /\ dcase.at = "diff" /\ Len(script) < MaxEdits
  /\ InOld(e) => MayHave("old") /\ ~Ended(OldText)
  /\ InNew(e) => MayHave("new") /\ ~Ended(NewText)
  /\ script' = Append(script, e)
  /\ lineOps' = Append(lineOps, CASE e.op = "equal" -> <<"equal", e.old, e.new>>
                                  [] e.op = "delete" -> <<"delete", e.old>>
                                  [] e.op = "insert" -> <<"insert", e.new, e.text>>)
  /\ UNCHANGED dcase

\* An equal line: context kept for the next hunk, or the run behind this one,
\* which is closed when the run is longer than both contexts.
EqualLine(end) ==
  LET e == Equal(Len(OldText) + 1, Len(NewText) + 1, LineHere(end))
      run == Append(hunk.run, PrintedLine(e))
  IN /\ NextEdit(e)
     /\ IF hunk.open
        THEN IF Len(run) > 2 * Context THEN Flush([hunk EXCEPT !.run = run])
             ELSE hunk' = [hunk EXCEPT !.run = run] /\ UNCHANGED <<seen, printed>>
        ELSE /\ hunk' = [hunk EXCEPT !.prefix = LET p == IF Len(@) = Context /\ Context > 0 THEN Tail(@) ELSE @
                                                IN Append(p, PrintedLine(e))]
             /\ UNCHANGED <<seen, printed>>

\* Fault: the equal lines since the last change are left out of the hunk.
Changed_DropRun(h, e) ==
  [h EXCEPT !.cur = (IF h.open THEN @ ELSE h.prefix) \o <<e>>, !.prefix = IF h.open THEN @ ELSE << >>,
            !.run = << >>, !.open = TRUE]

\* A changed line opens a hunk with the context before it, or takes in the run.
Changed(h, e) ==
  [h EXCEPT !.cur = (IF h.open THEN @ ELSE @ \o h.prefix) \o h.run \o <<e>>,
            !.prefix = IF h.open THEN @ ELSE << >>, !.run = << >>, !.open = TRUE]

DeleteLine(end) ==
  LET e == Delete(Len(OldText) + 1, LineHere(end))
  IN NextEdit(e) /\ hunk' = Changed(hunk, PrintedLine(e)) /\ UNCHANGED <<seen, printed>>

InsertLine(end) ==
  LET e == Insert(Len(NewText) + 1, LineHere(end))
  IN NextEdit(e) /\ hunk' = Changed(hunk, PrintedLine(e)) /\ UNCHANGED <<seen, printed>>

\* The end of the script: a text diff, a marker for too many lines, or only a
\* notice when either side is not UTF-8.
EndDiff ==
  /\ dcase.at = "diff"
  /\ IF ~dcase.c.text \/ Len(OldText) + Len(NewText) > MaxDiffLines
     THEN /\ dcase' = [dcase EXCEPT !.at = IF Len(OldText) + Len(NewText) > MaxDiffLines THEN "large" ELSE "binary"]
          /\ printed' = << >> /\ UNCHANGED <<seen, hunk>>
     ELSE /\ dcase' = [dcase EXCEPT !.at = "done"]
          /\ IF hunk.open THEN Flush(hunk) ELSE UNCHANGED <<seen, printed, hunk>>
  /\ UNCHANGED <<script, lineOps>>

DiffNext == \/ TakeFile \/ EndDiff
            \/ \E end \in Endings : EqualLine(end) \/ DeleteLine(end) \/ InsertLine(end)

-----------------------------------------------------------------------------

\* What a reader makes of the hunks: the old lines outside them and where a
\* hunk shows context, and the lines they insert.
Applied ==
  LET upto == [i \in 0 .. Len(printed) |-> IF i = 0 THEN 1 ELSE printed[i].old + printed[i].oldCount]
      made(e) == IF e.op = "equal" THEN OldText[e.old] ELSE e.text
      part(i) == LET new == SelectSeq(printed[i].body, InNew)
                 IN  SubSeq(OldText, upto[i - 1], printed[i].old - 1) \o [j \in DOMAIN new |-> made(new[j])]
  IN FlattenSeq([i \in DOMAIN printed |-> part(i)]) \o SubSeq(OldText, upto[Len(printed)], Len(OldText))

\* The new text, but for the endings of the lines that are new in it.
NewTextPrinted ==
  LET new == SelectSeq(script, InNew)
  IN  [i \in DOMAIN new |-> IF new[i].op = "insert" THEN PrintedLine(new[i]).text ELSE new[i].text]

\* The line operations, run on the old text.
Replayed ==
  FoldLeft(LAMBDA acc, op : CASE op[1] = "equal" -> Append(acc, OldText[op[2]])
                              [] op[1] = "insert" -> Append(acc, op[3])
                              [] op[1] = "delete" -> acc,
           << >>, lineOps)

\* A finished diff is a patch up to line endings: its hunks stand in order and
\* apart, each shows the words of exactly the old lines it removes and starts at
\* the new line it says, and applying them to the old text gives the new one,
\* whatever the runs of equal lines between changes, except that an inserted
\* line always ends in a newline: a CR LF, or a missing newline at the end of
\* the file, is lost.  The line operations map the texts exactly.
DiffApplies ==
  dcase.at = "done" =>
    /\ Applied = NewTextPrinted
    /\ Replayed = NewText
    /\ \A i \in DOMAIN printed :
         LET p == printed[i]
             shown(In(_)) == Words(Texts(SelectSeq(p.body, In)))
         IN
         /\ shown(InOld) = Words(SubSeq(OldText, p.old, p.old + p.oldCount - 1))
         /\ shown(InNew) = Words(SubSeq(NewText, p.new, p.new + p.newCount - 1))
         /\ i > 1 => printed[i - 1].old + printed[i - 1].oldCount < p.old
=============================================================================
