--------------------------- MODULE IndexFileProofs ---------------------------
(***************************************************************************)
(* LoadsWhole of IndexFile for any number of programs, names and calls:     *)
(* whatever programs write over each other and wherever they are killed.    *)
(***************************************************************************)
EXTENDS IndexFile, FiniteSetTheorems, SequenceTheorems, TLAPS

IndexSpec == IndexInit /\ [][IndexNext]_indexVars

SessionFields == {"at", "pc", "mem", "base", "fresh", "recs", "todo", "total", "st"}
EntryFields == {"name", "hash", "size", "ctime", "mtime", "flags"}
FlagFields == {"valid", "extended", "stage", "len", "skip", "intent"}

IsSeq(q) == q \in Seq(Range(q))

EntryOK(e) ==
  /\ DOMAIN e = EntryFields /\ DOMAIN e.flags = FlagFields
  /\ e.flags.skip \in BOOLEAN /\ e.flags.intent \in BOOLEAN

\* Entries are kept under their own keys.
EntriesOK(es) ==
  /\ es = [k \in DOMAIN es |-> es[k]]
  /\ IsFiniteSet(DOMAIN es)
  /\ \A k \in DOMAIN es : EntryOK(es[k]) /\ KeyOf(es[k]) = k

Core(r, sv) ==
  /\ DOMAIN r = SessionFields
  /\ r.at \in Nat \ {0}
  /\ EntriesOK(r.mem)
  /\ r.base \in sv

\* A program that loads has in memory what the records it read decode to.
Reading(recs, mem) ==
  /\ \A i \in DOMAIN recs :
       recs[i].t = "entry" => KeyOf(DecodedEntry(recs[i])) \in DOMAIN mem
  /\ \A k \in DOMAIN mem : \E i \in DOMAIN recs :
       /\ recs[i].t = "entry" /\ mem[k] = DecodedEntry(recs[i])
       /\ KeyOf(DecodedEntry(recs[i])) = k

\* A program that saves has written, or has still to write, each of its entries.
Saving(recs, todo, mem) ==
  /\ IsSeq(todo)
  /\ \A i \in DOMAIN todo : \E k \in DOMAIN mem : todo[i] = mem[k]
  /\ \A i \in DOMAIN recs :
       recs[i].t = "entry" => \E k \in DOMAIN mem : recs[i] = EntryRecord(mem[k])
  /\ \A k \in DOMAIN mem :
       \/ \E i \in DOMAIN todo : todo[i] = mem[k]
       \/ \E i \in DOMAIN recs : recs[i] = EntryRecord(mem[k])

SessionOK(r, sv) ==
  /\ Core(r, sv)
  /\ IsSeq(r.recs)
  /\ r.pc \in {"idle", "head"} => r.recs = << >>
  /\ r.pc = "body" => Reading(r.recs, r.mem)
  /\ r.pc = "save" => Saving(r.recs, r.todo, r.mem) /\ ReadBack(r.mem) \in sv

SessionsOK ==
  /\ DOMAIN ses = Sessions
  /\ \A s \in Sessions :
       /\ SessionOK(ses[s], saved)
       /\ ses[s].pc \in {"refresh", "apply"} => Target(s) \in DOMAIN ses[s].mem

\* A checksum that is in the file covers the records of one whole save.
SumsOK ==
  /\ IsSeq(file)
  /\ \A i \in DOMAIN file : file[i].t = "sum" => \E es \in saved : Holds(file[i].of, es)

LoadInv == plan \in IndexScenarios /\ NoEntries \in saved /\ SessionsOK /\ SumsOK

-----------------------------------------------------------------------------
(* Sequences                                                                *)

\* A sequence is one whatever set its elements are taken from.
LEMMA SeqIsSeq == ASSUME NEW S, NEW q \in Seq(S) PROVE IsSeq(q)
<1>1. q \in [1..Len(q) -> Range(q)]
  BY DEF Range
<1>2. Len(q) \in Nat
  OBVIOUS
<1> QED BY <1>1, <1>2 DEF IsSeq

\* A function on 1..n is a sequence.
LEMMA FcnIsSeq ==
  ASSUME NEW n \in Nat, NEW q, q = [i \in 1..n |-> q[i]] PROVE IsSeq(q) /\ DOMAIN q = 1..n
<1>1. q \in [1..n -> Range(q)]
  BY DEF Range
<1>2. q \in Seq(Range(q))
  BY <1>1
<1> QED BY <1>1, <1>2 DEF IsSeq

\* Nothing, and one element, are sequences.
LEMMA ShortIsSeq == IsSeq(<< >>) /\ \A x : IsSeq(<<x>>)
<1>1. << >> \in Seq({}) /\ \A x : <<x>> \in Seq({x})
  OBVIOUS
<1> QED BY <1>1, SeqIsSeq

\* What a sequence is with one more element.
LEMMA AppendIs ==
  ASSUME NEW q, IsSeq(q), NEW x
  PROVE  /\ IsSeq(Append(q, x))
         /\ \A i \in DOMAIN q : i \in DOMAIN Append(q, x) /\ Append(q, x)[i] = q[i]
         /\ \E i \in DOMAIN Append(q, x) : Append(q, x)[i] = x
         /\ \A i \in DOMAIN Append(q, x) : Append(q, x)[i] = x \/ (i \in DOMAIN q /\ Append(q, x)[i] = q[i])
<1> DEFINE S == Range(q) \union {x}
<1>1. q \in Seq(S) /\ x \in S
  BY SeqMonotonic DEF IsSeq
<1>2. /\ Append(q, x) \in Seq(S)
      /\ Len(Append(q, x)) = Len(q) + 1
      /\ \A i \in 1..Len(q) : Append(q, x)[i] = q[i]
      /\ Append(q, x)[Len(q) + 1] = x
  BY <1>1, AppendProperties
<1>3. Len(q) \in Nat /\ DOMAIN q = 1..Len(q) /\ DOMAIN Append(q, x) = 1..(Len(q) + 1)
  BY <1>1, <1>2, LenProperties
<1>4. IsSeq(Append(q, x))
  BY <1>2, SeqIsSeq
<1> QED BY <1>2, <1>3, <1>4

\* What a sequence is without its first element.
LEMMA TailIs ==
  ASSUME NEW q, IsSeq(q), q # << >>
  PROVE  /\ IsSeq(Tail(q))
         /\ \E i \in DOMAIN q : q[i] = Head(q)
         /\ \A i \in DOMAIN Tail(q) : \E j \in DOMAIN q : Tail(q)[i] = q[j]
         /\ \A j \in DOMAIN q : q[j] = Head(q) \/ \E i \in DOMAIN Tail(q) : Tail(q)[i] = q[j]
<1> DEFINE S == Range(q)
<1>1. q \in Seq(S) /\ Len(q) \in Nat /\ DOMAIN q = 1..Len(q) /\ Len(q) # 0
  BY LenProperties, EmptySeq DEF IsSeq
<1>2. /\ Tail(q) \in Seq(S) /\ Len(Tail(q)) = Len(q) - 1
      /\ \A i \in 1..Len(Tail(q)) : Tail(q)[i] = q[i + 1]
      /\ Head(q) = q[1]
  BY <1>1, HeadTailProperties
<1>3. DOMAIN Tail(q) = 1..(Len(q) - 1)
  BY <1>2, LenProperties
<1>4. IsSeq(Tail(q))
  BY <1>2, SeqIsSeq
<1>5. 1 \in DOMAIN q
  BY <1>1
<1>6. ASSUME NEW i \in DOMAIN Tail(q) PROVE i + 1 \in DOMAIN q /\ Tail(q)[i] = q[i + 1]
  BY <1>1, <1>2, <1>3
<1>7. ASSUME NEW j \in DOMAIN q, q[j] # Head(q)
      PROVE  j - 1 \in DOMAIN Tail(q) /\ Tail(q)[j - 1] = q[j]
  <2>1. j # 1
    BY <1>2, <1>7
  <2>2. j - 1 \in 1..(Len(q) - 1) /\ (j - 1) + 1 = j
    BY <1>1, <2>1
  <2> QED BY <2>2, <1>2, <1>3
<1> QED BY <1>2, <1>4, <1>5, <1>6, <1>7

\* A write at a position of the file changes that position only.
LEMMA PutIs ==
  ASSUME NEW f, IsSeq(f), NEW n \in Nat \ {0}, NEW r
  PROVE  /\ IsSeq(Put(f, n, r))
         /\ \A i \in DOMAIN Put(f, n, r) :
              Put(f, n, r)[i] \in {r, Hole} \/ (i \in DOMAIN f /\ Put(f, n, r)[i] = f[i])
<1> DEFINE m == IF n > Len(f) THEN n ELSE Len(f)
<1>1. Len(f) \in Nat /\ DOMAIN f = 1..Len(f)
  BY LenProperties DEF IsSeq
<1>2. m \in Nat
  BY <1>1
<1>3. Put(f, n, r) = [j \in 1..m |-> IF j = n THEN r ELSE IF j <= Len(f) THEN f[j] ELSE Hole]
  BY DEF Put
<1> HIDE DEF m
<1>4. Put(f, n, r) = [j \in 1..m |-> Put(f, n, r)[j]]
  BY <1>3
<1>5. IsSeq(Put(f, n, r)) /\ DOMAIN Put(f, n, r) = 1..m
  BY <1>2, <1>4, FcnIsSeq
<1>6. ASSUME NEW i \in 1..m
      PROVE Put(f, n, r)[i] \in {r, Hole} \/ (i \in DOMAIN f /\ Put(f, n, r)[i] = f[i])
  <2>1. Put(f, n, r)[i] = IF i = n THEN r ELSE IF i <= Len(f) THEN f[i] ELSE Hole
    BY <1>3
  <2>2. i <= Len(f) => i \in DOMAIN f
    BY <1>1, <1>2
  <2> QED BY <2>1, <2>2
<1> QED BY <1>5, <1>6

-----------------------------------------------------------------------------
(* Entries                                                                  *)

\* An index starts with no entries.
LEMMA NoEntriesOK == EntriesOK(NoEntries) /\ DOMAIN NoEntries = {}
  BY FS_EmptySet DEF EntriesOK, NoEntries

\* Index::add and Index::update keep entries under their own keys.
LEMMA WithOK ==
  ASSUME NEW es, EntriesOK(es), NEW e, EntryOK(e)
  PROVE  /\ EntriesOK(With(es, e))
         /\ DOMAIN With(es, e) = DOMAIN es \union {KeyOf(e)}
         /\ With(es, e)[KeyOf(e)] = e
         /\ \A k \in DOMAIN es : k # KeyOf(e) => With(es, e)[k] = es[k]
<1>1. IsFiniteSet(DOMAIN es \union {KeyOf(e)})
  BY FS_AddElement DEF EntriesOK
<1>2. /\ DOMAIN With(es, e) = DOMAIN es \union {KeyOf(e)}
      /\ With(es, e)[KeyOf(e)] = e
      /\ \A k \in DOMAIN es : k # KeyOf(e) => With(es, e)[k] = es[k]
      /\ With(es, e) = [k \in DOMAIN With(es, e) |-> With(es, e)[k]]
  BY DEF With
<1> QED BY <1>1, <1>2 DEF EntriesOK

\* So does Index::remove.
LEMMA WithoutOK ==
  ASSUME NEW es, EntriesOK(es), NEW ks
  PROVE  /\ EntriesOK(Without(es, ks))
         /\ DOMAIN Without(es, ks) = DOMAIN es \ ks
         /\ \A k \in DOMAIN es \ ks : Without(es, ks)[k] = es[k]
<1>1. IsFiniteSet(DOMAIN es \ ks)
  BY FS_Subset DEF EntriesOK
<1>2. /\ DOMAIN Without(es, ks) = DOMAIN es \ ks
      /\ \A k \in DOMAIN es \ ks : Without(es, ks)[k] = es[k]
      /\ Without(es, ks) = [k \in DOMAIN Without(es, ks) |-> Without(es, ks)[k]]
  BY DEF Without
<1> QED BY <1>1, <1>2 DEF EntriesOK

\* Whatever is read from a file is an entry.
LEMMA DecodedOK == ASSUME NEW r PROVE EntryOK(DecodedEntry(r))
<1>1. DOMAIN DecodedEntry(r) = EntryFields /\ DOMAIN DecodedEntry(r).flags = FlagFields
  BY DEF DecodedEntry, EntryFields, FlagFields
<1>2. DecodedEntry(r).flags.skip \in BOOLEAN /\ DecodedEntry(r).flags.intent \in BOOLEAN
  BY DEF DecodedEntry
<1> QED BY <1>1, <1>2 DEF EntryOK

\* What IndexEntry::new and new_from_blob make is an entry.
LEMMA MadeOK ==
  ASSUME NEW n, NEW h, NEW x
  PROVE  EntryOK(FromStat(n, h, x)) /\ EntryOK(FromBlob(n, h, x))
<1>1. DOMAIN Flags(n) = FlagFields /\ Flags(n).skip = FALSE /\ Flags(n).intent = FALSE
  BY DEF Flags, FlagFields
<1>2. DOMAIN FromStat(n, h, x) = EntryFields /\ FromStat(n, h, x).flags = Flags(n)
  BY DEF FromStat, EntryFields
<1>3. DOMAIN FromBlob(n, h, x) = EntryFields /\ FromBlob(n, h, x).flags = Flags(n)
  BY DEF FromBlob, EntryFields
<1> QED BY <1>1, <1>2, <1>3 DEF EntryOK

\* An entry that is written is read back with its flags in their canonical form.
LEMMA RoundTrip ==
  ASSUME NEW e, EntryOK(e)
  PROVE  /\ EntryRecord(e).t = "entry"
         /\ DecodedEntry(EntryRecord(e)) = [e EXCEPT !.flags.extended = HasWord(e.flags)]
         /\ KeyOf(DecodedEntry(EntryRecord(e))) = KeyOf(e)
<1> DEFINE d == DecodedEntry(EntryRecord(e))
           x == [e EXCEPT !.flags.extended = HasWord(e.flags)]
<1>1. /\ DOMAIN d = EntryFields /\ DOMAIN x = EntryFields
      /\ DOMAIN d.flags = FlagFields /\ DOMAIN x.flags = FlagFields
  BY DEF DecodedEntry, EntryRecord, EntryOK, EntryFields, FlagFields
<1>2. /\ d.name = x.name /\ d.hash = x.hash /\ d.size = x.size
      /\ d.ctime = x.ctime /\ d.mtime = x.mtime
  BY DEF DecodedEntry, EntryRecord, EntryOK, EntryFields
<1>3. /\ d.flags.valid = x.flags.valid /\ d.flags.stage = x.flags.stage
      /\ d.flags.len = x.flags.len /\ d.flags.extended = x.flags.extended
  BY DEF DecodedEntry, EntryRecord, EntryOK, EntryFields, FlagFields
<1>4. d.flags.skip = x.flags.skip /\ d.flags.intent = x.flags.intent
  <2>1. x.flags.skip = e.flags.skip /\ x.flags.intent = e.flags.intent
    BY DEF EntryOK, EntryFields, FlagFields
  <2>2. CASE HasWord(e.flags)
    BY <2>1, <2>2 DEF DecodedEntry, EntryRecord, EntryOK
  <2>3. CASE ~HasWord(e.flags)
    <3>1. e.flags.skip = FALSE /\ e.flags.intent = FALSE
      BY <2>3 DEF HasWord, EntryOK
    <3>2. EntryRecord(e).word = << >>
      BY <2>3 DEF EntryRecord
    <3>3. d.flags.skip = FALSE /\ d.flags.intent = FALSE
      BY <3>2 DEF DecodedEntry
    <3> QED BY <2>1, <3>1, <3>3
  <2> QED BY <2>2, <2>3
<1>5. d.flags = x.flags
  <2>1. \A f \in FlagFields : d.flags[f] = x.flags[f]
    BY <1>3, <1>4 DEF FlagFields
  <2>2. d.flags = [f \in FlagFields |-> d.flags[f]]
    BY <1>1 DEF DecodedEntry, FlagFields
  <2>3. x.flags = [f \in FlagFields |-> x.flags[f]]
    BY DEF EntryOK, EntryFields, FlagFields
  <2> QED BY <2>1, <2>2, <2>3
<1>6. d = x
  <2>1. \A f \in EntryFields : d[f] = x[f]
    BY <1>2, <1>5 DEF EntryFields
  <2>2. d = [f \in EntryFields |-> d[f]]
    BY <1>1 DEF DecodedEntry, EntryFields
  <2>3. x = [f \in EntryFields |-> x[f]]
    BY DEF EntryOK, EntryFields
  <2> QED BY <2>1, <2>2, <2>3
<1>7. x.name = e.name /\ x.flags.stage = e.flags.stage
  BY DEF EntryOK, EntryFields, FlagFields
<1>8. EntryRecord(e).t = "entry"
  BY DEF EntryRecord
<1> QED BY <1>6, <1>7, <1>8 DEF KeyOf

\* Records that are each an entry of es, and leave out none, decode to what a
\* later load is to return.
LEMMA SavedHolds ==
  ASSUME NEW es, EntriesOK(es), NEW recs,
         \A i \in DOMAIN recs :
           recs[i].t = "entry" => \E k \in DOMAIN es : recs[i] = EntryRecord(es[k]),
         \A k \in DOMAIN es : \E i \in DOMAIN recs : recs[i] = EntryRecord(es[k])
  PROVE  Holds(recs, ReadBack(es))
<1> DEFINE b == ReadBack(es)
           D == {i \in DOMAIN recs : recs[i].t = "entry"}
<1>1. b = [k \in DOMAIN b |-> b[k]] /\ DOMAIN b = DOMAIN es
  BY DEF ReadBack
<1>2. ASSUME NEW k \in DOMAIN es
      PROVE  /\ EntryRecord(es[k]).t = "entry"
             /\ DecodedEntry(EntryRecord(es[k])) = b[k]
             /\ KeyOf(DecodedEntry(EntryRecord(es[k]))) = k
  <2>1. EntryOK(es[k]) /\ KeyOf(es[k]) = k
    BY DEF EntriesOK
  <2>2. b[k] = [es[k] EXCEPT !.flags.extended = HasWord(es[k].flags)]
    BY DEF ReadBack
  <2> QED BY <2>1, <2>2, RoundTrip
<1>3. ASSUME NEW i \in D
      PROVE  \E k \in DOMAIN es : KeyOf(DecodedEntry(recs[i])) = k /\ DecodedEntry(recs[i]) = b[k]
  BY <1>2
<1>4. ASSUME NEW k \in DOMAIN es PROVE \E i \in D : KeyOf(DecodedEntry(recs[i])) = k
  BY <1>2
<1> HIDE DEF b, D
<1>5. DOMAIN b = {KeyOf(DecodedEntry(recs[i])) : i \in D}
  BY <1>1, <1>3, <1>4
<1>6. \A i \in D : b[KeyOf(DecodedEntry(recs[i]))] = DecodedEntry(recs[i])
  BY <1>3
<1> QED BY <1>1, <1>5, <1>6 DEF Holds, b, D

\* What was read is what the checksum's records hold.
LEMMA ReadHolds ==
  ASSUME NEW mem, EntriesOK(mem), NEW recs, Reading(recs, mem), NEW es, Holds(recs, es)
  PROVE  mem = es
<1>1. mem = [k \in DOMAIN mem |-> mem[k]] /\ es = [k \in DOMAIN es |-> es[k]]
  BY DEF EntriesOK, Holds
<1>2. DOMAIN mem \subseteq DOMAIN es /\ \A k \in DOMAIN mem : mem[k] = es[k]
  BY DEF Reading, Holds
<1>3. DOMAIN es \subseteq DOMAIN mem
  BY DEF Reading, Holds
<1> QED BY <1>1, <1>2, <1>3

-----------------------------------------------------------------------------
(* Steps                                                                    *)

\* One program moves, the others stay.
LEMMA StepKeeps ==
  ASSUME SessionsOK, NEW s \in Sessions, NEW r, Step(s, r), SessionOK(r, saved'),
         r.pc \in {"refresh", "apply"} => r.at = ses[s].at /\ Target(s) \in DOMAIN r.mem,
         plan' = plan, saved \subseteq saved'
  PROVE  SessionsOK'
<1>1. DOMAIN ses' = Sessions /\ ses'[s] = r /\ \A t \in Sessions \ {s} : ses'[t] = ses[t]
  BY DEF Step, SessionsOK
<1>2. ASSUME NEW t \in Sessions PROVE SessionOK(ses'[t], saved')
  <2>1. CASE t = s
    BY <1>1, <2>1
  <2>2. CASE t # s
    <3>1. ses'[t] = ses[t] /\ SessionOK(ses[t], saved)
      BY <1>1, <2>2 DEF SessionsOK
    <3>2. SessionOK(ses[t], saved')
      BY <3>1 DEF SessionOK, Core
    <3> QED BY <3>1, <3>2
  <2> QED BY <2>1, <2>2
<1>3. ASSUME NEW t \in Sessions, ses'[t].pc \in {"refresh", "apply"}
      PROVE  Target(t)' \in DOMAIN ses'[t].mem
  BY <1>1, <1>3 DEF SessionsOK, Target, Call
<1> QED BY <1>1, <1>2, <1>3 DEF SessionsOK

\* A call returns.
LEMMA ReturnKeeps ==
  ASSUME SessionsOK, NEW s \in Sessions, NEW r, Return(s, r), Core(r, saved),
         plan' = plan, saved' = saved
  PROVE  SessionsOK'
<1> DEFINE q == [r EXCEPT !.pc = "idle", !.at = @ + 1, !.recs = << >>,
                          !.todo = << >>, !.total = 0, !.st = NoFile]
<1>1. /\ DOMAIN q = SessionFields /\ q.pc = "idle" /\ q.at = r.at + 1 /\ q.recs = << >>
      /\ q.mem = r.mem /\ q.base = r.base
  BY DEF Core, SessionFields
<1>2. IsSeq(<< >>)
  BY ShortIsSeq
<1>3. Step(s, q)
  BY DEF Return
<1> HIDE DEF q
<1>4. SessionOK(q, saved')
  BY <1>1, <1>2 DEF SessionOK, Core
<1> QED BY <1>1, <1>3, <1>4, StepKeeps

\* A program stops.
LEMMA StopKeeps ==
  ASSUME SessionsOK, NEW s \in Sessions, Stop(s), plan' = plan, saved' = saved
  PROVE  SessionsOK'
<1> DEFINE q == [ses[s] EXCEPT !.pc = "stopped"]
<1>1. SessionOK(ses[s], saved)
  BY DEF SessionsOK
<1>2. /\ DOMAIN q = SessionFields /\ q.pc = "stopped" /\ q.at = ses[s].at
      /\ q.mem = ses[s].mem /\ q.base = ses[s].base /\ q.recs = ses[s].recs
  BY <1>1 DEF SessionOK, Core, SessionFields
<1>3. Step(s, q)
  BY DEF Stop
<1> HIDE DEF q
<1>4. SessionOK(q, saved')
  BY <1>1, <1>2 DEF SessionOK, Core
<1> QED BY <1>2, <1>3, <1>4, StepKeeps

\* A file that is not written stays sound.
LEMMA SumsStay ==
  ASSUME SumsOK, file' = file, saved \subseteq saved' PROVE SumsOK'
  BY DEF SumsOK

\* Neither does writing a record that is no checksum harm it.
LEMMA WriteKeeps ==
  ASSUME SumsOK, NEW s \in Sessions, Len(ses[s].recs) \in Nat, NEW r, Write(s, r),
         r.t = "sum" => \E es \in saved : Holds(r.of, es), saved' = saved
  PROVE  SumsOK'
<1> DEFINE n == Next1(s)
<1>1. n \in Nat \ {0}
  BY DEF Next1
<1>2. file' = Put(file, n, r)
  BY DEF Write
<1>3. Hole.t # "sum"
  BY DEF Hole
<1> HIDE DEF n
<1>4. /\ IsSeq(file')
      /\ \A i \in DOMAIN file' :
           file'[i] \in {r, Hole} \/ (i \in DOMAIN file /\ file'[i] = file[i])
  BY <1>1, <1>2, PutIs DEF SumsOK
<1>5. ASSUME NEW i \in DOMAIN file', file'[i].t = "sum"
      PROVE  \E es \in saved' : Holds(file'[i].of, es)
  <2>1. CASE file'[i] = r
    BY <1>5, <2>1
  <2>2. CASE file'[i] = Hole
    BY <1>3, <1>5, <2>2
  <2>3. CASE i \in DOMAIN file /\ file'[i] = file[i]
    BY <1>5, <2>3 DEF SumsOK
  <2> QED BY <1>4, <2>1, <2>2, <2>3
<1> QED BY <1>4, <1>5 DEF SumsOK

\* A step that writes nothing only has to keep its program sound.
LEMMA Quiet ==
  ASSUME LoadInv, plan' = plan, saved' = saved, file' = file, SessionsOK' PROVE LoadInv'
  BY SumsStay DEF LoadInv

\* What holds of a program before it moves.
LEMMA Before1 ==
  ASSUME LoadInv, NEW s \in Sessions
  PROVE  /\ SessionsOK /\ SessionOK(ses[s], saved) /\ Core(ses[s], saved)
         /\ IsSeq(ses[s].recs) /\ Len(ses[s].recs) \in Nat
<1>1. SessionsOK /\ SessionOK(ses[s], saved) /\ Core(ses[s], saved) /\ IsSeq(ses[s].recs)
  BY DEF LoadInv, SessionsOK, SessionOK
<1> QED BY <1>1, LenProperties DEF IsSeq

\* Opening an index file.
LEMMA LoadOpenKeeps ==
  ASSUME LoadInv, NEW s \in Sessions, LoadOpen(s) PROVE LoadInv'
<1>0. /\ SessionsOK /\ SessionOK(ses[s], saved) /\ SumsOK /\ NoEntries \in saved
      /\ plan' = plan /\ saved' = saved /\ file' = file
  BY DEF LoadInv, SessionsOK, LoadOpen
<1> DEFINE a == [ses[s] EXCEPT !.mem = NoEntries, !.base = NoEntries, !.fresh = NoEntries]
           b == [ses[s] EXCEPT !.pc = "head", !.total = Len(file)]
<1>1. CASE Return(s, a)
  <2>1. DOMAIN a = SessionFields /\ a.at = ses[s].at /\ a.mem = NoEntries /\ a.base = NoEntries
    BY <1>0 DEF SessionOK, Core, SessionFields
  <2> HIDE DEF a
  <2>2. Core(a, saved)
    BY <1>0, <2>1, NoEntriesOK DEF SessionOK, Core
  <2> QED BY <1>0, <1>1, <2>2, ReturnKeeps, SumsStay DEF LoadInv
<1>2. CASE Step(s, b)
  <2>1. /\ DOMAIN b = SessionFields /\ b.pc = "head" /\ b.at = ses[s].at /\ b.mem = ses[s].mem
        /\ b.base = ses[s].base /\ b.recs = ses[s].recs
    BY <1>0 DEF SessionOK, Core, SessionFields
  <2>2. ses[s].recs = << >>
    BY <1>0 DEF LoadOpen, Calls, AtCall, SessionOK
  <2> HIDE DEF b
  <2>3. SessionOK(b, saved')
    BY <1>0, <2>1, <2>2 DEF SessionOK, Core
  <2> QED BY <1>0, <1>2, <2>1, <2>3, StepKeeps, SumsStay DEF LoadInv
<1> QED BY <1>1, <1>2 DEF LoadOpen
\* The header is the first record read, and decodes to no entry.
LEMMA ReadHeadKeeps ==
  ASSUME LoadInv, NEW s \in Sessions, ReadHead(s) PROVE LoadInv'
<1>0. /\ SessionsOK /\ SessionOK(ses[s], saved) /\ Core(ses[s], saved) /\ IsSeq(ses[s].recs)
      /\ plan' = plan /\ saved' = saved /\ file' = file
  BY Before1 DEF ReadHead
<1> DEFINE r == [ses[s] EXCEPT !.pc = "body", !.recs = Taken(s), !.mem = NoEntries, !.fresh = NoEntries]
<1>1. CASE HasNext(s) /\ file[Next1(s)].t = "head" /\ Step(s, r)
  <2>1. /\ DOMAIN r = SessionFields /\ r.pc = "body" /\ r.at = ses[s].at /\ r.mem = NoEntries
        /\ r.base = ses[s].base /\ r.recs = Taken(s)
    BY <1>0 DEF Core, SessionFields
  <2>2. ses[s].recs = << >>
    BY <1>0 DEF ReadHead, AtCall, SessionOK
  <2>3. IsSeq(Taken(s)) /\ \A i \in DOMAIN Taken(s) : Taken(s)[i] = file[Next1(s)]
    <3>1. Taken(s) = Append(<< >>, file[Next1(s)])
      BY <2>2 DEF Taken
    <3> QED BY <3>1, ShortIsSeq, AppendIs
  <2>4. Reading(Taken(s), NoEntries)
    BY <1>1, <2>3, NoEntriesOK DEF Reading
  <2> HIDE DEF r
  <2>5. SessionOK(r, saved')
    BY <1>0, <2>1, <2>3, <2>4, NoEntriesOK DEF SessionOK, Core
  <2> QED BY <1>0, <1>1, <2>1, <2>5, StepKeeps, Quiet
<1>9. CASE Stop(s)
  BY <1>0, <1>9, StopKeeps, Quiet
<1> QED BY <1>1, <1>9 DEF ReadHead

\* An entry that is read goes under its key, over one already there.
LEMMA ReadRecordKeeps ==
  ASSUME LoadInv, NEW s \in Sessions, ReadRecord(s) PROVE LoadInv'
<1>0. /\ SessionsOK /\ SessionOK(ses[s], saved) /\ Core(ses[s], saved) /\ IsSeq(ses[s].recs)
      /\ plan' = plan /\ saved' = saved /\ file' = file
  BY Before1 DEF ReadRecord
<1> DEFINE x == file[Next1(s)]
           d == DecodedEntry(x)
           r == [ses[s] EXCEPT !.recs = Taken(s), !.mem = With(@, d)]
<1>1. CASE x.t = "entry" /\ Step(s, r)
  <2>1. /\ DOMAIN r = SessionFields /\ r.pc = ses[s].pc /\ r.at = ses[s].at
        /\ r.mem = With(ses[s].mem, d) /\ r.base = ses[s].base /\ r.recs = Taken(s)
    BY <1>0 DEF Core, SessionFields
  <2>2. ses[s].pc = "body" /\ Reading(ses[s].recs, ses[s].mem)
    BY <1>0 DEF ReadRecord, AtCall, SessionOK
  <2> DEFINE q == ses[s].recs
             p == Taken(s)
             old == ses[s].mem
             new == With(old, d)
  <2>3. p = Append(q, x)
    BY DEF Taken
  <2> HIDE DEF p, x, r
  <2>4. /\ IsSeq(p)
        /\ \A i \in DOMAIN q : i \in DOMAIN p /\ p[i] = q[i]
        /\ \E i \in DOMAIN p : p[i] = x
        /\ \A i \in DOMAIN p : p[i] = x \/ (i \in DOMAIN q /\ p[i] = q[i])
    BY <1>0, <2>3, AppendIs
  <2>5. EntryOK(d) /\ EntriesOK(old)
    BY <1>0, DecodedOK DEF Core
  <2> HIDE DEF d
  <2>6. /\ EntriesOK(new) /\ DOMAIN new = DOMAIN old \union {KeyOf(d)}
        /\ new[KeyOf(d)] = d /\ \A k \in DOMAIN old : k # KeyOf(d) => new[k] = old[k]
    BY <2>5, WithOK
  <2> HIDE DEF q, old, new
  <2>7. Reading(p, new)
    <3>1. ASSUME NEW i \in DOMAIN p, p[i].t = "entry"
          PROVE  KeyOf(DecodedEntry(p[i])) \in DOMAIN new
      BY <2>2, <2>4, <2>6, <3>1 DEF Reading, d, q, old
    <3>2. ASSUME NEW k \in DOMAIN new
          PROVE  \E i \in DOMAIN p : /\ p[i].t = "entry" /\ new[k] = DecodedEntry(p[i])
                                     /\ KeyOf(DecodedEntry(p[i])) = k
      <4>1. CASE k = KeyOf(d)
        BY <1>1, <2>4, <2>6, <4>1 DEF d
      <4>2. CASE k # KeyOf(d)
        <5>1. k \in DOMAIN old /\ new[k] = old[k]
          BY <2>6, <4>2
        <5>2. PICK i \in DOMAIN q : /\ q[i].t = "entry" /\ old[k] = DecodedEntry(q[i])
                                    /\ KeyOf(DecodedEntry(q[i])) = k
          BY <2>2, <5>1 DEF Reading, q, old
        <5> QED BY <2>4, <5>1, <5>2
      <4> QED BY <4>1, <4>2
    <3> QED BY <3>1, <3>2 DEF Reading
  <2>8. SessionOK(r, saved')
    BY <1>0, <2>1, <2>2, <2>4, <2>6, <2>7 DEF SessionOK, Core, p, new, old
  <2> QED BY <1>0, <1>1, <2>1, <2>2, <2>8, StepKeeps, Quiet
<1>9. CASE Stop(s)
  BY <1>0, <1>9, StopKeeps, Quiet
<1> QED BY <1>1, <1>9 DEF ReadRecord, Parses

\* An extension is read and decodes to no entry.
LEMMA ReadExtensionKeeps ==
  ASSUME LoadInv, NEW s \in Sessions, ReadExtension(s) PROVE LoadInv'
<1>0. /\ SessionsOK /\ SessionOK(ses[s], saved) /\ Core(ses[s], saved) /\ IsSeq(ses[s].recs)
      /\ plan' = plan /\ saved' = saved /\ file' = file
  BY Before1 DEF ReadExtension
<1> DEFINE x == file[Next1(s)]
           r == [ses[s] EXCEPT !.recs = Taken(s)]
<1>1. CASE x.t = "ext" /\ Step(s, r)
  <2>1. /\ DOMAIN r = SessionFields /\ r.pc = ses[s].pc /\ r.at = ses[s].at
        /\ r.mem = ses[s].mem /\ r.base = ses[s].base /\ r.recs = Taken(s)
    BY <1>0 DEF Core, SessionFields
  <2>2. ses[s].pc = "body" /\ Reading(ses[s].recs, ses[s].mem)
    BY <1>0 DEF ReadExtension, AtCall, SessionOK
  <2>3. Taken(s) = Append(ses[s].recs, x)
    BY DEF Taken
  <2> HIDE DEF r, x
  <2>4. /\ IsSeq(Taken(s))
        /\ \A i \in DOMAIN ses[s].recs : i \in DOMAIN Taken(s) /\ Taken(s)[i] = ses[s].recs[i]
        /\ \A i \in DOMAIN Taken(s) :
             Taken(s)[i] = x \/ (i \in DOMAIN ses[s].recs /\ Taken(s)[i] = ses[s].recs[i])
    BY <1>0, <2>3, AppendIs
  <2>5. Reading(Taken(s), ses[s].mem)
    <3>1. ASSUME NEW i \in DOMAIN Taken(s), Taken(s)[i].t = "entry"
          PROVE  i \in DOMAIN ses[s].recs /\ Taken(s)[i] = ses[s].recs[i]
      BY <1>1, <2>4, <3>1
    <3> QED BY <2>2, <2>4, <3>1 DEF Reading
  <2>6. SessionOK(r, saved')
    BY <1>0, <2>1, <2>2, <2>4, <2>5 DEF SessionOK, Core
  <2> QED BY <1>0, <1>1, <2>1, <2>2, <2>6, StepKeeps, Quiet
<1>9. CASE Stop(s)
  BY <1>0, <1>9, StopKeeps, Quiet
<1> QED BY <1>1, <1>9 DEF ReadExtension

\* A load that finds its checksum returns the entries of one save.
LEMMA ReadSumKeeps ==
  ASSUME LoadInv, NEW s \in Sessions, ReadSum(s) PROVE LoadInv'
<1>0. /\ SessionsOK /\ SessionOK(ses[s], saved) /\ Core(ses[s], saved) /\ IsSeq(ses[s].recs)
      /\ plan' = plan /\ saved' = saved /\ file' = file
  BY Before1 DEF ReadSum
<1> DEFINE r == [ses[s] EXCEPT !.base = ses[s].mem, !.fresh = NoEntries]
<1>1. CASE HasNext(s) /\ file[Next1(s)] = SumRecord(plan.kinds[s], ses[s].recs) /\ Return(s, r)
  <2>1. /\ DOMAIN r = SessionFields /\ r.at = ses[s].at /\ r.mem = ses[s].mem
        /\ r.base = ses[s].mem
    BY <1>0 DEF Core, SessionFields
  <2>2. Reading(ses[s].recs, ses[s].mem) /\ EntriesOK(ses[s].mem)
    BY <1>0 DEF ReadSum, AtSum, AtCall, SessionOK, Core
  <2>3. Next1(s) \in DOMAIN file
    <3>1. Len(ses[s].recs) \in Nat /\ IsSeq(file)
      BY Before1 DEF LoadInv, SumsOK
    <3>2. DOMAIN file = 1..Len(file)
      BY <3>1, LenProperties DEF IsSeq
    <3>3. Len(file) \in Nat
      BY <3>1, LenProperties DEF IsSeq
    <3> QED BY <1>1, <3>1, <3>2, <3>3 DEF HasNext, Next1
  <2>4. file[Next1(s)].t = "sum" /\ file[Next1(s)].of = ses[s].recs
    BY <1>1 DEF SumRecord
  <2>5. PICK es \in saved : Holds(ses[s].recs, es)
    BY <2>3, <2>4 DEF LoadInv, SumsOK
  <2>6. ses[s].mem = es
    BY <2>2, <2>5, ReadHolds
  <2> HIDE DEF r
  <2>7. Core(r, saved)
    BY <1>0, <2>1, <2>5, <2>6 DEF Core
  <2> QED BY <1>0, <1>1, <2>7, ReturnKeeps, Quiet
<1>9. CASE Stop(s)
  BY <1>0, <1>9, StopKeeps, Quiet
<1> QED BY <1>1, <1>9 DEF ReadSum, Loaded
\* A call that puts an entry in memory returns.
LEMMA SetKeeps ==
  ASSUME SessionsOK, NEW s \in Sessions, Core(ses[s], saved), NEW e, EntryOK(e), Set(s, e),
         plan' = plan, saved' = saved
  PROVE  SessionsOK'
<1> DEFINE r == [ses[s] EXCEPT !.mem = With(@, e), !.fresh = Without(@, {KeyOf(e)})]
<1>1. /\ DOMAIN r = SessionFields /\ r.at = ses[s].at /\ r.base = ses[s].base
      /\ r.mem = With(ses[s].mem, e)
  BY DEF Core, SessionFields
<1>2. EntriesOK(With(ses[s].mem, e))
  BY WithOK DEF Core
<1>3. Return(s, r)
  BY DEF Set
<1> HIDE DEF r
<1>4. Core(r, saved)
  BY <1>1, <1>2 DEF Core
<1> QED BY <1>3, <1>4, ReturnKeeps

\* A call that drops entries returns.
LEMMA DropKeeps ==
  ASSUME SessionsOK, NEW s \in Sessions, Core(ses[s], saved), NEW ks, Drop(s, ks),
         plan' = plan, saved' = saved
  PROVE  SessionsOK'
<1> DEFINE r == [ses[s] EXCEPT !.mem = Without(@, ks), !.fresh = Without(@, ks)]
<1>1. /\ DOMAIN r = SessionFields /\ r.at = ses[s].at /\ r.base = ses[s].base
      /\ r.mem = Without(ses[s].mem, ks)
  BY DEF Core, SessionFields
<1>2. EntriesOK(Without(ses[s].mem, ks))
  BY WithoutOK DEF Core
<1>3. Return(s, r)
  BY DEF Drop
<1> HIDE DEF r
<1>4. Core(r, saved)
  BY <1>1, <1>2 DEF Core
<1> QED BY <1>3, <1>4, ReturnKeeps

\* The caller hashes the file it is about to add.
LEMMA AddHashKeeps ==
  ASSUME LoadInv, NEW s \in Sessions, AddHash(s) PROVE LoadInv'
<1>0. /\ SessionsOK /\ SessionOK(ses[s], saved) /\ Core(ses[s], saved) /\ IsSeq(ses[s].recs)
      /\ plan' = plan /\ saved' = saved /\ file' = file
  BY Before1 DEF AddHash
<1> DEFINE h == BlobId(plan.kinds[s], ReadFile(work[Call(s).name]))
           r == [ses[s] EXCEPT !.pc = "add", !.st = h]
<1>1. CASE Step(s, r)
  <2> HIDE DEF h
  <2>1. /\ DOMAIN r = SessionFields /\ r.pc = "add" /\ r.at = ses[s].at /\ r.mem = ses[s].mem
        /\ r.base = ses[s].base /\ r.recs = ses[s].recs
    BY <1>0 DEF Core, SessionFields
  <2> HIDE DEF r
  <2>2. SessionOK(r, saved')
    BY <1>0, <2>1 DEF SessionOK, Core
  <2> QED BY <1>0, <1>1, <2>1, <2>2, StepKeeps, Quiet
<1>9. CASE Stop(s)
  BY <1>0, <1>9, StopKeeps, Quiet
<1> QED BY <1>1, <1>9 DEF AddHash

\* The entry of the file is added.
LEMMA AddEntryKeeps ==
  ASSUME LoadInv, NEW s \in Sessions, AddEntry(s) PROVE LoadInv'
<1>0. /\ SessionsOK /\ SessionOK(ses[s], saved) /\ Core(ses[s], saved) /\ IsSeq(ses[s].recs)
      /\ plan' = plan /\ saved' = saved /\ file' = file
  BY Before1 DEF AddEntry
<1> DEFINE e == FromStat(Call(s).name, ses[s].st, Stat(work[Call(s).name]))
<1>1. CASE Set(s, e)
  <2>1. EntryOK(e)
    BY MadeOK
  <2> HIDE DEF e
  <2> QED BY <1>0, <1>1, <2>1, SetKeeps, Quiet
<1>9. CASE Stop(s)
  BY <1>0, <1>9, StopKeeps, Quiet
<1> QED BY <1>1, <1>9 DEF AddEntry

\* An entry made from a blob is added.
LEMMA AddBlobKeeps ==
  ASSUME LoadInv, NEW s \in Sessions, AddBlob(s) PROVE LoadInv'
<1>0. /\ SessionsOK /\ SessionOK(ses[s], saved) /\ Core(ses[s], saved) /\ IsSeq(ses[s].recs)
      /\ plan' = plan /\ saved' = saved /\ file' = file
  BY Before1 DEF AddBlob
<1> DEFINE c == Call(s)
           b == FromBlob(c.name, BlobId(c.kind, c.data), ContentSize[c.data])
           e == [b EXCEPT !.flags.stage = c.stage, !.flags.skip = c.skip, !.flags.intent = c.intent]
<1>1. c.skip \in BOOLEAN /\ c.intent \in BOOLEAN
  <2>1. ses[s].at \in DOMAIN plan.calls[s]
    <3>1. ses[s].at \in Nat \ {0} /\ ses[s].at <= Len(plan.calls[s])
      BY <1>0 DEF AddBlob, Calls, Core
    <3>2. plan.calls[s] \in Seq(Range(plan.calls[s]))
      BY CallsOK DEF LoadInv
    <3> QED BY <3>1, <3>2, LenProperties
  <2>2. c.op = "blob"
    BY DEF AddBlob, Calls
  <2> QED BY <2>1, <2>2, CallsOK DEF LoadInv, Call
<1>2. EntryOK(b)
  BY MadeOK
<1>3. Set(s, e)
  BY DEF AddBlob
<1> HIDE DEF b, c
<1>4. EntryOK(e)
  BY <1>1, <1>2 DEF EntryOK, EntryFields, FlagFields
<1> HIDE DEF e
<1> QED BY <1>0, <1>3, <1>4, SetKeeps, Quiet

\* An entry is removed.
LEMMA RemoveEntryKeeps ==
  ASSUME LoadInv, NEW s \in Sessions, RemoveEntry(s) PROVE LoadInv'
<1>0. /\ SessionsOK /\ SessionOK(ses[s], saved) /\ Core(ses[s], saved) /\ IsSeq(ses[s].recs)
      /\ plan' = plan /\ saved' = saved /\ file' = file
  BY Before1 DEF RemoveEntry
<1> QED BY <1>0, DropKeeps, Quiet DEF RemoveEntry

\* The entries below a directory are removed.
LEMMA RemoveDirKeeps ==
  ASSUME LoadInv, NEW s \in Sessions, RemoveDir(s) PROVE LoadInv'
<1>0. /\ SessionsOK /\ SessionOK(ses[s], saved) /\ Core(ses[s], saved) /\ IsSeq(ses[s].recs)
      /\ plan' = plan /\ saved' = saved /\ file' = file
  BY Before1 DEF RemoveDir
<1> QED BY <1>0, DropKeeps, Quiet DEF RemoveDir

\* Refresh takes the metadata of a file whose entry it found.
LEMMA RefreshStatKeeps ==
  ASSUME LoadInv, NEW s \in Sessions, RefreshStat(s) PROVE LoadInv'
<1>0. /\ SessionsOK /\ SessionOK(ses[s], saved) /\ Core(ses[s], saved) /\ IsSeq(ses[s].recs)
      /\ plan' = plan /\ saved' = saved /\ file' = file
  BY Before1 DEF RefreshStat
<1> DEFINE x == Stat(work[Call(s).name])
           r == [ses[s] EXCEPT !.pc = "refresh", !.total = clock, !.st = x]
<1>1. CASE Return(s, ses[s])
  BY <1>0, <1>1, ReturnKeeps, Quiet
<1>2. CASE Target(s) \in DOMAIN ses[s].mem /\ Step(s, r)
  <2> HIDE DEF x
  <2>1. /\ DOMAIN r = SessionFields /\ r.pc = "refresh" /\ r.at = ses[s].at /\ r.mem = ses[s].mem
        /\ r.base = ses[s].base /\ r.recs = ses[s].recs
    BY <1>0 DEF Core, SessionFields
  <2> HIDE DEF r
  <2>2. SessionOK(r, saved')
    BY <1>0, <2>1 DEF SessionOK, Core
  <2> QED BY <1>0, <1>2, <2>1, <2>2, StepKeeps, Quiet
<1>9. CASE Stop(s)
  BY <1>0, <1>9, StopKeeps, Quiet
<1> QED BY <1>1, <1>2, <1>9 DEF RefreshStat

\* Refresh reads the contents.
LEMMA RefreshReadKeeps ==
  ASSUME LoadInv, NEW s \in Sessions, RefreshRead(s) PROVE LoadInv'
<1>0. /\ SessionsOK /\ SessionOK(ses[s], saved) /\ Core(ses[s], saved) /\ IsSeq(ses[s].recs)
      /\ plan' = plan /\ saved' = saved /\ file' = file
  BY Before1 DEF RefreshRead
<1> DEFINE x == ReadFile(work[Call(s).name])
           r == [ses[s] EXCEPT !.pc = "apply", !.recs = <<x>>]
<1>1. CASE Step(s, r)
  <2> HIDE DEF x
  <2>1. /\ DOMAIN r = SessionFields /\ r.pc = "apply" /\ r.at = ses[s].at /\ r.mem = ses[s].mem
        /\ r.base = ses[s].base /\ r.recs = <<x>>
    BY <1>0 DEF Core, SessionFields
  <2> HIDE DEF r
  <2>2. SessionOK(r, saved')
    BY <1>0, <2>1, ShortIsSeq DEF SessionOK, Core
  <2>3. Target(s) \in DOMAIN ses[s].mem
    BY <1>0 DEF RefreshRead, AtCall, SessionsOK
  <2> QED BY <1>0, <1>1, <2>1, <2>2, <2>3, StepKeeps, Quiet
<1>9. CASE Stop(s)
  BY <1>0, <1>9, StopKeeps, Quiet
<1> QED BY <1>1, <1>9 DEF RefreshRead

\* The entry a refresh sets.
NewEntry(s, st, data) ==
  [FromStat(Call(s).name, FileDigest(plan.kinds[s], st.size, data), st)
     EXCEPT !.flags = ses[s].mem[Target(s)].flags]

NewFresh(s, at) ==
  [k \in DOMAIN ses[s].fresh \union {Target(s)} |-> IF k = Target(s) THEN at ELSE ses[s].fresh[k]]

\* It has the key of the one it replaces.
LEMMA NewEntryIs ==
  ASSUME NEW s \in Sessions, Core(ses[s], saved), Target(s) \in DOMAIN ses[s].mem,
         NEW st, NEW data
  PROVE  EntryOK(NewEntry(s, st, data)) /\ KeyOf(NewEntry(s, st, data)) = Target(s)
<1> DEFINE old == ses[s].mem[Target(s)]
           b == FromStat(Call(s).name, FileDigest(plan.kinds[s], st.size, data), st)
           e == [b EXCEPT !.flags = old.flags]
<1>1. EntryOK(old) /\ KeyOf(old) = Target(s)
  BY DEF Core, EntriesOK
<1>2. EntryOK(b) /\ b.name = Call(s).name
  BY MadeOK DEF FromStat
<1>3. NewEntry(s, st, data) = e
  BY DEF NewEntry
<1> HIDE DEF old, b
<1>4. DOMAIN e = EntryFields /\ e.flags = old.flags /\ e.name = b.name
  BY <1>2 DEF EntryOK, EntryFields
<1> HIDE DEF e
<1>5. EntryOK(e)
  BY <1>1, <1>4 DEF EntryOK
<1>6. KeyOf(e) = Target(s)
  BY <1>1, <1>2, <1>4 DEF KeyOf, Target
<1> QED BY <1>3, <1>5, <1>6

\* What else a refresh changes.
LEMMA RefreshedIs ==
  ASSUME NEW s \in Sessions, Core(ses[s], saved), NEW at, NEW st, NEW data, NEW r,
         r = Refreshed(s, at, st, data)
  PROVE  /\ DOMAIN r = SessionFields /\ r.at = ses[s].at /\ r.base = ses[s].base
         /\ r.mem = With(ses[s].mem, NewEntry(s, st, data))
         /\ r.fresh = NewFresh(s, at)
<1>1. r = [ses[s] EXCEPT !.mem = With(@, NewEntry(s, st, data)), !.fresh = NewFresh(s, at)]
  BY DEF Refreshed, NewEntry, NewFresh, Core, SessionFields
<1> QED BY <1>1 DEF Core, SessionFields

\* The refreshed entry replaces the old one.
LEMMA RefreshApplyKeeps ==
  ASSUME LoadInv, NEW s \in Sessions, RefreshApply(s) PROVE LoadInv'
<1>0. /\ SessionsOK /\ SessionOK(ses[s], saved) /\ Core(ses[s], saved) /\ IsSeq(ses[s].recs)
      /\ plan' = plan /\ saved' = saved /\ file' = file
  BY Before1 DEF RefreshApply
<1> DEFINE r == Refreshed(s, ses[s].total, ses[s].st, ses[s].recs[1])
           e == NewEntry(s, ses[s].st, ses[s].recs[1])
<1>1. Target(s) \in DOMAIN ses[s].mem
  BY <1>0 DEF RefreshApply, AtCall, SessionsOK
<1>2. EntryOK(e)
  BY <1>0, <1>1, NewEntryIs
<1>3. /\ DOMAIN r = SessionFields /\ r.at = ses[s].at /\ r.base = ses[s].base
      /\ r.mem = With(ses[s].mem, e)
  BY <1>0, RefreshedIs
<1>4. Return(s, r)
  BY DEF RefreshApply
<1> HIDE DEF r, e
<1>5. EntriesOK(With(ses[s].mem, e))
  BY <1>0, <1>2, WithOK DEF Core
<1>6. Core(r, saved)
  BY <1>0, <1>3, <1>5 DEF Core
<1> QED BY <1>0, <1>4, <1>6, ReturnKeeps, Quiet

\* An order of the entries leaves none out.
LEMMA InOrderIs ==
  ASSUME NEW es, EntriesOK(es), NEW q \in InOrder(es)
  PROVE  /\ IsSeq(q)
         /\ \A i \in DOMAIN q : \E k \in DOMAIN es : q[i] = es[k]
         /\ \A k \in DOMAIN es : \E i \in DOMAIN q : q[i] = es[k]
<1> DEFINE n == Cardinality(DOMAIN es)
<1>1. n \in Nat
  BY FS_CardinalityType DEF EntriesOK
<1>2. PICK ks \in Bijection(1..n, DOMAIN es) : q = [i \in DOMAIN ks |-> es[ks[i]]]
  BY DEF InOrder
<1> HIDE DEF n
<1>3. /\ DOMAIN ks = 1..n /\ \A i \in 1..n : ks[i] \in DOMAIN es
      /\ \A k \in DOMAIN es : \E i \in 1..n : ks[i] = k
  BY <1>2 DEF Bijection, Injection, Surjection
<1>4. q = [i \in 1..n |-> q[i]] /\ DOMAIN q = 1..n /\ \A i \in 1..n : q[i] = es[ks[i]]
  BY <1>2, <1>3
<1>5. IsSeq(q)
  BY <1>1, <1>4, FcnIsSeq
<1> QED BY <1>3, <1>4, <1>5

\* A save begins: all is still to be written, and the file is empty.
LEMMA SaveCreateKeeps ==
  ASSUME LoadInv, NEW s \in Sessions, SaveCreate(s) PROVE LoadInv'
<1>0. /\ SessionsOK /\ SessionOK(ses[s], saved) /\ Core(ses[s], saved) /\ IsSeq(ses[s].recs)
      /\ plan' = plan /\ ses[s].pc = "idle" /\ EntriesOK(ses[s].mem)
  BY Before1 DEF SaveCreate, Calls, AtCall, Core
<1>1. CASE Stop(s) /\ UNCHANGED <<file, saved>>
  BY <1>0, <1>1, StopKeeps, Quiet
<1>2. CASE /\ \E es \in InOrder(ses[s].mem) : Step(s, [ses[s] EXCEPT !.pc = "save", !.todo = es])
           /\ file' = << >> /\ saved' = saved \union {ReadBack(ses[s].mem)}
  <2>1. PICK es \in InOrder(ses[s].mem) : Step(s, [ses[s] EXCEPT !.pc = "save", !.todo = es])
    BY <1>2
  <2> DEFINE r == [ses[s] EXCEPT !.pc = "save", !.todo = es]
  <2>2. /\ DOMAIN r = SessionFields /\ r.pc = "save" /\ r.at = ses[s].at /\ r.mem = ses[s].mem
        /\ r.base = ses[s].base /\ r.recs = ses[s].recs /\ r.todo = es
    BY <1>0 DEF Core, SessionFields
  <2>3. ses[s].recs = << >>
    BY <1>0 DEF SessionOK
  <2>4. /\ IsSeq(es)
        /\ \A i \in DOMAIN es : \E k \in DOMAIN ses[s].mem : es[i] = ses[s].mem[k]
        /\ \A k \in DOMAIN ses[s].mem : \E i \in DOMAIN es : es[i] = ses[s].mem[k]
    BY <1>0, InOrderIs
  <2>5. Step(s, r)
    BY <2>1
  <2> HIDE DEF r
  <2>6. Saving(<< >>, es, ses[s].mem)
    BY <2>4 DEF Saving
  <2>7. ReadBack(ses[s].mem) \in saved' /\ saved \subseteq saved'
    BY <1>2
  <2>8. SessionOK(r, saved')
    BY <1>0, <2>2, <2>3, <2>6, <2>7, ShortIsSeq DEF SessionOK, Core
  <2>9. SessionsOK'
    BY <1>0, <2>2, <2>5, <2>7, <2>8, StepKeeps
  <2>10. SumsOK'
    BY <1>2, ShortIsSeq DEF SumsOK
  <2> QED BY <1>0, <2>7, <2>9, <2>10 DEF LoadInv
<1> QED BY <1>1, <1>2 DEF SaveCreate

\* A record that is written adds to the records of its save.
LEMMA SaveHeadKeeps ==
  ASSUME LoadInv, NEW s \in Sessions, SaveHead(s) PROVE LoadInv'
<1> DEFINE x == HeadRecord(ses[s].mem)
           r == [ses[s] EXCEPT !.recs = <<x>>]
<1>0. /\ SessionsOK /\ SessionOK(ses[s], saved) /\ Core(ses[s], saved)
      /\ plan' = plan /\ saved' = saved /\ Len(ses[s].recs) \in Nat
      /\ ses[s].pc = "save" /\ ses[s].recs = << >> /\ Write(s, x) /\ Step(s, r)
  BY Before1 DEF SaveHead, AtCall
<1>1. x.t = "head"
  BY DEF HeadRecord
<1> HIDE DEF x
<1>2. /\ DOMAIN r = SessionFields /\ r.pc = "save" /\ r.at = ses[s].at /\ r.mem = ses[s].mem
      /\ r.base = ses[s].base /\ r.recs = <<x>> /\ r.todo = ses[s].todo
  BY <1>0 DEF Core, SessionFields
<1>3. Saving(<< >>, ses[s].todo, ses[s].mem) /\ ReadBack(ses[s].mem) \in saved
  BY <1>0 DEF SessionOK
<1>4. Saving(<<x>>, ses[s].todo, ses[s].mem)
  BY <1>1, <1>3 DEF Saving
<1> HIDE DEF r
<1>5. SessionOK(r, saved')
  BY <1>0, <1>2, <1>3, <1>4, ShortIsSeq DEF SessionOK, Core
<1>6. SessionsOK'
  BY <1>0, <1>2, <1>5, StepKeeps
<1>7. SumsOK'
  BY <1>0, <1>1, WriteKeeps DEF LoadInv
<1> QED BY <1>0, <1>6, <1>7 DEF LoadInv

\* So does an entry; a name too long for its length field stops the save.
LEMMA SaveRecordKeeps ==
  ASSUME LoadInv, NEW s \in Sessions, SaveRecord(s) PROVE LoadInv'
<1> DEFINE e == Head(ses[s].todo)
           x == EntryRecord(e)
           r == [ses[s] EXCEPT !.recs = Append(@, x), !.todo = Tail(@)]
<1>0. /\ SessionsOK /\ SessionOK(ses[s], saved) /\ Core(ses[s], saved) /\ IsSeq(ses[s].recs)
      /\ plan' = plan /\ saved' = saved /\ Len(ses[s].recs) \in Nat
      /\ ses[s].pc = "save" /\ ses[s].todo # << >>
  BY Before1 DEF SaveRecord, AtCall
<1>1. CASE Stop(s) /\ UNCHANGED file
  BY <1>0, <1>1, StopKeeps, Quiet
<1>2. CASE Write(s, x) /\ Step(s, r)
  <2>1. x.t = "entry"
    BY DEF EntryRecord
  <2> DEFINE q == ses[s].recs
             p == Append(q, x)
             todo == ses[s].todo
             rest == Tail(todo)
             mem == ses[s].mem
  <2> HIDE DEF x
  <2>2. /\ DOMAIN r = SessionFields /\ r.pc = "save" /\ r.at = ses[s].at /\ r.mem = mem
        /\ r.base = ses[s].base /\ r.recs = p /\ r.todo = rest
    BY <1>0 DEF Core, SessionFields
  <2>3. Saving(q, todo, mem) /\ ReadBack(mem) \in saved
    BY <1>0 DEF SessionOK
  <2>4. /\ IsSeq(p)
        /\ \A i \in DOMAIN q : i \in DOMAIN p /\ p[i] = q[i]
        /\ \E i \in DOMAIN p : p[i] = x
        /\ \A i \in DOMAIN p : p[i] = x \/ (i \in DOMAIN q /\ p[i] = q[i])
    BY <1>0, AppendIs
  <2>5. /\ IsSeq(rest)
        /\ \E i \in DOMAIN todo : todo[i] = e
        /\ \A i \in DOMAIN rest : \E j \in DOMAIN todo : rest[i] = todo[j]
        /\ \A j \in DOMAIN todo : todo[j] = e \/ \E i \in DOMAIN rest : rest[i] = todo[j]
    BY <1>0, <2>3, TailIs DEF Saving
  <2> HIDE DEF r, p, q, todo, rest, mem, e
  <2>6. Saving(p, rest, mem)
    <3>1. \E k \in DOMAIN mem : x = EntryRecord(mem[k])
      BY <2>3, <2>5 DEF Saving, x
    <3>2. \A i \in DOMAIN rest : \E k \in DOMAIN mem : rest[i] = mem[k]
      BY <2>3, <2>5 DEF Saving
    <3>3. \A i \in DOMAIN p : p[i].t = "entry" => \E k \in DOMAIN mem : p[i] = EntryRecord(mem[k])
      BY <2>3, <2>4, <3>1 DEF Saving
    <3>4. ASSUME NEW k \in DOMAIN mem
          PROVE  \/ \E i \in DOMAIN rest : rest[i] = mem[k]
                 \/ \E i \in DOMAIN p : p[i] = EntryRecord(mem[k])
      <4>1. CASE \E i \in DOMAIN todo : todo[i] = mem[k]
        BY <2>4, <2>5, <4>1 DEF x
      <4>2. CASE \E i \in DOMAIN q : q[i] = EntryRecord(mem[k])
        BY <2>4, <4>2
      <4> QED BY <2>3, <4>1, <4>2 DEF Saving
    <3> QED BY <2>5, <3>2, <3>3, <3>4 DEF Saving
  <2>7. SessionOK(r, saved')
    BY <1>0, <2>2, <2>3, <2>4, <2>6 DEF SessionOK, Core, mem
  <2>8. SessionsOK'
    BY <1>0, <1>2, <2>2, <2>7, StepKeeps
  <2>9. SumsOK'
    BY <1>0, <1>2, <2>1, WriteKeeps DEF LoadInv
  <2> QED BY <1>0, <2>8, <2>9 DEF LoadInv
<1> QED BY <1>1, <1>2 DEF SaveRecord

\* The checksum is written when every entry is, and covers just those.
LEMMA SaveSumKeeps ==
  ASSUME LoadInv, NEW s \in Sessions, SaveSum(s) PROVE LoadInv'
<1> DEFINE x == SumRecord(plan.kinds[s], ses[s].recs)
<1>0. /\ SessionsOK /\ SessionOK(ses[s], saved) /\ Core(ses[s], saved)
      /\ plan' = plan /\ saved' = saved /\ Len(ses[s].recs) \in Nat
      /\ ses[s].pc = "save" /\ ses[s].todo = << >> /\ Write(s, x) /\ Return(s, ses[s])
  BY Before1 DEF SaveSum, AtCall
<1>1. Saving(ses[s].recs, << >>, ses[s].mem) /\ ReadBack(ses[s].mem) \in saved /\ EntriesOK(ses[s].mem)
  BY <1>0 DEF SessionOK, Core
<1>2. /\ \A i \in DOMAIN ses[s].recs : ses[s].recs[i].t = "entry" =>
           \E k \in DOMAIN ses[s].mem : ses[s].recs[i] = EntryRecord(ses[s].mem[k])
      /\ \A k \in DOMAIN ses[s].mem :
           \E i \in DOMAIN ses[s].recs : ses[s].recs[i] = EntryRecord(ses[s].mem[k])
  BY <1>1 DEF Saving
<1>3. Holds(ses[s].recs, ReadBack(ses[s].mem))
  BY <1>1, <1>2, SavedHolds
<1>4. x.of = ses[s].recs
  BY DEF SumRecord
<1> HIDE DEF x
<1>5. SumsOK'
  BY <1>0, <1>1, <1>3, <1>4, WriteKeeps DEF LoadInv
<1>6. SessionsOK'
  BY <1>0, ReturnKeeps
<1> QED BY <1>0, <1>5, <1>6 DEF LoadInv

\* Nothing is in memory at the start.
LEMMA LoadInvInit == IndexInit => LoadInv
<1> SUFFICES ASSUME IndexInit PROVE LoadInv
  OBVIOUS
<1>1. /\ plan \in IndexScenarios /\ ses = [s \in Sessions |-> NewSession]
      /\ file = plan.start.records /\ saved = {NoEntries, plan.start.entries}
  BY DEF IndexInit, IndexStart
<1>2. /\ DOMAIN NewSession = SessionFields /\ NewSession.pc = "idle" /\ NewSession.at = 1
      /\ NewSession.mem = NoEntries /\ NewSession.base = NoEntries /\ NewSession.recs = << >>
  BY DEF NewSession, SessionFields
<1>3. SessionOK(NewSession, saved)
  BY <1>1, <1>2, NoEntriesOK, ShortIsSeq DEF SessionOK, Core
<1>4. SessionsOK
  BY <1>1, <1>2, <1>3 DEF SessionsOK
<1>5. SumsOK
  BY <1>1, StartOK DEF SumsOK, IsSeq
<1> QED BY <1>1, <1>4, <1>5 DEF LoadInv

\* Every step of a program, a crash, an editor or the clock keeps LoadInv.
LEMMA LoadInvNext == LoadInv /\ [IndexNext]_indexVars => LoadInv'
<1> SUFFICES ASSUME LoadInv, [IndexNext]_indexVars PROVE LoadInv'
  OBVIOUS
<1>1. ASSUME UNCHANGED <<plan, ses, file, saved>> PROVE LoadInv'
  <2>1. SessionsOK'
    BY <1>1 DEF LoadInv, SessionsOK, Target, Call
  <2> QED BY <1>1, <2>1, Quiet
<1>2. ASSUME NEW s \in Sessions, Program(s) PROVE LoadInv'
  BY <1>2, LoadOpenKeeps, ReadHeadKeeps, ReadRecordKeeps, ReadExtensionKeeps, ReadSumKeeps,
     AddHashKeeps, AddEntryKeeps, AddBlobKeeps, RemoveEntryKeeps, RemoveDirKeeps,
     RefreshStatKeeps, RefreshReadKeeps, RefreshApplyKeeps,
     SaveCreateKeeps, SaveHeadKeeps, SaveRecordKeeps, SaveSumKeeps DEF Program
<1>3. ASSUME NEW s \in Sessions, Crash(s) PROVE LoadInv'
  <2>1. Stop(s) /\ plan' = plan /\ saved' = saved /\ file' = file
    BY <1>3 DEF Crash
  <2> QED BY <2>1, StopKeeps, Quiet DEF LoadInv
<1>4. CASE \E n \in NameSet : (\E c \in Contents : Edit(n, c)) \/ Touch(n)
  BY <1>1, <1>4 DEF Edit, Touch
<1>5. CASE Tick
  BY <1>1, <1>5 DEF Tick
<1>6. CASE UNCHANGED indexVars
  BY <1>1, <1>6 DEF indexVars
<1> QED BY <1>2, <1>3, <1>4, <1>5, <1>6 DEF IndexNext

\* LoadsWhole for every number of programs, names and calls: a load returns
\* what one save was called with, whatever the programs that save at the same
\* time write over each other and wherever one is killed.
THEOREM LoadSafety == IndexSpec => []LoadsWhole
<1>1. LoadInv => LoadsWhole
  BY DEF LoadInv, SessionsOK, SessionOK, Core, LoadsWhole
<1> QED BY <1>1, LoadInvInit, LoadInvNext, PTL DEF IndexSpec
=============================================================================
