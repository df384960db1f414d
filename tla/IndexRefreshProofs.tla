------------------------- MODULE IndexRefreshProofs -------------------------
(***************************************************************************)
(* RefreshHonest of IndexFile for any number of programs, names, edits and  *)
(* ticks, whoever changes the working tree while a refresh is under way.    *)
(***************************************************************************)
EXTENDS IndexFileProofs

\* A regular file was last changed now or earlier.
Timed ==
  /\ clock \in Nat \ {0}
  /\ DOMAIN work = NameSet
  /\ \A n \in NameSet : work[n].type = "file" =>
       /\ {"type", "data", "ctime", "mtime"} \subseteq DOMAIN work[n]
       /\ work[n].ctime \in Int /\ work[n].ctime <= clock

\* A refreshed entry is no younger than the tick it was refreshed in, and names
\* the contents of a file last changed before it.
FreshOK(mem, fresh, w, c) ==
  \A k \in DOMAIN fresh :
    /\ k \in DOMAIN mem /\ k[1] \in NameSet
    /\ fresh[k] \in Int /\ 1 <= fresh[k] /\ fresh[k] <= c
    /\ w[k[1]].type = "file" =>
         /\ mem[k].ctime \in Int /\ mem[k].ctime <= fresh[k]
         /\ w[k[1]].ctime < fresh[k] => mem[k].hash = BlobId(mem[k].hash.kind, w[k[1]].data)

\* A refresh in flight has looked at the file as it is, unless the file was
\* changed in that tick or later.
LookedOK(r, n, w, c) ==
  /\ n \in NameSet
  /\ r.total \in Int /\ 1 <= r.total /\ r.total <= c
  /\ w[n].type = "file" =>
       /\ r.st.ctime \in Int /\ r.st.ctime <= r.total
       /\ w[n].ctime < r.total =>
            /\ r.st.size = ContentSize[w[n].data]
            /\ r.pc = "apply" => r.recs[1] = w[n].data

WatchOK(r, n, w, c) ==
  /\ FreshOK(r.mem, r.fresh, w, c)
  /\ r.pc = "body" => DOMAIN r.fresh = {}
  /\ r.pc \in {"refresh", "apply"} => LookedOK(r, n, w, c)

Watched == \A s \in Sessions : WatchOK(ses[s], Call(s).name, work, clock)

RefreshInv == LoadInv /\ Timed /\ Watched

-----------------------------------------------------------------------------
\* Facts about ticks.
LEMMA Ticks ==
  /\ \A a, b \in Int : a <= b => ~(b < a) /\ a <= b + 1
  /\ \A a, b \in Int : a # b => a < b \/ b < a
  BY SMT

\* A time before the epoch is clamped, and stays before a tick it was before.
LEMMA Clamped ==
  ASSUME NEW a \in Int, NEW c \in Int, 1 <= c
  PROVE  /\ Time(a) \in Int /\ (a <= c => Time(a) <= c)
         /\ \A e \in Int : e <= c /\ c < a => e # Time(a)
  BY SMT DEF Time

\* One program moves while the working tree stays as it is.
LEMMA WatchStep ==
  ASSUME SessionsOK, Watched, NEW s \in Sessions, NEW r, Step(s, r),
         r.pc \in {"refresh", "apply"} => r.at = ses[s].at,
         WatchOK(r, Call(s).name, work, clock), plan' = plan, work' = work, clock' = clock
  PROVE  Watched'
<1>1. ses'[s] = r /\ \A t \in Sessions \ {s} : ses'[t] = ses[t]
  BY DEF Step, SessionsOK
<1>2. ASSUME NEW t \in Sessions, t # s PROVE WatchOK(ses'[t], Call(t)'.name, work', clock')
  <2>1. ses'[t] = ses[t] /\ Call(t)' = Call(t)
    BY <1>1, <1>2 DEF Call
  <2> QED BY <2>1 DEF Watched
<1>3. WatchOK(ses'[s], Call(s)'.name, work', clock')
  <2>1. CASE r.pc \in {"refresh", "apply"}
    <3>1. Call(s)' = Call(s)
      BY <1>1, <2>1 DEF Call
    <3> QED BY <1>1, <3>1
  <2>2. CASE r.pc \notin {"refresh", "apply"}
    BY <1>1, <2>2 DEF WatchOK
  <2> QED BY <2>1, <2>2
<1> QED BY <1>2, <1>3 DEF Watched

\* A call returns.
LEMMA WatchReturn ==
  ASSUME SessionsOK, Watched, NEW s \in Sessions, NEW r, Return(s, r), DOMAIN r = SessionFields,
         FreshOK(r.mem, r.fresh, work, clock), plan' = plan, work' = work, clock' = clock
  PROVE  Watched'
<1> DEFINE q == [r EXCEPT !.pc = "idle", !.at = @ + 1, !.recs = << >>,
                          !.todo = << >>, !.total = 0, !.st = NoFile]
<1>1. q.pc = "idle" /\ q.mem = r.mem /\ q.fresh = r.fresh
  BY DEF SessionFields
<1>2. Step(s, q)
  BY DEF Return
<1> HIDE DEF q
<1>3. WatchOK(q, Call(s).name, work, clock)
  BY <1>1 DEF WatchOK
<1> QED BY <1>1, <1>2, <1>3, WatchStep

\* A program stops.
LEMMA WatchStop ==
  ASSUME SessionsOK, Watched, NEW s \in Sessions, DOMAIN ses[s] = SessionFields, Stop(s),
         plan' = plan, work' = work, clock' = clock
  PROVE  Watched'
<1> DEFINE q == [ses[s] EXCEPT !.pc = "stopped"]
<1>1. q.pc = "stopped" /\ q.mem = ses[s].mem /\ q.fresh = ses[s].fresh
  BY DEF SessionFields
<1>2. Step(s, q)
  BY DEF Stop
<1> HIDE DEF q
<1>3. WatchOK(q, Call(s).name, work, clock)
  BY <1>1 DEF WatchOK, Watched
<1> QED BY <1>1, <1>2, <1>3, WatchStep

\* A step that leaves the entries and what is known of them alone.
LEMMA WatchSame ==
  ASSUME SessionsOK, Watched, NEW s \in Sessions, NEW r, Step(s, r),
         r.mem = ses[s].mem, r.fresh = ses[s].fresh, r.pc \notin {"body", "refresh", "apply"},
         plan' = plan, work' = work, clock' = clock
  PROVE  Watched'
<1>1. WatchOK(r, Call(s).name, work, clock)
  BY DEF WatchOK, Watched
<1> QED BY <1>1, WatchStep
\* A load forgets what was refreshed before it.
LEMMA WatchLoad ==
  ASSUME RefreshInv, NEW s \in Sessions, LoadOpen(s) \/ ReadHead(s) \/ ReadRecord(s) \/ ReadExtension(s) \/ ReadSum(s) PROVE Watched'
<1>0. /\ SessionsOK /\ Watched /\ DOMAIN ses[s] = SessionFields
      /\ plan' = plan /\ work' = work /\ clock' = clock
  BY DEF RefreshInv, LoadInv, SessionsOK, SessionOK, Core, LoadOpen, ReadHead, ReadRecord, ReadExtension, ReadSum
<1>1. \A mem : FreshOK(mem, NoEntries, work, clock)
  BY NoEntriesOK DEF FreshOK
<1>2. CASE LoadOpen(s)
  <2> DEFINE a == [ses[s] EXCEPT !.mem = NoEntries, !.base = NoEntries, !.fresh = NoEntries]
             b == [ses[s] EXCEPT !.pc = "head", !.total = Len(file)]
  <2>1. DOMAIN a = SessionFields /\ a.fresh = NoEntries
    BY <1>0 DEF SessionFields
  <2>2. b.mem = ses[s].mem /\ b.fresh = ses[s].fresh /\ b.pc = "head"
    BY <1>0 DEF SessionFields
  <2>3. Return(s, a) \/ Step(s, b)
    BY <1>2 DEF LoadOpen
  <2> HIDE DEF a, b
  <2> QED BY <1>0, <1>1, <2>1, <2>2, <2>3, WatchReturn, WatchSame
<1>3. CASE ReadHead(s)
  <2> DEFINE r == [ses[s] EXCEPT !.pc = "body", !.recs = Taken(s), !.mem = NoEntries, !.fresh = NoEntries]
  <2>1. r.pc = "body" /\ r.fresh = NoEntries
    BY <1>0 DEF SessionFields
  <2>2. Step(s, r) \/ Stop(s)
    BY <1>3 DEF ReadHead
  <2> HIDE DEF r
  <2>3. WatchOK(r, Call(s).name, work, clock)
    BY <1>1, <2>1, NoEntriesOK DEF WatchOK
  <2> QED BY <1>0, <2>1, <2>2, <2>3, WatchStep, WatchStop
<1>4. CASE ReadRecord(s)
  <2> DEFINE r == [ses[s] EXCEPT !.recs = Taken(s), !.mem = With(@, DecodedEntry(file[Next1(s)]))]
  <2>1. ses[s].pc = "body" /\ DOMAIN ses[s].fresh = {}
    BY <1>0, <1>4 DEF ReadRecord, AtCall, Watched, WatchOK
  <2>2. r.pc = "body" /\ r.fresh = ses[s].fresh
    BY <1>0, <2>1 DEF SessionFields
  <2>3. Step(s, r) \/ Stop(s)
    BY <1>4 DEF ReadRecord
  <2> HIDE DEF r
  <2>4. WatchOK(r, Call(s).name, work, clock)
    BY <2>1, <2>2 DEF WatchOK, FreshOK
  <2> QED BY <1>0, <2>2, <2>3, <2>4, WatchStep, WatchStop
<1>5. CASE ReadExtension(s)
  <2> DEFINE r == [ses[s] EXCEPT !.recs = Taken(s)]
  <2>1. ses[s].pc = "body" /\ DOMAIN ses[s].fresh = {}
    BY <1>0, <1>5 DEF ReadExtension, AtCall, Watched, WatchOK
  <2>2. r.pc = "body" /\ r.fresh = ses[s].fresh
    BY <1>0, <2>1 DEF SessionFields
  <2>3. Step(s, r) \/ Stop(s)
    BY <1>5 DEF ReadExtension
  <2> HIDE DEF r
  <2>4. WatchOK(r, Call(s).name, work, clock)
    BY <2>1, <2>2 DEF WatchOK, FreshOK
  <2> QED BY <1>0, <2>2, <2>3, <2>4, WatchStep, WatchStop
<1>6. CASE ReadSum(s)
  <2> DEFINE r == [ses[s] EXCEPT !.base = ses[s].mem, !.fresh = NoEntries]
  <2>1. DOMAIN r = SessionFields /\ r.fresh = NoEntries
    BY <1>0 DEF SessionFields
  <2>2. Return(s, r) \/ Stop(s)
    BY <1>6 DEF ReadSum, Loaded
  <2> HIDE DEF r
  <2> QED BY <1>0, <1>1, <2>1, <2>2, WatchReturn, WatchStop
<1> QED BY <1>2, <1>3, <1>4, <1>5, <1>6

\* An entry set by another call than refresh is not taken for refreshed.
LEMMA WatchSet ==
  ASSUME SessionsOK, Watched, NEW s \in Sessions, DOMAIN ses[s] = SessionFields, NEW e, Set(s, e),
         plan' = plan, work' = work, clock' = clock
  PROVE  Watched'
<1> DEFINE r == [ses[s] EXCEPT !.mem = With(@, e), !.fresh = Without(@, {KeyOf(e)})]
<1>1. /\ DOMAIN r = SessionFields /\ r.mem = With(ses[s].mem, e)
      /\ r.fresh = Without(ses[s].fresh, {KeyOf(e)})
  BY DEF SessionFields
<1>2. Return(s, r)
  BY DEF Set
<1> HIDE DEF r
<1>3. FreshOK(ses[s].mem, ses[s].fresh, work, clock)
  BY DEF Watched, WatchOK
<1>4. ASSUME NEW k \in DOMAIN r.fresh
      PROVE  /\ k \in DOMAIN ses[s].fresh /\ r.fresh[k] = ses[s].fresh[k]
             /\ k \in DOMAIN ses[s].mem => k \in DOMAIN r.mem /\ r.mem[k] = ses[s].mem[k]
  BY <1>1 DEF With, Without
<1>5. FreshOK(r.mem, r.fresh, work, clock)
  BY <1>3, <1>4 DEF FreshOK
<1> QED BY <1>1, <1>2, <1>5, WatchReturn

\* An entry that is dropped is dropped from both.
LEMMA WatchDrop ==
  ASSUME SessionsOK, Watched, NEW s \in Sessions, DOMAIN ses[s] = SessionFields, NEW ks, Drop(s, ks),
         plan' = plan, work' = work, clock' = clock
  PROVE  Watched'
<1> DEFINE r == [ses[s] EXCEPT !.mem = Without(@, ks), !.fresh = Without(@, ks)]
<1>1. /\ DOMAIN r = SessionFields /\ r.mem = Without(ses[s].mem, ks)
      /\ r.fresh = Without(ses[s].fresh, ks)
  BY DEF SessionFields
<1>2. Return(s, r)
  BY DEF Drop
<1> HIDE DEF r
<1>3. FreshOK(ses[s].mem, ses[s].fresh, work, clock)
  BY DEF Watched, WatchOK
<1>4. ASSUME NEW k \in DOMAIN r.fresh
      PROVE  /\ k \in DOMAIN ses[s].fresh /\ r.fresh[k] = ses[s].fresh[k]
             /\ k \in DOMAIN ses[s].mem => k \in DOMAIN r.mem /\ r.mem[k] = ses[s].mem[k]
  BY <1>1 DEF Without
<1>5. FreshOK(r.mem, r.fresh, work, clock)
  BY <1>3, <1>4 DEF FreshOK
<1> QED BY <1>1, <1>2, <1>5, WatchReturn

\* The calls that edit the entries in memory.
LEMMA WatchEdit ==
  ASSUME RefreshInv, NEW s \in Sessions, AddHash(s) \/ AddEntry(s) \/ AddBlob(s) \/ RemoveEntry(s) \/ RemoveDir(s) PROVE Watched'
<1>0. /\ SessionsOK /\ Watched /\ DOMAIN ses[s] = SessionFields
      /\ plan' = plan /\ work' = work /\ clock' = clock
  BY DEF RefreshInv, LoadInv, SessionsOK, SessionOK, Core, AddHash, AddEntry, AddBlob, RemoveEntry, RemoveDir
<1>1. CASE AddHash(s)
  <2> DEFINE h == BlobId(plan.kinds[s], ReadFile(work[Call(s).name]))
             r == [ses[s] EXCEPT !.pc = "add", !.st = h]
  <2>1. Step(s, r) \/ Stop(s)
    BY <1>1 DEF AddHash
  <2> HIDE DEF h
  <2>2. r.pc = "add" /\ r.mem = ses[s].mem /\ r.fresh = ses[s].fresh
    BY <1>0 DEF SessionFields
  <2> HIDE DEF r
  <2> QED BY <1>0, <2>1, <2>2, WatchSame, WatchStop
<1>2. CASE AddEntry(s)
  BY <1>0, <1>2, WatchSet, WatchStop DEF AddEntry
<1>3. CASE AddBlob(s)
  <2> DEFINE c == Call(s)
             b == FromBlob(c.name, BlobId(c.kind, c.data), ContentSize[c.data])
             e == [b EXCEPT !.flags.stage = c.stage, !.flags.skip = c.skip, !.flags.intent = c.intent]
  <2>1. Set(s, e)
    BY <1>3 DEF AddBlob
  <2> HIDE DEF e
  <2> QED BY <1>0, <2>1, WatchSet
<1>4. CASE RemoveEntry(s)
  BY <1>0, <1>4, WatchDrop DEF RemoveEntry
<1>5. CASE RemoveDir(s)
  BY <1>0, <1>5, WatchDrop DEF RemoveDir
<1> QED BY <1>1, <1>2, <1>3, <1>4, <1>5

\* A save leaves the entries alone.
LEMMA WatchSave ==
  ASSUME RefreshInv, NEW s \in Sessions, SaveCreate(s) \/ SaveHead(s) \/ SaveRecord(s) \/ SaveSum(s) PROVE Watched'
<1>0. /\ SessionsOK /\ Watched /\ DOMAIN ses[s] = SessionFields
      /\ plan' = plan /\ work' = work /\ clock' = clock
  BY DEF RefreshInv, LoadInv, SessionsOK, SessionOK, Core, SaveCreate, SaveHead, SaveRecord, SaveSum
<1>1. CASE SaveCreate(s)
  <2>1. ASSUME NEW es, Step(s, [ses[s] EXCEPT !.pc = "save", !.todo = es]) PROVE Watched'
    <3> DEFINE r == [ses[s] EXCEPT !.pc = "save", !.todo = es]
    <3>1. r.pc = "save" /\ r.mem = ses[s].mem /\ r.fresh = ses[s].fresh
      BY <1>0 DEF SessionFields
    <3>2. Step(s, r)
      BY <2>1
    <3> HIDE DEF r
    <3> QED BY <1>0, <3>1, <3>2, WatchSame
  <2>2. Stop(s) \/ \E es : Step(s, [ses[s] EXCEPT !.pc = "save", !.todo = es])
    BY <1>1 DEF SaveCreate
  <2> QED BY <1>0, <2>1, <2>2, WatchStop
<1>2. CASE SaveHead(s)
  <2> DEFINE r == [ses[s] EXCEPT !.recs = <<HeadRecord(ses[s].mem)>>]
  <2>1. Step(s, r) /\ ses[s].pc = "save"
    BY <1>2 DEF SaveHead, AtCall
  <2>2. r.pc = "save" /\ r.mem = ses[s].mem /\ r.fresh = ses[s].fresh
    BY <1>0, <2>1 DEF SessionFields
  <2> HIDE DEF r
  <2> QED BY <1>0, <2>1, <2>2, WatchSame
<1>3. CASE SaveRecord(s)
  <2> DEFINE r == [ses[s] EXCEPT !.recs = Append(@, EntryRecord(Head(ses[s].todo))), !.todo = Tail(@)]
  <2>1. (Step(s, r) \/ Stop(s)) /\ ses[s].pc = "save"
    BY <1>3 DEF SaveRecord, AtCall
  <2>2. r.pc = "save" /\ r.mem = ses[s].mem /\ r.fresh = ses[s].fresh
    BY <1>0, <2>1 DEF SessionFields
  <2> HIDE DEF r
  <2> QED BY <1>0, <2>1, <2>2, WatchSame, WatchStop
<1>4. CASE SaveSum(s)
  <2>1. Return(s, ses[s]) /\ FreshOK(ses[s].mem, ses[s].fresh, work, clock)
    BY <1>0, <1>4 DEF SaveSum, Watched, WatchOK
  <2> QED BY <1>0, <2>1, WatchReturn
<1> QED BY <1>1, <1>2, <1>3, <1>4

\* Refresh looks at the metadata of the file as it is in this tick.
LEMMA WatchRefreshStat ==
  ASSUME RefreshInv, NEW s \in Sessions, RefreshStat(s) PROVE Watched'
<1>0. /\ SessionsOK /\ Watched /\ Timed /\ Core(ses[s], saved) /\ DOMAIN ses[s] = SessionFields
      /\ plan \in IndexScenarios /\ plan' = plan /\ work' = work /\ clock' = clock
  BY DEF RefreshInv, LoadInv, SessionsOK, SessionOK, Core, RefreshStat
<1>1. FreshOK(ses[s].mem, ses[s].fresh, work, clock)
  BY <1>0 DEF Watched, WatchOK
<1> DEFINE n == Call(s).name
           x == Stat(work[n])
           r == [ses[s] EXCEPT !.pc = "refresh", !.total = clock, !.st = x]
<1>2. CASE Step(s, r)
  <2>1. n \in NameSet
    <3>1. /\ ses[s].at \in Nat \ {0} /\ ses[s].at <= Len(plan.calls[s])
          /\ plan.calls[s] \in Seq(Range(plan.calls[s])) /\ Call(s).op = "refresh"
      BY <1>0, CallsOK DEF RefreshStat, Calls, Core
    <3>2. ses[s].at \in DOMAIN plan.calls[s]
      BY <3>1, LenProperties
    <3> QED BY <1>0, <3>1, <3>2, CallsOK DEF Call
  <2>2. work[n].type = "file" => /\ x.ctime \in Int /\ x.ctime <= clock
                                 /\ x.size = ContentSize[work[n].data]
    BY <1>0, <2>1 DEF Timed, Stat
  <2> HIDE DEF n, x
  <2>3. /\ r.pc = "refresh" /\ r.mem = ses[s].mem /\ r.fresh = ses[s].fresh /\ r.at = ses[s].at
        /\ r.total = clock /\ r.st = x
    BY <1>0 DEF SessionFields
  <2> HIDE DEF r
  <2>4. LookedOK(r, n, work, clock)
    BY <1>0, <2>1, <2>2, <2>3 DEF LookedOK, Timed
  <2>5. WatchOK(r, Call(s).name, work, clock)
    BY <1>1, <2>3, <2>4 DEF WatchOK, n
  <2> QED BY <1>0, <1>2, <2>3, <2>5, WatchStep
<1>3. CASE Return(s, ses[s])
  BY <1>0, <1>1, <1>3, WatchReturn
<1>4. CASE Stop(s)
  BY <1>0, <1>4, WatchStop
<1> QED BY <1>2, <1>3, <1>4 DEF RefreshStat

\* Then it reads the contents: those of that tick, or of a file changed since.
LEMMA WatchRefreshRead ==
  ASSUME RefreshInv, NEW s \in Sessions, RefreshRead(s) PROVE Watched'
<1>0. /\ SessionsOK /\ Watched /\ DOMAIN ses[s] = SessionFields
      /\ plan' = plan /\ work' = work /\ clock' = clock /\ ses[s].pc = "refresh"
  BY DEF RefreshInv, LoadInv, SessionsOK, SessionOK, Core, RefreshRead, AtCall
<1> DEFINE n == Call(s).name
           x == ReadFile(work[n])
           r == [ses[s] EXCEPT !.pc = "apply", !.recs = <<x>>]
<1>1. FreshOK(ses[s].mem, ses[s].fresh, work, clock) /\ LookedOK(ses[s], n, work, clock)
  BY <1>0 DEF Watched, WatchOK
<1>2. CASE Step(s, r)
  <2>1. work[n].type = "file" => x = work[n].data
    BY DEF ReadFile
  <2> HIDE DEF n, x
  <2>2. /\ r.pc = "apply" /\ r.mem = ses[s].mem /\ r.fresh = ses[s].fresh /\ r.at = ses[s].at
        /\ r.total = ses[s].total /\ r.st = ses[s].st /\ r.recs[1] = x
    BY <1>0 DEF SessionFields
  <2> HIDE DEF r
  <2>3. LookedOK(r, n, work, clock)
    BY <1>1, <2>1, <2>2 DEF LookedOK
  <2>4. WatchOK(r, Call(s).name, work, clock)
    BY <1>1, <2>2, <2>3 DEF WatchOK, n
  <2> QED BY <1>0, <1>2, <2>2, <2>4, WatchStep
<1>3. CASE Stop(s)
  BY <1>0, <1>3, WatchStop
<1> QED BY <1>2, <1>3 DEF RefreshRead

\* The entry it sets names those contents under the earlier metadata.
LEMMA WatchRefreshApply ==
  ASSUME RefreshInv, NEW s \in Sessions, RefreshApply(s) PROVE Watched'
<1>0. /\ SessionsOK /\ Watched /\ Core(ses[s], saved) /\ DOMAIN ses[s] = SessionFields
      /\ plan' = plan /\ work' = work /\ clock' = clock /\ ses[s].pc = "apply"
      /\ Target(s) \in DOMAIN ses[s].mem
  BY DEF RefreshInv, LoadInv, SessionsOK, SessionOK, Core, RefreshApply, AtCall
<1> DEFINE n == Call(s).name
           r == Refreshed(s, ses[s].total, ses[s].st, ses[s].recs[1])
           e == NewEntry(s, ses[s].st, ses[s].recs[1])
<1>1. FreshOK(ses[s].mem, ses[s].fresh, work, clock) /\ LookedOK(ses[s], n, work, clock)
  BY <1>0 DEF Watched, WatchOK
<1>2. EntryOK(e) /\ KeyOf(e) = Target(s) /\ EntriesOK(ses[s].mem)
  BY <1>0, NewEntryIs DEF Core
<1>3. /\ DOMAIN r = SessionFields /\ r.mem = With(ses[s].mem, e)
      /\ r.fresh = NewFresh(s, ses[s].total)
  <2> DEFINE tick == ses[s].total
             seen == ses[s].st
             data == ses[s].recs[1]
  <2>1. r = Refreshed(s, tick, seen, data) /\ e = NewEntry(s, seen, data)
    OBVIOUS
  <2> HIDE DEF r, e, tick, seen, data
  <2>2. /\ DOMAIN r = SessionFields /\ r.mem = With(ses[s].mem, NewEntry(s, seen, data))
        /\ r.fresh = NewFresh(s, tick)
    BY <1>0, <2>1, RefreshedIs
  <2> QED BY <2>1, <2>2 DEF tick
<1>4. Return(s, r)
  BY DEF RefreshApply
<1>5. Target(s)[1] = n
  BY DEF Target
<1>6. /\ e.ctime = Time(ses[s].st.ctime)
      /\ e.hash = FileDigest(plan.kinds[s], ses[s].st.size, ses[s].recs[1])
  BY DEF NewEntry, FromStat
<1> HIDE DEF r, e, n
<1>7. work[n].type = "file" =>
        /\ e.ctime \in Int /\ e.ctime <= ses[s].total
        /\ work[n].ctime < ses[s].total => e.hash = BlobId(e.hash.kind, work[n].data)
  <2>1. FileDigest(plan.kinds[s], ses[s].st.size, ses[s].recs[1]).kind = plan.kinds[s]
    BY DEF FileDigest
  <2>2. ASSUME work[n].type = "file" PROVE e.ctime \in Int /\ e.ctime <= ses[s].total
    <3>1. /\ ses[s].total \in Int /\ 1 <= ses[s].total
          /\ ses[s].st.ctime \in Int /\ ses[s].st.ctime <= ses[s].total
      BY <1>1, <2>2 DEF LookedOK
    <3> QED BY <1>6, <3>1, Clamped
  <2>3. ASSUME work[n].type = "file", work[n].ctime < ses[s].total
        PROVE  e.hash = BlobId(e.hash.kind, work[n].data)
    BY <1>0, <1>1, <1>6, <2>1, <2>3 DEF LookedOK, BlobId
  <2> QED BY <2>2, <2>3
<1>8. ASSUME NEW k \in DOMAIN r.fresh
      PROVE  \/ /\ k = Target(s) /\ r.fresh[k] = ses[s].total /\ k \in DOMAIN r.mem /\ r.mem[k] = e
             \/ /\ k \in DOMAIN ses[s].fresh /\ r.fresh[k] = ses[s].fresh[k]
                /\ k \in DOMAIN ses[s].mem => k \in DOMAIN r.mem /\ r.mem[k] = ses[s].mem[k]
  <2>1. /\ DOMAIN r.mem = DOMAIN ses[s].mem \union {Target(s)} /\ r.mem[Target(s)] = e
        /\ \A j \in DOMAIN ses[s].mem : j # Target(s) => r.mem[j] = ses[s].mem[j]
    <3>1. /\ DOMAIN With(ses[s].mem, e) = DOMAIN ses[s].mem \union {KeyOf(e)}
          /\ With(ses[s].mem, e)[KeyOf(e)] = e
          /\ \A j \in DOMAIN ses[s].mem : j # KeyOf(e) => With(ses[s].mem, e)[j] = ses[s].mem[j]
      BY <1>2, WithOK
    <3> QED BY <1>2, <1>3, <3>1
  <2>2. /\ DOMAIN r.fresh = DOMAIN ses[s].fresh \union {Target(s)} /\ r.fresh[Target(s)] = ses[s].total
        /\ \A j \in DOMAIN ses[s].fresh : j # Target(s) => r.fresh[j] = ses[s].fresh[j]
    BY <1>3 DEF NewFresh
  <2> QED BY <2>1, <2>2
<1>9. FreshOK(r.mem, r.fresh, work, clock)
  <2> SUFFICES ASSUME NEW k \in DOMAIN r.fresh
               PROVE  /\ k \in DOMAIN r.mem /\ k[1] \in NameSet
                      /\ r.fresh[k] \in Int /\ 1 <= r.fresh[k] /\ r.fresh[k] <= clock
                      /\ work[k[1]].type = "file" =>
                           /\ r.mem[k].ctime \in Int /\ r.mem[k].ctime <= r.fresh[k]
                           /\ work[k[1]].ctime < r.fresh[k] =>
                                r.mem[k].hash = BlobId(r.mem[k].hash.kind, work[k[1]].data)
    BY DEF FreshOK
  <2>1. CASE k = Target(s) /\ r.fresh[k] = ses[s].total /\ k \in DOMAIN r.mem /\ r.mem[k] = e
    BY <1>1, <1>5, <1>7, <2>1 DEF LookedOK
  <2>2. CASE /\ k \in DOMAIN ses[s].fresh /\ r.fresh[k] = ses[s].fresh[k]
             /\ k \in DOMAIN ses[s].mem => k \in DOMAIN r.mem /\ r.mem[k] = ses[s].mem[k]
    BY <1>1, <2>2 DEF FreshOK
  <2> QED BY <1>8, <2>1, <2>2
<1> QED BY <1>0, <1>3, <1>4, <1>9, WatchReturn

\* A file that is changed now was not changed before any refresh so far.
LEMMA WatchChange ==
  ASSUME RefreshInv, NEW n \in NameSet, work[n].type = "file", NEW f,
         work' = [work EXCEPT ![n] = f], f.type = "file", f.ctime = clock,
         {"type", "data", "ctime", "mtime"} \subseteq DOMAIN f,
         UNCHANGED <<plan, ses, clock>>
  PROVE  Timed' /\ Watched'
<1>1. Timed /\ Watched
  BY DEF RefreshInv
<1>2. DOMAIN work' = NameSet /\ work'[n] = f /\ \A m \in NameSet \ {n} : work'[m] = work[m]
  BY <1>1 DEF Timed
<1>3. Timed'
  BY <1>1, <1>2 DEF Timed
<1>4. ASSUME NEW s \in Sessions PROVE WatchOK(ses[s], Call(s).name, work', clock)
  <2>1. WatchOK(ses[s], Call(s).name, work, clock) /\ clock \in Int
    BY <1>1 DEF Watched, Timed
  <2>2. FreshOK(ses[s].mem, ses[s].fresh, work', clock)
    <3> SUFFICES ASSUME NEW k \in DOMAIN ses[s].fresh
                 PROVE  /\ k \in DOMAIN ses[s].mem /\ k[1] \in NameSet
                        /\ ses[s].fresh[k] \in Int /\ 1 <= ses[s].fresh[k] /\ ses[s].fresh[k] <= clock
                        /\ work'[k[1]].type = "file" =>
                             /\ ses[s].mem[k].ctime \in Int /\ ses[s].mem[k].ctime <= ses[s].fresh[k]
                             /\ work'[k[1]].ctime < ses[s].fresh[k] =>
                                  ses[s].mem[k].hash = BlobId(ses[s].mem[k].hash.kind, work'[k[1]].data)
      BY DEF FreshOK
    <3>1. CASE k[1] = n
      <4>1. /\ k \in DOMAIN ses[s].mem /\ k[1] \in NameSet
            /\ ses[s].fresh[k] \in Int /\ 1 <= ses[s].fresh[k] /\ ses[s].fresh[k] <= clock
            /\ ses[s].mem[k].ctime \in Int /\ ses[s].mem[k].ctime <= ses[s].fresh[k]
        BY <2>1, <3>1 DEF WatchOK, FreshOK
      <4>2. ~(work'[k[1]].ctime < ses[s].fresh[k])
        BY <1>2, <2>1, <3>1, <4>1, Ticks
      <4> QED BY <4>1, <4>2
    <3>2. CASE k[1] # n
      <4>1. k[1] \in NameSet
        BY <2>1 DEF WatchOK, FreshOK
      <4>2. work'[k[1]] = work[k[1]]
        BY <1>2, <3>2, <4>1
      <4> QED BY <2>1, <4>1, <4>2 DEF WatchOK, FreshOK
    <3> QED BY <3>1, <3>2
  <2>3. ASSUME ses[s].pc \in {"refresh", "apply"} PROVE LookedOK(ses[s], Call(s).name, work', clock)
    <3>1. LookedOK(ses[s], Call(s).name, work, clock)
      BY <2>1, <2>3 DEF WatchOK
    <3>2. CASE Call(s).name = n
      <4>1. /\ ses[s].total \in Int /\ 1 <= ses[s].total /\ ses[s].total <= clock
            /\ ses[s].st.ctime \in Int /\ ses[s].st.ctime <= ses[s].total
        BY <3>1, <3>2 DEF LookedOK
      <4>2. ~(work'[n].ctime < ses[s].total)
        BY <1>2, <2>1, <4>1, Ticks
      <4> QED BY <3>2, <4>1, <4>2 DEF LookedOK
    <3>3. CASE Call(s).name # n
      BY <1>2, <3>1, <3>3 DEF LookedOK
    <3> QED BY <3>2, <3>3
  <2> QED BY <2>1, <2>2, <2>3 DEF WatchOK
<1>5. Watched'
  <2>1. \A s \in Sessions : Call(s)' = Call(s)
    BY DEF Call
  <2> QED BY <1>4, <2>1 DEF Watched
<1> QED BY <1>3, <1>5

\* The clock only makes what was seen older.
LEMMA WatchTick == ASSUME RefreshInv, Tick PROVE Timed' /\ Watched'
<1>1. Timed /\ Watched /\ clock \in Nat /\ clock' = clock + 1 /\ UNCHANGED <<plan, ses, work>>
  BY DEF RefreshInv, Timed, Tick
<1>2. Timed'
  BY <1>1 DEF Timed
<1>3. ASSUME NEW s \in Sessions PROVE WatchOK(ses[s], Call(s).name, work, clock')
  <2>1. WatchOK(ses[s], Call(s).name, work, clock)
    BY <1>1 DEF Watched
  <2>2. \A c \in Int : c <= clock => c <= clock'
    BY <1>1, Ticks
  <2>3. FreshOK(ses[s].mem, ses[s].fresh, work, clock')
    BY <2>1, <2>2 DEF WatchOK, FreshOK
  <2>4. LookedOK(ses[s], Call(s).name, work, clock) => LookedOK(ses[s], Call(s).name, work, clock')
    BY <2>2 DEF LookedOK
  <2> QED BY <2>1, <2>3, <2>4 DEF WatchOK
<1>4. Watched'
  <2>1. \A s \in Sessions : Call(s)' = Call(s)
    BY <1>1 DEF Call
  <2> QED BY <1>1, <1>3, <2>1 DEF Watched
<1> QED BY <1>2, <1>4

\* Nothing has been refreshed at the start.
LEMMA RefreshInvInit == IndexInit => RefreshInv
<1> SUFFICES ASSUME IndexInit PROVE RefreshInv
  OBVIOUS
<1>1. ses = [s \in Sessions |-> NewSession] /\ work = InitWork /\ clock = 1
  BY DEF IndexInit, IndexStart
<1>2. NewSession.pc = "idle" /\ NewSession.fresh = NoEntries
  BY DEF NewSession
<1>3. Timed
  BY <1>1, WorkOK DEF Timed
<1>4. Watched
  BY <1>1, <1>2, NoEntriesOK DEF Watched, WatchOK, FreshOK
<1> QED BY <1>3, <1>4, LoadInvInit DEF RefreshInv

\* Every step keeps RefreshInv.
LEMMA RefreshInvNext == RefreshInv /\ [IndexNext]_indexVars => RefreshInv'
<1> SUFFICES ASSUME RefreshInv, [IndexNext]_indexVars PROVE RefreshInv'
  OBVIOUS
<1>1. LoadInv'
  BY LoadInvNext DEF RefreshInv
<1> SUFFICES Timed' /\ Watched'
  BY <1>1 DEF RefreshInv
<1>2. ASSUME UNCHANGED <<work, clock>> PROVE Timed'
  BY <1>2 DEF RefreshInv, Timed
<1>3. ASSUME NEW s \in Sessions, Program(s) PROVE Timed' /\ Watched'
  <2>1. UNCHANGED <<work, clock>>
    BY <1>3 DEF Program, LoadOpen, ReadHead, ReadRecord, ReadExtension, ReadSum, AddHash, AddEntry,
       AddBlob, RemoveEntry, RemoveDir, RefreshStat, RefreshRead, RefreshApply,
       SaveCreate, SaveHead, SaveRecord, SaveSum
  <2>2. Watched'
    BY <1>3, WatchLoad, WatchEdit, WatchSave, WatchRefreshStat, WatchRefreshRead,
       WatchRefreshApply DEF Program
  <2> QED BY <1>2, <2>1, <2>2
<1>4. ASSUME NEW s \in Sessions, Crash(s) PROVE Timed' /\ Watched'
  <2>1. Stop(s) /\ plan' = plan /\ work' = work /\ clock' = clock
    BY <1>4 DEF Crash
  <2>2. SessionsOK /\ Watched /\ DOMAIN ses[s] = SessionFields
    BY DEF RefreshInv, LoadInv, SessionsOK, SessionOK, Core
  <2> QED BY <1>2, <2>1, <2>2, WatchStop
<1>5. ASSUME NEW n \in NameSet, NEW c, Edit(n, c) PROVE Timed' /\ Watched'
  <2> DEFINE f == [work[n] EXCEPT !.data = c, !.ctime = clock, !.mtime = clock]
  <2>1. work' = [work EXCEPT ![n] = f] /\ work[n].type = "file" /\ UNCHANGED <<plan, ses, clock>>
    BY <1>5 DEF Edit
  <2>2. {"type", "data", "ctime", "mtime"} \subseteq DOMAIN work[n]
    BY <2>1 DEF RefreshInv, Timed
  <2>3. f.type = "file" /\ f.ctime = clock /\ DOMAIN f = DOMAIN work[n]
    BY <2>1, <2>2
  <2> HIDE DEF f
  <2> QED BY <2>1, <2>2, <2>3, WatchChange
<1>6. ASSUME NEW n \in NameSet, Touch(n) PROVE Timed' /\ Watched'
  <2> DEFINE f == [work[n] EXCEPT !.ctime = clock, !.mtime = -1]
  <2>1. work' = [work EXCEPT ![n] = f] /\ work[n].type = "file" /\ UNCHANGED <<plan, ses, clock>>
    BY <1>6 DEF Touch
  <2>2. {"type", "data", "ctime", "mtime"} \subseteq DOMAIN work[n]
    BY <2>1 DEF RefreshInv, Timed
  <2>3. f.type = "file" /\ f.ctime = clock /\ DOMAIN f = DOMAIN work[n]
    BY <2>1, <2>2
  <2> HIDE DEF f
  <2> QED BY <2>1, <2>2, <2>3, WatchChange
<1>7. CASE UNCHANGED indexVars
  <2>1. Watched'
    BY <1>7 DEF RefreshInv, Watched, Call, indexVars
  <2>2. UNCHANGED <<work, clock>>
    BY <1>7 DEF indexVars
  <2> QED BY <1>2, <2>1, <2>2
<1>8. CASE IndexNext
  <2>1. CASE \E s \in Sessions : Program(s) \/ Crash(s)
    BY <1>3, <1>4, <2>1
  <2>2. CASE \E n \in NameSet : (\E c \in Contents : Edit(n, c)) \/ Touch(n)
    BY <1>5, <1>6, <2>2
  <2> QED BY <1>8, <2>1, <2>2, WatchTick DEF IndexNext
<1> QED BY <1>7, <1>8

\* RefreshHonest for every number of programs, edits and ticks: a refreshed
\* entry that is_modified takes for unchanged names the contents of its file,
\* save in the tick in which the refresh looked at it.
THEOREM RefreshSafety == IndexSpec => []RefreshHonest
<1>1. RefreshInv => RefreshHonest
  <2> SUFFICES ASSUME RefreshInv, NEW s \in Sessions, NEW k \in DOMAIN ses[s].fresh,
                      work[k[1]].type = "file", ~IsModified(ses[s].mem[k], work[k[1]]),
                      work[k[1]].ctime # ses[s].fresh[k]
               PROVE  ses[s].mem[k].hash = BlobId(ses[s].mem[k].hash.kind, work[k[1]].data)
    BY DEF RefreshHonest
  <2>1. /\ k[1] \in NameSet /\ ses[s].fresh[k] \in Int /\ 1 <= ses[s].fresh[k]
        /\ ses[s].mem[k].ctime \in Int /\ ses[s].mem[k].ctime <= ses[s].fresh[k]
        /\ work[k[1]].ctime < ses[s].fresh[k] =>
             ses[s].mem[k].hash = BlobId(ses[s].mem[k].hash.kind, work[k[1]].data)
    BY DEF RefreshInv, Watched, WatchOK, FreshOK
  <2>2. work[k[1]].ctime \in Int
    BY <2>1 DEF RefreshInv, Timed
  <2>3. ses[s].mem[k].ctime = Time(work[k[1]].ctime)
    BY DEF IsModified
  <2>4. ~(ses[s].fresh[k] < work[k[1]].ctime)
    BY <2>1, <2>2, <2>3, Clamped
  <2>5. work[k[1]].ctime < ses[s].fresh[k]
    BY <2>1, <2>2, <2>4, Ticks
  <2> QED BY <2>1, <2>5
<1> QED BY <1>1, RefreshInvInit, RefreshInvNext, PTL DEF IndexSpec
=============================================================================
