--------------------------- MODULE GitServerProofs ---------------------------
(***************************************************************************)
(* KindSafe of GitServer, for any number of workers, requests and           *)
(* repositories of one object format, whatever kind other code sets on the  *)
(* worker threads in between: while a fetch collects its objects, before    *)
(* its producer is started, and between any two steps of a push.            *)
(***************************************************************************)
EXTENDS GitServer, TLAPS

TheKind == CHOOSE k \in {"sha1", "sha256"}: \A p \in Repos: Format[p] = k

Fields == {"pc", "at", "local", "seen", "phase", "todo", "want", "have", "haves", "known",
           "next", "status"}
Acting == {"store", "create", "write", "update", "stream", "answered"}
Unbound == {"idle", "detect", "refused", "gone"}
Storing == {"store", "create", "write"}

\* A task that has not begun or has ended holds nothing; one that waits for its
\* repository's format knows the repository; any other is bound to the one
\* kind, and one that acts last ran on a thread set to it.
TaskOK(s, q) ==
  /\ DOMAIN s = Fields
  /\ s.phase \in {"want", "have"}
  /\ s.pc \notin {"idle", "refused", "gone"} => q.repo \in Repos
  /\ s.pc \notin Unbound => s.local = TheKind
  /\ s.pc \in Acting => s.seen = s.local

\* A task bound to the one kind, on whatever thread it runs.
Bound(s, q) ==
  /\ DOMAIN s = Fields
  /\ s.phase \in {"want", "have"}
  /\ q.repo \in Repos
  /\ s.local = TheKind

\* A task that passed a kind check in the step it is taking.
Checked(s, q) == Bound(s, q) /\ s.seen = s.local

\* A task that is not storing objects after this step.
Moved(r) == \E s: srv' = [srv EXCEPT ![r] = s] /\ s.pc \notin Storing

TasksOK == DOMAIN srv = Requests /\ \A r \in Requests: TaskOK(srv[r], req[r])
Configured == global \in [Processes -> {None, TheKind}]

\* A thread that stores objects is set to the one kind.
Pinned ==
  /\ DOMAIN tls = Threads
  /\ \A r \in Requests: srv[r].pc \in Storing => srv[r].at \in Threads /\ tls[srv[r].at] = TheKind

KindInv == TasksOK /\ Configured /\ Pinned

-----------------------------------------------------------------------------
\* Every repository has the one kind.
LEMMA TheKindIs == /\ TheKind \in {"sha1", "sha256"}
                   /\ \A p \in Repos: Format[p] = TheKind
  BY OneFormat DEF TheKind

\* What detect_hash_kind returns for a repository of the server.
LEMMA DetectedIs ==
  ASSUME NEW r \in Requests, req[r].repo \in Repos PROVE Detected(r) = TheKind
  BY TheKindIs DEF Detected

\* One task moves, the others stay.
LEMMA BecomeKeeps ==
  ASSUME TasksOK, NEW r \in Requests, NEW s, TaskOK(s, req[r]), Become(r, s), UNCHANGED req
  PROVE  TasksOK'
  BY DEF TasksOK, Become, TaskOK

\* A refused task holds nothing.
LEMMA RefuseKeeps ==
  ASSUME TasksOK, NEW r \in Requests, Refuse(r), UNCHANGED req PROVE TasksOK' /\ Moved(r)
<1> DEFINE s == [srv[r] EXCEPT !.pc = "refused", !.at = None]
<1>1. srv' = [srv EXCEPT ![r] = s]
  BY DEF Refuse, TasksOK
<1>2. TaskOK(srv[r], req[r])
  BY DEF TasksOK
<1>3. TaskOK(s, req[r]) /\ s.pc \notin Storing
  BY <1>2 DEF TaskOK, Fields, Unbound, Acting, Storing
<1> HIDE DEF s
<1> QED BY <1>1, <1>3, BecomeKeeps DEF Become, Moved

\* The kind of a thread in the middle of storing objects stays: other code, and
\* requests that arrive, run on threads that are free.
LEMMA MovedKeeps ==
  ASSUME TasksOK, Pinned, NEW r \in Requests, Moved(r),
         UNCHANGED tls \/ \E t \in Threads: \E k: Free(t) /\ tls' = [tls EXCEPT ![t] = k],
         UNCHANGED <<req>>
  PROVE  Pinned'
  BY DEF TasksOK, Pinned, Moved, Free, Threads

\* Collecting goes on, or the producer is started: the stream begins only on a
\* thread of the bound kind.
LEMMA WalkKeeps ==
  ASSUME TasksOK, NEW r \in Requests, NEW s, Bound(s, req[r]), Walk(r, s), UNCHANGED req
  PROVE  TasksOK' /\ Moved(r)
<1> DEFINE todo == Unvisited(s.todo, s[s.phase])
           a == [s EXCEPT !.pc = "collect", !.todo = todo]
           b == [s EXCEPT !.pc = "collect", !.phase = "have", !.todo = s.haves]
           c == [s EXCEPT !.pc = "stream", !.todo = << >>]
<1>1. TaskOK(a, req[r]) /\ a.pc \notin Storing
  BY DEF TaskOK, Bound, Fields, Unbound, Acting, Storing
<1>2. TaskOK(b, req[r]) /\ b.pc \notin Storing
  BY DEF TaskOK, Bound, Fields, Unbound, Acting, Storing
<1>3. s.seen = s.local => TaskOK(c, req[r]) /\ c.pc \notin Storing
  BY DEF TaskOK, Bound, Fields, Unbound, Acting, Storing
<1>4. Become(r, a) \/ Become(r, b) \/ (s.seen = s.local /\ Become(r, c)) \/ Refuse(r)
  BY DEF Walk
<1> HIDE DEF a, b, c
<1> QED BY <1>1, <1>2, <1>3, <1>4, BecomeKeeps, RefuseKeeps DEF Moved, Become

\* Reading a fetch request under the bound kind.
LEMMA NegotiateKeeps ==
  ASSUME TasksOK, NEW r \in Requests, NEW s, Checked(s, req[r]), Negotiate(r, s), UNCHANGED req
  PROVE  TasksOK' /\ Moved(r)
<1> DEFINE begun == [s EXCEPT !.todo = Asked(req[r].lines, "want"),
                              !.haves = Asked(req[r].lines, "have"), !.next = 1]
           e == [begun EXCEPT !.pc = "exist"]
<1>1. Bound(begun, req[r])
  BY DEF Checked, Bound, Fields
<1>2. TaskOK(e, req[r]) /\ e.pc \notin Storing
  BY <1>1 DEF TaskOK, Bound, Fields, Unbound, Acting, Storing
<1>3. Refuse(r) \/ Walk(r, begun) \/ Become(r, e)
  BY DEF Negotiate
<1> HIDE DEF begun, e
<1> QED BY <1>1, <1>2, <1>3, BecomeKeeps, RefuseKeeps, WalkKeeps DEF Moved, Become

\* A request is bound to the kind its process is configured for.
LEMMA StartKeeps ==
  ASSUME TasksOK, NEW r \in Requests, req[r].repo \in Repos, Start(r, TheKind), UNCHANGED req
  PROVE  TasksOK' /\ Moved(r)
<1> DEFINE s == [srv[r] EXCEPT !.local = TheKind, !.seen = TheKind]
           a == [s EXCEPT !.pc = "refs"]
           b == [s EXCEPT !.pc = "drain"]
<1>1. Checked(s, req[r])
  BY DEF TasksOK, TaskOK, Checked, Bound, Fields
<1>2. TaskOK(a, req[r]) /\ a.pc \notin Storing
  BY <1>1 DEF TaskOK, Checked, Bound, Fields, Unbound, Acting, Storing
<1>3. TaskOK(b, req[r]) /\ b.pc \notin Storing
  BY <1>1 DEF TaskOK, Checked, Bound, Fields, Unbound, Acting, Storing
<1>4. Become(r, a) \/ Negotiate(r, s) \/ Become(r, b)
  BY DEF Start
<1> HIDE DEF s, a, b
<1> QED BY <1>1, <1>2, <1>3, <1>4, BecomeKeeps, NegotiateKeeps DEF Moved, Become

\* A check passed on the thread the task runs on: it goes on under its kind.
LEMMA CheckedHere ==
  ASSUME TasksOK, NEW r \in Requests, NEW t, srv[r].pc \notin Unbound, Consistent(r, t)
  PROVE  Checked([srv[r] EXCEPT !.seen = tls[t]], req[r])
  BY DEF TasksOK, TaskOK, Checked, Bound, Consistent, Fields, Unbound

\* From a checked task to any place but the unbound ones.
LEMMA CheckedAt ==
  ASSUME NEW s, NEW q, Checked(s, q), NEW p
  PROVE  /\ TaskOK([s EXCEPT !.pc = p], q) /\ [s EXCEPT !.pc = p].pc = p
         /\ \A x, y: TaskOK([s EXCEPT !.pc = p, !.at = x, !.todo = y], q)
  BY DEF TaskOK, Checked, Bound, Fields

\* A checked task that moves on to anything but storing.
LEMMA PassKeeps ==
  ASSUME TasksOK, NEW r \in Requests, NEW s, Checked(s, req[r]), NEW p, p \notin Storing,
         Become(r, [s EXCEPT !.pc = p]), UNCHANGED req
  PROVE  TasksOK' /\ Moved(r)
<1> DEFINE d == [s EXCEPT !.pc = p]
<1>1. TaskOK(d, req[r]) /\ d.pc \notin Storing
  BY CheckedAt
<1>2. Become(r, d)
  OBVIOUS
<1> HIDE DEF d
<1> QED BY <1>1, <1>2, BecomeKeeps DEF Moved, Become

\* The loop over the commands checks the kind before each one and the report.
LEMMA UpdateNextKeeps ==
  ASSUME TasksOK, NEW r \in Requests, NEW t, NEW s,
         Consistent(r, t) => Checked(s, req[r]), UpdateNext(r, t, s), UNCHANGED req
  PROVE  TasksOK' /\ Moved(r)
<1>1. CASE ~Consistent(r, t)
  BY <1>1, RefuseKeeps DEF UpdateNext
<1>2. CASE Consistent(r, t)
  <2>1. Become(r, [s EXCEPT !.pc = "answered"]) \/ Become(r, [s EXCEPT !.pc = "update"])
    BY <1>2 DEF UpdateNext, Answer
  <2>2. "answered" \notin Storing /\ "update" \notin Storing
    BY DEF Storing
  <2> QED BY <1>2, <2>1, <2>2, PassKeeps
<1> QED BY <1>1, <1>2

-----------------------------------------------------------------------------
(* One lemma per group of actions                                           *)

\* A request arrives, or its repository's format has been read.
LEMMA ArriveKeeps ==
  ASSUME KindInv, NEW r \in Requests, NEW t \in Threads, Arrive(r, t)
  PROVE  KindInv'
<1>1. UNCHANGED <<req, global>>
  BY DEF Arrive
<1>2. Configured'
  BY <1>1 DEF KindInv, Configured
<1>3. UNCHANGED tls \/ \E u \in Threads: \E k: Free(u) /\ tls' = [tls EXCEPT ![u] = k]
  BY DEF Arrive, Runs
<1> SUFFICES TasksOK' /\ Moved(r)
  BY <1>1, <1>2, <1>3, MovedKeeps DEF KindInv
<1>4. CASE req[r].repo \notin Repos
  BY <1>1, <1>4, RefuseKeeps DEF Arrive, KindInv
<1>5. CASE req[r].repo \in Repos /\ global[ProcessOf(r)] = None
  <2> DEFINE s == [srv[r] EXCEPT !.pc = "detect"]
  <2>1. TaskOK(s, req[r]) /\ s.pc \notin Storing
    BY <1>5 DEF KindInv, TasksOK, TaskOK, Fields, Unbound, Acting, Storing
  <2>2. Become(r, s)
    BY <1>5 DEF Arrive
  <2> HIDE DEF s
  <2> QED BY <1>1, <2>1, <2>2, BecomeKeeps DEF KindInv, Moved, Become
<1>6. CASE req[r].repo \in Repos /\ global[ProcessOf(r)] # None
  <2>1. global[ProcessOf(r)] = TheKind
    BY <1>6 DEF KindInv, Configured, ProcessOf, Processes
  <2>2. Start(r, TheKind)
    BY <1>6, <2>1 DEF Arrive
  <2> QED BY <1>1, <1>6, <2>2, StartKeeps DEF KindInv
<1> QED BY <1>4, <1>5, <1>6

\* git config has answered: the process is configured for the one kind.
LEMMA DetectKeeps ==
  ASSUME KindInv, NEW r \in Requests, NEW t \in Threads, Detect(r, t)
  PROVE  KindInv'
<1>1. req[r].repo \in Repos /\ UNCHANGED req
  BY DEF Detect, Runs, KindInv, TasksOK, TaskOK
<1>2. Detected(r) = TheKind
  BY <1>1, DetectedIs
<1>3. ProcessOf(r) \in Processes
  BY DEF ProcessOf, Processes
<1>4. UNCHANGED tls \/ \E u \in Threads: \E k: Free(u) /\ tls' = [tls EXCEPT ![u] = k]
  BY DEF Detect, Runs
<1>5. CASE Refuse(r) /\ UNCHANGED global
  BY <1>1, <1>4, <1>5, RefuseKeeps, MovedKeeps DEF KindInv, Configured
<1>6. CASE global' = [global EXCEPT ![ProcessOf(r)] = TheKind] /\ Start(r, TheKind)
  <2>1. TasksOK' /\ Pinned'
    BY <1>1, <1>4, <1>6, StartKeeps, MovedKeeps DEF KindInv
  <2>2. Configured'
    BY <1>6 DEF KindInv, Configured
  <2> QED BY <2>1, <2>2 DEF KindInv
<1> QED BY <1>2, <1>3, <1>5, <1>6 DEF Detect, KindInv, Configured

\* Refs are advertised, or the session reads its request.
LEMMA RefsKeeps ==
  ASSUME TasksOK, NEW r \in Requests, NEW t \in Threads, Refs(r, t) \/ ReadRequest(r, t)
  PROVE  TasksOK' /\ Moved(r)
<1> DEFINE s == [srv[r] EXCEPT !.seen = tls[t]]
<1>1. UNCHANGED req /\ srv[r].pc \notin Unbound
  BY DEF Refs, ReadRequest, Runs, Unbound
<1>2. CASE ~Consistent(r, t)
  BY <1>1, <1>2, RefuseKeeps DEF Refs, ReadRequest
<1>3. CASE Consistent(r, t)
  <2>1. Checked(s, req[r])
    BY <1>1, <1>3, CheckedHere
  <2>2. \/ Refuse(r) \/ Negotiate(r, s)
        \/ \E p \in {"answered", "request", "drain"}: Become(r, [s EXCEPT !.pc = p])
    BY <1>3 DEF Refs, ReadRequest, Answer
  <2>3. \A p \in {"answered", "request", "drain"}: p \notin Storing
    BY DEF Storing
  <2> HIDE DEF s
  <2>4. CASE \E p \in {"answered", "request", "drain"}: Become(r, [s EXCEPT !.pc = p])
    BY <1>1, <2>1, <2>3, <2>4, PassKeeps
  <2> QED BY <1>1, <2>1, <2>2, <2>4, RefuseKeeps, NegotiateKeeps
<1> QED BY <1>2, <1>3

\* A have is looked up.
LEMMA ExistKeeps ==
  ASSUME TasksOK, NEW r \in Requests, NEW t \in Threads, Exist(r, t)
  PROVE  TasksOK' /\ Moved(r)
<1> DEFINE found == CommitExists(r, srv[r].haves[srv[r].next])
           after == [srv[r] EXCEPT !.next = @ + 1, !.known = @ \/ found, !.seen = tls[t]]
<1>1. UNCHANGED req /\ srv[r].pc = "exist"
  BY DEF Exist, Runs
<1>2. TaskOK(after, req[r]) /\ after.pc \notin Storing
  BY <1>1 DEF TasksOK, TaskOK, Fields, Unbound, Acting, Storing
<1>3. Bound(after, req[r])
  BY <1>1 DEF TasksOK, TaskOK, Bound, Fields, Unbound
<1>4. Become(r, after) \/ Walk(r, after) \/ Refuse(r)
  BY DEF Exist
<1> HIDE DEF after
<1> QED BY <1>1, <1>2, <1>3, <1>4, BecomeKeeps, WalkKeeps, RefuseKeeps DEF Moved, Become

\* An object is read, on whatever thread, and its references queued.
LEMMA CollectKeeps ==
  ASSUME TasksOK, NEW r \in Requests, NEW t \in Threads, Collect(r, t)
  PROVE  TasksOK' /\ Moved(r)
<1> DEFINE s == [srv[r] EXCEPT !.seen = tls[t]]
           o == Head(s.todo)
           after == [s EXCEPT ![s.phase] = @ \union {o}, !.todo = Following(o, Tail(s.todo))]
<1>1. UNCHANGED req /\ srv[r].pc = "collect"
  BY DEF Collect, Runs
<1>2. Bound(s, req[r])
  BY <1>1 DEF TasksOK, TaskOK, Bound, Fields, Unbound
<1>3. Walk(r, after) \/ Refuse(r)
  BY DEF Collect
<1>4. Bound(after, req[r])
  <2> HIDE DEF s, o
  <2>1. CASE s.phase = "want"
    BY <1>2, <2>1 DEF Bound, Fields
  <2>2. CASE s.phase = "have"
    BY <1>2, <2>2 DEF Bound, Fields
  <2> QED BY <1>2, <2>1, <2>2 DEF Bound
<1> HIDE DEF after
<1> QED BY <1>1, <1>3, <1>4, WalkKeeps, RefuseKeeps

\* The request has been drained: the kind is checked, on the thread that then
\* stores the objects, before anything is stored.
LEMMA DrainKeeps ==
  ASSUME TasksOK, Pinned, NEW r \in Requests, NEW t \in Threads, Drain(r, t)
  PROVE  TasksOK' /\ Pinned'
<1> DEFINE s == [srv[r] EXCEPT !.seen = tls[t]]
           d == [s EXCEPT !.pc = "default"]
           e == [s EXCEPT !.pc = "store", !.at = t, !.todo = Unpacked(req[r].pack)]
<1>1. UNCHANGED <<req, tls>> /\ srv[r].pc \notin Unbound
  BY DEF Drain, Runs, Unbound
<1>2. Consistent(r, t) => Checked(s, req[r])
  BY <1>1, CheckedHere
<1>3. Refuse(r) \/ (Consistent(r, t) /\ (Become(r, d) \/ Become(r, e)))
  BY DEF Drain
<1>4. CASE Refuse(r)
  BY <1>1, <1>4, RefuseKeeps, MovedKeeps
<1>5. CASE Consistent(r, t) /\ Become(r, d)
  <2>1. "default" \notin Storing
    BY DEF Storing
  <2> HIDE DEF s
  <2> QED BY <1>1, <1>2, <1>5, <2>1, PassKeeps, MovedKeeps
<1>6. CASE Consistent(r, t) /\ Become(r, e)
  <2>1. TaskOK(e, req[r])
    BY <1>2, <1>6, CheckedAt
  <2>2. e.at = t /\ tls[t] = TheKind
    BY <1>2, <1>6 DEF Checked, Bound, Fields, Consistent
  <2> HIDE DEF e
  <2>3. Pinned'
    BY <1>1, <1>6, <2>2 DEF Pinned, Become, TasksOK, Threads
  <2> QED BY <1>1, <1>6, <2>1, <2>3, BecomeKeeps
<1> QED BY <1>3, <1>4, <1>5, <1>6

\* Commands: the default branch is known, or update-ref has ended.
LEMMA CommandKeeps ==
  ASSUME TasksOK, NEW r \in Requests, NEW t \in Threads, DefaultBranch(r, t) \/ Updated(r, t)
  PROVE  TasksOK' /\ Moved(r)
<1> DEFINE a == [srv[r] EXCEPT !.seen = tls[t]]
           b == [srv[r] EXCEPT !.seen = tls[t], !.next = @ + 1,
                               !.status = Append(@, git[r].out)]
<1>1. UNCHANGED req /\ srv[r].pc \notin Unbound
  BY DEF DefaultBranch, Updated, Runs, Unbound
<1>2. Consistent(r, t) => Checked(a, req[r])
  BY <1>1, CheckedHere
<1>3. Consistent(r, t) => Checked(b, req[r])
  BY <1>1 DEF TasksOK, TaskOK, Checked, Bound, Consistent, Fields, Unbound
<1>4. UpdateNext(r, t, a) \/ UpdateNext(r, t, b)
  BY DEF DefaultBranch, Updated
<1> HIDE DEF a, b
<1> QED BY <1>1, <1>2, <1>3, <1>4, UpdateNextKeeps

\* Objects are written without another check: the thread is blocked.
LEMMA StoreKeeps ==
  ASSUME TasksOK, Pinned, NEW r \in Requests, StoreStep(r) \/ StoreFails(r) \/ DrainFails(r)
  PROVE  TasksOK' /\ Pinned'
<1> DEFINE a == [srv[r] EXCEPT !.todo = Tail(@)]
           b == [srv[r] EXCEPT !.pc = "create"]
           c == [srv[r] EXCEPT !.pc = "write"]
           d == [srv[r] EXCEPT !.pc = "store", !.todo = Tail(@)]
           e == [srv[r] EXCEPT !.pc = "default", !.at = None]
<1>1. UNCHANGED <<req, tls>>
  BY DEF StoreStep, StoreObject, CreateFile, WriteFile, StoreDone, StoreFails, DrainFails
<1>2. CASE StoreFails(r) \/ DrainFails(r)
  BY <1>1, <1>2, RefuseKeeps, MovedKeeps DEF StoreFails, DrainFails
<1>3. CASE StoreStep(r)
  <2>1. srv[r].pc \in Storing /\ TaskOK(srv[r], req[r])
    BY <1>3 DEF StoreStep, StoreObject, CreateFile, WriteFile, StoreDone, TasksOK, Storing
  <2>2. TaskOK(a, req[r]) /\ TaskOK(b, req[r]) /\ TaskOK(c, req[r])
    BY <2>1 DEF TaskOK, Fields, Unbound, Acting, Storing
  <2>3. TaskOK(d, req[r]) /\ TaskOK(e, req[r]) /\ e.pc \notin Storing
    BY <2>1 DEF TaskOK, Fields, Unbound, Acting, Storing
  <2>4. a.at = srv[r].at /\ b.at = srv[r].at /\ c.at = srv[r].at /\ d.at = srv[r].at
    BY <2>1 DEF TaskOK, Fields
  <2>5. Become(r, a) \/ Become(r, b) \/ Become(r, c) \/ Become(r, d) \/ Become(r, e)
    BY <1>3 DEF StoreStep, StoreObject, CreateFile, WriteFile, StoreDone
  <2> HIDE DEF a, b, c, d, e
  <2>6. CASE Become(r, e)
    BY <1>1, <2>3, <2>6, BecomeKeeps, MovedKeeps DEF Moved, Become
  <2>7. CASE \E s: Become(r, s) /\ TaskOK(s, req[r]) /\ s.at = srv[r].at
    <3>1. PICK s: Become(r, s) /\ TaskOK(s, req[r]) /\ s.at = srv[r].at
      BY <2>7
    <3>2. Pinned'
      BY <1>1, <2>1, <3>1 DEF Pinned, Become, TasksOK, Threads
    <3> QED BY <1>1, <3>1, <3>2, BecomeKeeps
  <2> QED BY <2>2, <2>3, <2>4, <2>5, <2>6, <2>7
<1> QED BY <1>2, <1>3

\* The client goes away.
LEMMA DisconnectKeeps ==
  ASSUME TasksOK, Pinned, NEW r \in Requests, Disconnect(r) PROVE TasksOK' /\ Pinned'
<1>1. UNCHANGED <<req, tls>>
  BY DEF Disconnect
<1>2. CASE UNCHANGED srv
  BY <1>1, <1>2 DEF TasksOK, Pinned, Threads
<1>3. CASE srv' = [srv EXCEPT ![r].pc = "gone"]
  <2> DEFINE s == [srv[r] EXCEPT !.pc = "gone"]
  <2>1. TaskOK(s, req[r]) /\ s.pc \notin Storing
    BY DEF TasksOK, TaskOK, Fields, Unbound, Acting, Storing
  <2>2. Become(r, s)
    BY <1>3 DEF Become, TasksOK
  <2> HIDE DEF s
  <2> QED BY <1>1, <2>1, <2>2, BecomeKeeps, MovedKeeps DEF Moved, Become
<1> QED BY <1>2, <1>3 DEF Disconnect

-----------------------------------------------------------------------------
\* Nothing is bound at the start.
LEMMA KindInvInit == Init => KindInv
<1> SUFFICES ASSUME Init PROVE KindInv
  OBVIOUS
<1>1. TasksOK
  BY DEF Init, TasksOK, TaskOK, NewTask, Fields, Unbound, Acting
<1>2. Configured
  BY DEF Init, Configured
<1>3. Pinned
  BY DEF Init, Pinned, NewTask, Storing
<1> QED BY <1>1, <1>2, <1>3 DEF KindInv

\* Every step, of the server, its clients and other code, keeps KindInv.
LEMMA KindInvNext == KindInv /\ [Next]_vars => KindInv'
<1> SUFFICES ASSUME KindInv, [Next]_vars PROVE KindInv'
  OBVIOUS
<1>1. CASE UNCHANGED vars
  BY <1>1 DEF vars, KindInv, TasksOK, Configured, Pinned, Processes, Threads
<1>2. ASSUME NEW r \in Requests, NEW t \in Threads, Arrive(r, t) PROVE KindInv'
  BY <1>2, ArriveKeeps
<1>3. ASSUME NEW r \in Requests, NEW t \in Threads, Resume(r, t) PROVE KindInv'
  <2>1. CASE Detect(r, t)
    BY <2>1, DetectKeeps
  <2>2. CASE Drain(r, t)
    <3>1. UNCHANGED global
      BY <2>2 DEF Drain
    <3> QED BY <2>2, <3>1, DrainKeeps DEF KindInv, Configured
  <2>3. CASE ~Detect(r, t) /\ ~Drain(r, t)
    <3>1. UNCHANGED <<req, tls, global>>
      BY <1>3, <2>3 DEF Resume, Refs, ReadRequest, Exist, Collect, DefaultBranch, Updated
    <3>2. TasksOK' /\ Moved(r)
      BY <1>3, <2>3, RefsKeeps, ExistKeeps, CollectKeeps, CommandKeeps DEF Resume, KindInv
    <3> QED BY <3>1, <3>2, MovedKeeps DEF KindInv, Configured
  <2> QED BY <2>1, <2>2, <2>3
<1>4. ASSUME NEW r \in Requests, StoreStep(r) \/ StoreFails(r) \/ DrainFails(r) PROVE KindInv'
  <2>1. UNCHANGED global
    BY <1>4 DEF StoreStep, StoreObject, CreateFile, WriteFile, StoreDone, StoreFails, DrainFails
  <2> QED BY <1>4, <2>1, StoreKeeps DEF KindInv, Configured
<1>5. ASSUME NEW r \in Requests, UpdateRef(r) \/ Streaming(r) PROVE KindInv'
  <2>1. UNCHANGED <<req, srv, tls, global>>
    BY <1>5 DEF UpdateRef, Streaming, servVars
  <2> QED BY <2>1 DEF KindInv, TasksOK, Configured, Pinned, Processes, Threads
<1>6. ASSUME NEW r \in Requests, Disconnect(r) PROVE KindInv'
  <2>1. UNCHANGED global
    BY <1>6 DEF Disconnect
  <2> QED BY <1>6, <2>1, DisconnectKeeps DEF KindInv, Configured
<1>7. ASSUME NEW t \in Workers, NEW k \in Kinds, SetHashKind(t, k) PROVE KindInv'
  <2>1. UNCHANGED <<req, srv, global>> /\ Free(t) /\ tls' = [tls EXCEPT ![t] = k]
    BY <1>7 DEF SetHashKind
  <2>2. Pinned'
    BY <2>1 DEF KindInv, Pinned, Free, Threads
  <2> QED BY <2>1, <2>2 DEF KindInv, TasksOK, Configured
<1> QED BY <1>1, <1>2, <1>3, <1>4, <1>5, <1>6, <1>7 DEF Next

\* Whatever kinds other code sets on the workers and wherever tasks resume, a
\* request stores objects, updates refs, streams a pack or answers only under
\* its repository's own object format, checked on the thread it last ran on,
\* and hashes what it stores on a thread that still has that format.  Objects
\* are read on threads of any kind; the check after the collection decides.
THEOREM KindSafety == Spec => []KindSafe
<1>1. KindInv => KindSafe
  BY TheKindIs DEF KindInv, TasksOK, TaskOK, Pinned, KindSafe, Unbound, Acting, Storing
<1> QED BY <1>1, KindInvInit, KindInvNext, PTL DEF Spec
=============================================================================
