------------------------------- MODULE GitServer -------------------------------
(***************************************************************************)
(* A smart protocol server: the example HTTP server (requests are tasks     *)
(* that may resume on any worker thread after an await) and the example SSH *)
(* server (one process per session), SmartProtocol and PackGenerator behind *)
(* them, and the repositories on disk, which they read through git and      *)
(* write object by object.  A step runs a task from one await to the next.  *)
(*                                                                          *)
(* FsRepository does not override object_hash_kind, so the kind a request   *)
(* sees is the thread-local one of the worker it runs on: another request,  *)
(* or other code of the process, may have set it in between.                *)
(***************************************************************************)
EXTENDS PackStream

CONSTANTS Workers,    \* worker threads of the HTTP server
          Repos,      \* repositories under the server's root
          Format,     \* Format[p]: extensions.objectformat of repository p
          Graph,      \* Graph[o]: type and references of object o
          Reparsed,   \* Reparsed[o]: o parsed and serialised again, None if it does not parse
          Listed,     \* Listed[o]: tree o as read from git's listing of it, None likewise
          Scenarios,  \* possible requests, one record for each element of Requests
          InitDisk,   \* the repositories at the start
          MaxSets     \* bound: kind changes by code outside the server

\* The repositories of one server share an object format that git has: once a
\* kind is configured Arrive uses it for every repository, unread.
ASSUME OneFormat == \E k \in {"sha1", "sha256"}: \A p \in Repos: Format[p] = k

VARIABLES req,        \* req[r]: what the client sends
          srv,        \* srv[r]: the task serving it
          tls,        \* tls[t]: the thread-local hash kind of thread t
          global,     \* global[p]: GLOBAL_HASH_KIND of process p
          disk,       \* disk[p]: objects, half-written objects and refs
          git,        \* git[r]: the update-ref process of request r
          sets        \* kind changes so far

servVars == <<req, srv, tls, global, disk, git, sets>>
vars == <<req, srv, tls, global, disk, git, sets, strm, client>>

Kinds == {"sha1", "sha256", "blake3"}
HexLen(k) == IF k = "sha1" THEN 40 ELSE 64
Objects == DOMAIN Graph
Zero == "zero"
None == "none"
Foreign == "foreign"

Processes == {"http"} \union Requests
ProcessOf(r) == IF req[r].via = "http" THEN "http" ELSE r
Threads == Workers \union Requests
ThreadsOf(r) == IF req[r].via = "http" THEN Workers ELSE {r}

\* A worker in the middle of blocking file writes runs nothing else.
Free(t) == \A r \in Requests: srv[r].at # t

-----------------------------------------------------------------------------
(* The object graph.  References of a commit have mode "tree" or "parent",  *)
(* those of a tree the TreeItemMode of the entry.                           *)

RefsOf(o, modes) ==
  LET refs == SelectSeq(Graph[o].refs, LAMBDA x: x.mode \in modes)
  IN  [i \in DOMAIN refs |-> refs[i].id]

\* What a commit or a tree cannot do without: everything it names except the
\* commits of submodules.
Needs(o) == Range(RefsOf(o, {"tree", "parent", "blob", "exec", "link", "tagged"}))

\* What an object reaches: what every set with it and closed under Needs has.
Closed == {C \in SUBSET Objects: \A x \in C: Needs(x) \subseteq C}
Reach == [o \in Objects |-> {x \in Objects: \A C \in Closed: o \in C => x \in C}]

\* The walk of collect_all_objects: a commit's tree is walked at once, its
\* parents join the queue; a tree's entries are walked in order.  Entries of
\* the modes Link and Commit are passed over.
Following(o, rest) ==
  IF Graph[o].type = "commit"
  THEN RefsOf(o, {"tree"}) \o rest \o RefsOf(o, {"parent"})
  ELSE RefsOf(o, {"tree", "blob", "exec"}) \o rest

Unvisited(todo, seen) == SelectSeq(todo, LAMBDA o: o \notin seen)

-----------------------------------------------------------------------------
(* What the client's bytes say                                              *)

\* Object IDs are checked for the width of the wire kind only.
ParseWireId(ids, kind) == HexLen(ids) = HexLen(kind)

\* The object-format capability, when sent, must be the bound kind.
WireOk(q, kind) ==
  /\ ParseWireId(q.ids, kind)
  /\ q.fmt \in {None, kind}

\* The want and have lines up to the first flush or done; what follows is not
\* read.
Considered(lines) ==
  LET stops == {i \in DOMAIN lines: lines[i].cmd \in {"flush", "done"}}
      last == IF stops = {} THEN Len(lines) ELSE Min(stops) - 1
  IN  SubSeq(lines, 1, last)

Asked(lines, cmd) ==
  LET ls == SelectSeq(Considered(lines), LAMBDA l: l.cmd = cmd)
  IN  [i \in DOMAIN ls |-> ls[i].id]

\* Commands up to a flush, each an old and a new ID and a name.
CommandsOk(q, kind) == WireOk(q, kind) /\ q.flush

\* Blobs, trees, commits, each in the order of the pack and as its parsed form
\* is serialised again; entries that do not parse, and those of any other type,
\* are dropped with a warning.
Unpacked(pack) ==
  LET OfType(t) == LET os == SelectSeq(pack, LAMBDA o: Graph[o].type = t /\ Reparsed[o] # None)
                   IN  [i \in DOMAIN os |-> Reparsed[os[i]]]
  IN  OfType("blob") \o OfType("tree") \o OfType("commit")

-----------------------------------------------------------------------------
(* Initial state                                                            *)

NewTask ==
  [pc |-> "idle", at |-> None, local |-> None, seen |-> None, phase |-> "want",
   todo |-> << >>, want |-> {}, have |-> {}, haves |-> << >>, known |-> FALSE,
   next |-> 1, status |-> << >>]

NoProcess == [i |-> 0, out |-> None]

Init ==
  /\ StreamInit
  /\ req \in Scenarios
  /\ srv = [r \in Requests |-> NewTask]
  /\ tls = [t \in Threads |-> "sha1"]
  /\ global = [p \in Processes |-> None]
  /\ disk = InitDisk
  /\ git = [r \in Requests |-> NoProcess]
  /\ sets = 0

Repo(r) == disk[req[r].repo]
Become(r, s) == srv' = [srv EXCEPT ![r] = s]
Refuse(r) == srv' = [srv EXCEPT ![r].pc = "refused", ![r].at = None]
Answer(r, s) == Become(r, [s EXCEPT !.pc = "answered"])

\* ensure_hash_kind_consistency on thread t: the repository's kind is the
\* thread-local one, and the wire kind and zero ID never leave the bound kind.
Consistent(r, t) == tls[t] = srv[r].local

\* A task resumes on a thread of its process.
Runs(r, t, pc) == srv[r].pc = pc /\ t \in ThreadsOf(r) /\ Free(t)

-----------------------------------------------------------------------------
(* Fetch: negotiation, collection, stream                                   *)

\* What the server makes of an object it reads through git cat-file -p: a commit
\* or blob is printed as it is, a tree as a listing, where names may be quoted
\* and from which the tree is built anew.
Readback(o) == IF Graph[o].type = "tree" THEN Listed[o] ELSE Reparsed[o]

\* The ID a fetch goes by: computed for a tree, the requested one otherwise.
IdOf(o) == IF Graph[o].type = "tree" THEN Listed[o] ELSE o

\* What the client has is left out of an incremental pack; the rest is sent as
\* it was read back.
FilterObjects(want, have) ==
  SetToSeq({Readback(o) : o \in {x \in want: IdOf(x) \notin {IdOf(h) : h \in have}}})

\* Collection goes on with the next unvisited object, turns from the wants to
\* the haves of an incremental pack, or ends: what the client has is filtered
\* out and the producer started.  Only then is the kind of the thread checked
\* again: when it has drifted the request is refused and the response dropped,
\* with the producer already running.
Walk(r, s) ==
  LET todo == Unvisited(s.todo, s[s.phase])
      entries == FilterObjects(s.want, s.have)
  IN  IF todo # << >>
      THEN Become(r, [s EXCEPT !.pc = "collect", !.todo = todo]) /\ UNCHANGED strm
      ELSE IF s.phase = "want" /\ s.known
           THEN Become(r, [s EXCEPT !.pc = "collect", !.phase = "have", !.todo = s.haves])
                /\ UNCHANGED strm
           ELSE IF s.seen = s.local
                THEN Become(r, [s EXCEPT !.pc = "stream", !.todo = << >>]) /\ Spawn(r, entries)
                ELSE Refuse(r) /\ SpawnDropped(r, entries)

\* Reading the request: wants and haves; without haves a full pack, otherwise
\* each have is looked up first.
Negotiate(r, s) ==
  LET wants == Asked(req[r].lines, "want")
      haves == Asked(req[r].lines, "have")
      begun == [s EXCEPT !.todo = wants, !.haves = haves, !.next = 1]
  IN  IF ~WireOk(req[r], s.local)
      THEN Refuse(r) /\ UNCHANGED strm
      ELSE IF haves = << >>
           THEN Walk(r, begun)
           ELSE Become(r, [begun EXCEPT !.pc = "exist"]) /\ UNCHANGED strm

\* commit_exists: has_object, then a parse; what does not parse counts as absent.
CommitExists(r, h) ==
  /\ h \in Repo(r).store
  /\ Graph[h].type = "commit"
  /\ Readback(h) # None

\* One have is looked up; after the last one the kind is checked.
Exist(r, t) ==
  /\ Runs(r, t, "exist")
  /\ LET s == srv[r]
         found == CommitExists(r, s.haves[s.next])
         after == [s EXCEPT !.next = @ + 1, !.known = @ \/ found, !.seen = tls[t]]
     IN  IF s.next < Len(s.haves)
         THEN Become(r, after) /\ UNCHANGED strm
         ELSE IF Consistent(r, t)
              THEN Walk(r, after)
              ELSE Refuse(r) /\ UNCHANGED strm
  /\ UNCHANGED <<req, tls, global, disk, git, sets, client>>

\* get_commit, get_tree or get_blob finds the object and it parses; wants and
\* haves must be commits.  IDs are read by their width, but the one of a tree
\* with entries is computed under the kind of the thread, and must be of the
\* bound one.
Fetched(r, t, o) ==
  /\ o \in Repo(r).store
  /\ o \in Range(Asked(req[r].lines, "want") \o srv[r].haves) => Graph[o].type = "commit"
  /\ Readback(o) # None
  /\ Graph[o].type = "tree" /\ Graph[o].refs # << >> => Consistent(r, t)

Collect(r, t) ==
  /\ Runs(r, t, "collect")
  /\ LET s == [srv[r] EXCEPT !.seen = tls[t]]
         o == Head(s.todo)
     IN  IF Fetched(r, t, o)
         THEN Walk(r, [s EXCEPT ![s.phase] = @ \union {o}, !.todo = Following(o, Tail(s.todo))])
         ELSE Refuse(r) /\ UNCHANGED strm
  /\ UNCHANGED <<req, tls, global, disk, git, sets, client>>

-----------------------------------------------------------------------------
(* Requests arrive: the repository is resolved, the hash kind configured,   *)
(* the handler bound to it, and the operation started                       *)

Start(r, k) ==
  LET s == [srv[r] EXCEPT !.local = k, !.seen = k]
  IN  IF req[r].via = "ssh" \/ req[r].service = "info"
      THEN Become(r, [s EXCEPT !.pc = "refs"]) /\ UNCHANGED strm
      ELSE IF req[r].service = "fetch"
           THEN Negotiate(r, s)
           ELSE Become(r, [s EXCEPT !.pc = "drain"]) /\ UNCHANGED strm

\* Once a kind is configured it is used for every repository, unread.
Arrive(r, t) ==
  /\ Runs(r, t, "idle")
  /\ LET known == global[ProcessOf(r)]
     IN  IF req[r].repo \notin Repos
         THEN Refuse(r) /\ UNCHANGED <<tls, strm>>
         ELSE IF known = None
              THEN Become(r, [srv[r] EXCEPT !.pc = "detect"]) /\ UNCHANGED <<tls, strm>>
              ELSE /\ tls' = [tls EXCEPT ![t] = known]
                   /\ Start(r, known)
  /\ UNCHANGED <<req, global, disk, git, sets, client>>

\* Only sha256 is recognised; anything else is served as sha1.
Detected(r) == IF Format[req[r].repo] = "sha256" THEN "sha256" ELSE "sha1"

\* git config returns: the first request to get here fixes the kind, a later
\* one of another format is refused.
Detect(r, t) ==
  /\ Runs(r, t, "detect")
  /\ LET p == ProcessOf(r)
         k == IF global[p] = None THEN Detected(r) ELSE global[p]
     IN  IF k # Detected(r)
         THEN Refuse(r) /\ UNCHANGED <<tls, global, strm>>
         ELSE /\ global' = [global EXCEPT ![p] = k]
              /\ tls' = [tls EXCEPT ![t] = k]
              /\ Start(r, k)
  /\ UNCHANGED <<req, disk, git, sets, client>>

\* get_repository_refs returns.  Each ID must have the wire kind's width; the
\* refs are advertised, and an SSH session goes on to read its request.
Refs(r, t) ==
  /\ Runs(r, t, "refs")
  /\ LET s == [srv[r] EXCEPT !.seen = tls[t]]
         empty == \A n \in DOMAIN Repo(r).refs: Repo(r).refs[n] = Zero
         fits == empty \/ HexLen(Format[req[r].repo]) = HexLen(s.local)
     IN  IF ~(Consistent(r, t) /\ fits)
         THEN Refuse(r)
         ELSE IF req[r].service = "info"
              THEN Answer(r, s)
              ELSE Become(r, [s EXCEPT !.pc = IF req[r].service = "fetch" THEN "request" ELSE "drain"])
  /\ UNCHANGED <<req, tls, global, disk, git, sets, strm, client>>

\* An SSH session has read an upload-pack request up to its flush or done.
ReadRequest(r, t) ==
  /\ Runs(r, t, "request")
  /\ IF Consistent(r, t)
     THEN Negotiate(r, [srv[r] EXCEPT !.seen = tls[t]])
     ELSE Refuse(r) /\ UNCHANGED strm
  /\ UNCHANGED <<req, tls, global, disk, git, sets, client>>

-----------------------------------------------------------------------------
(* Push: drain, unpack, store, update refs, report                          *)

\* Fault: no check between draining the request and storing its objects.
Drain_Unchecked(r, t) ==
  /\ Runs(r, t, "drain")
  /\ LET s == [srv[r] EXCEPT !.seen = tls[t]]
         q == req[r]
     IN  IF ~CommandsOk(q, s.local)
         THEN Refuse(r)
         ELSE IF q.pack = << >>
              THEN Become(r, [s EXCEPT !.pc = "default"])
              ELSE IF q.whole /\ q.ids = s.local
                   THEN Become(r, [s EXCEPT !.pc = "store", !.at = t, !.todo = Unpacked(q.pack)])
                   ELSE Refuse(r)
  /\ UNCHANGED <<req, tls, global, disk, git, sets, strm, client>>

\* The request stream has ended.  The kind is checked, commands are parsed,
\* the pack is decoded against the bound kind, the kind checked again (on the
\* same thread), and storing begins; it blocks the thread.
Drain(r, t) ==
  /\ Runs(r, t, "drain")
  /\ LET s == [srv[r] EXCEPT !.seen = tls[t]]
         q == req[r]
     IN  IF ~(Consistent(r, t) /\ CommandsOk(q, s.local))
         THEN Refuse(r)
         ELSE IF q.pack = << >>
              THEN Become(r, [s EXCEPT !.pc = "default"])
              ELSE IF q.whole /\ q.ids = s.local
                   THEN Become(r, [s EXCEPT !.pc = "store", !.at = t, !.todo = Unpacked(q.pack)])
                   ELSE Refuse(r)
  /\ UNCHANGED <<req, tls, global, disk, git, sets, strm, client>>

\* The request stream yields an error.
DrainFails(r) ==
  /\ srv[r].pc = "drain"
  /\ Refuse(r)
  /\ UNCHANGED <<req, tls, global, disk, git, sets, strm, client>>

\* The ID of the object to store is computed again, under the thread's kind.
Rehashed(r) == IF tls[srv[r].at] = srv[r].local THEN Head(srv[r].todo) ELSE Foreign

\* write_loose_object: an object whose file exists is not written again; the
\* test, the creation of the file and its filling are separate steps.
StoreObject(r) ==
  /\ srv[r].pc = "store" /\ srv[r].todo # << >>
  /\ LET s == srv[r]
         there == Rehashed(r) \in Repo(r).store \union Repo(r).torn
     IN  Become(r, IF there THEN [s EXCEPT !.todo = Tail(@)] ELSE [s EXCEPT !.pc = "create"])
  /\ UNCHANGED <<req, tls, global, disk, git, sets, strm, client>>

CreateFile(r) ==
  /\ srv[r].pc = "create"
  /\ Become(r, [srv[r] EXCEPT !.pc = "write"])
  /\ LET o == Rehashed(r)
     IN  disk' = [disk EXCEPT ![req[r].repo].store = @ \ {o}, ![req[r].repo].torn = @ \union {o}]
  /\ UNCHANGED <<req, tls, global, git, sets, strm, client>>

WriteFile(r) ==
  /\ srv[r].pc = "write"
  /\ LET o == Rehashed(r)
     IN  disk' = [disk EXCEPT ![req[r].repo].store = @ \union {o}, ![req[r].repo].torn = @ \ {o}]
  /\ Become(r, [srv[r] EXCEPT !.pc = "store", !.todo = Tail(@)])
  /\ UNCHANGED <<req, tls, global, git, sets, strm, client>>

\* Fault: a failed write is skipped over.
StoreFails_Ignored(r) ==
  /\ srv[r].pc \in {"create", "write"}
  /\ Become(r, [srv[r] EXCEPT !.pc = "store", !.todo = Tail(@)])
  /\ UNCHANGED <<req, tls, global, disk, git, sets, strm, client>>

\* Creating or filling the file fails: the push is refused, objects already
\* stored stay, and so does a half-written file.
StoreFails(r) ==
  /\ srv[r].pc \in {"create", "write"}
  /\ Refuse(r)
  /\ UNCHANGED <<req, tls, global, disk, git, sets, strm, client>>

StoreDone(r) ==
  /\ srv[r].pc = "store" /\ srv[r].todo = << >>
  /\ Become(r, [srv[r] EXCEPT !.pc = "default", !.at = None])
  /\ UNCHANGED <<req, tls, global, disk, git, sets, strm, client>>

\* The loop over the commands: the kind is checked, then update-ref started;
\* after the last command it is checked again, before and after the hook, and
\* the report goes out.
UpdateNext(r, t, s) ==
  IF ~Consistent(r, t)
  THEN Refuse(r) /\ git' = [git EXCEPT ![r] = NoProcess]
  ELSE IF s.next > Len(req[r].cmds)
       THEN Answer(r, s) /\ git' = [git EXCEPT ![r] = NoProcess]
       ELSE /\ Become(r, [s EXCEPT !.pc = "update"])
            /\ git' = [git EXCEPT ![r] = [i |-> s.next, out |-> "runs"]]

\* has_default_branch returns; which branch is the default is only noted.
DefaultBranch(r, t) ==
  /\ Runs(r, t, "default")
  /\ UpdateNext(r, t, [srv[r] EXCEPT !.seen = tls[t]])
  /\ UNCHANGED <<req, tls, global, disk, sets, strm, client>>

\* git update-ref: the old value is compared unless the command creates the
\* ref, and the new object must exist.  The process outlives its request.
UpdateRef(r) ==
  /\ git[r].out = "runs"
  /\ LET c == req[r].cmds[git[r].i]
         fits == /\ c.old \in {Zero, Repo(r).refs[c.name]}
                 /\ c.new = Zero \/ c.new \in Repo(r).store
     IN  /\ git' = [git EXCEPT ![r].out = IF fits THEN "ok" ELSE "ng"]
         /\ disk' = IF fits THEN [disk EXCEPT ![req[r].repo].refs[c.name] = c.new] ELSE disk
  /\ UNCHANGED <<req, srv, tls, global, sets, strm, client>>

\* update_reference returns: its outcome is a line of the report.
Updated(r, t) ==
  /\ Runs(r, t, "update") /\ git[r].out \in {"ok", "ng"}
  /\ UpdateNext(r, t, [srv[r] EXCEPT !.seen = tls[t], !.next = @ + 1,
                                     !.status = Append(@, git[r].out)])
  /\ UNCHANGED <<req, tls, global, disk, sets, strm, client>>

-----------------------------------------------------------------------------
(* The environment                                                          *)

\* The client goes away: its task is dropped at an await, its stream dropped.
Waiting == {"detect", "refs", "request", "exist", "collect", "drain", "default", "update"}

Disconnect(r) ==
  /\ \/ srv[r].pc \in Waiting /\ srv' = [srv EXCEPT ![r].pc = "gone"]
     \/ srv[r].pc = "stream" /\ UNCHANGED srv
  /\ HangUp(r)
  /\ UNCHANGED <<req, tls, global, disk, git, sets>>

\* set_hash_kind by other code that runs on a worker.
SetHashKind(t, k) ==
  /\ t \in Workers /\ Free(t) /\ sets < MaxSets /\ tls[t] # k
  /\ tls' = [tls EXCEPT ![t] = k]
  /\ sets' = sets + 1
  /\ UNCHANGED <<req, srv, global, disk, git, strm, client>>

-----------------------------------------------------------------------------
(* Specification                                                            *)

Resume(r, t) ==
  \/ Detect(r, t) \/ Refs(r, t) \/ ReadRequest(r, t)
  \/ Exist(r, t) \/ Collect(r, t)
  \/ Drain(r, t) \/ DefaultBranch(r, t) \/ Updated(r, t)

StoreStep(r) == StoreObject(r) \/ CreateFile(r) \/ WriteFile(r) \/ StoreDone(r)

\* The producer's tasks run whatever became of the request; the transport polls
\* a response that was begun.
Produce(r) == StreamStep(r) \/ (srv[r].pc = "stream" /\ (Poll(r) \/ PollEnd(r)))
Streaming(r) == (Produce(r) \/ EncodeFails(r)) /\ UNCHANGED servVars

Next ==
  \/ \E r \in Requests, t \in Threads: Arrive(r, t) \/ Resume(r, t)
  \/ \E r \in Requests:
       StoreStep(r) \/ StoreFails(r) \/ DrainFails(r) \/ UpdateRef(r) \/ Streaming(r) \/ Disconnect(r)
  \/ \E t \in Workers, k \in Kinds: SetHashKind(t, k)

\* The runtime resumes a task whose await is over, git processes end, the
\* producer's tasks are polled and the transport reads the response.
Fairness ==
  \A r \in Requests:
    /\ WF_vars(\E t \in Threads: Resume(r, t))
    /\ WF_vars(StoreStep(r))
    /\ WF_vars(UpdateRef(r))
    /\ WF_vars(Produce(r) /\ UNCHANGED servVars)

Spec == Init /\ [][Next]_vars /\ Fairness

-----------------------------------------------------------------------------
(* Properties                                                               *)

\* Whatever a request does to a repository or hands to a client (advertised
\* refs, a pack, stored objects, ref updates, a report) it does under the
\* repository's own object format, and on a thread set to that format, although
\* objects are collected on drifted threads and a producer may be started on
\* one; the thread keeps the format until all objects of a push are hashed.
KindSafe ==
  \A r \in Requests:
    /\ srv[r].pc \in {"store", "create", "write", "update", "stream", "answered"} =>
         /\ srv[r].local = Format[req[r].repo]
         /\ srv[r].seen = srv[r].local
    /\ srv[r].pc \in {"store", "create", "write"} => tls[srv[r].at] = Format[req[r].repo]

\* Objects are on disk before a ref names them, however pushes, failures and
\* disconnections interleave: of everything a ref reaches, the file exists, or
\* the file of what the server's parser and serialiser make of it.  Missing is
\* only what does not parse, which a push drops before it updates the ref.
RefsClosed ==
  \A p \in Repos: \A n \in DOMAIN disk[p].refs:
    disk[p].refs[n] # Zero =>
      \A o \in Reach[disk[p].refs[n]]:
        \/ {o, Reparsed[o]} \intersect (disk[p].store \union disk[p].torn) # {}
        \/ Reparsed[o] = None

\* A client whose response ended without an Err item has every object its
\* wants reach, as the server reads it back, together with what it had; a
\* producer that failed never looks like the end of a pack.
CloneComplete ==
  \A r \in Requests:
    client[r].end = "clean" /\ req[r].service = "fetch" =>
      \A o \in Range(Asked(req[r].lines, "want")): \A x \in Reach[o]:
        Readback(x) \in client[r].got \union {Readback(h) : h \in req[r].has}

\* Every request that arrived is over at last: answered, refused or abandoned,
\* with its stream read to the end or dropped, and no task, git process or
\* blocked thread left behind.
Over(r) ==
  /\ srv[r].pc \in {"answered", "refused", "gone", "stream"}
  /\ srv[r].pc = "stream" => client[r].end # "open"
  /\ StreamEnded(r)
  /\ git[r].out # "runs"

SessionEnds == \A r \in Requests: srv[r].pc # "idle" ~> Over(r)
=============================================================================
