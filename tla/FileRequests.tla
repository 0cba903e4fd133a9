---------------------------- MODULE FileRequests ----------------------------
(***************************************************************************)
(* What the file server does with a request: Server::handle and the        *)
(* handlers it calls, of crates/dufs-core/src/server.rs, with parse_range  *)
(* (utils.rs) and the streams of http_utils.rs.                            *)
(*                                                                         *)
(* A handler runs from await to await, and between two of them other       *)
(* handlers change the same files: each action here is what happens after  *)
(* one await.  The disk maps paths to files, and an open file stays what   *)
(* it is when its path is given to another or removed.  A file's content   *)
(* is a sequence of blocks.                                                *)
(*                                                                         *)
(* Abstractions: removing a tree, creating a path of directories, copying  *)
(* a file and collecting the names for a listing are one step each.  There *)
(* are no symbolic links, no hidden names, and no rendering of index.html  *)
(* instead of listings: the application turns none of them on.  Two        *)
(* changes of a file never get the same time stamp.                        *)
(***************************************************************************)
EXTENDS AccessRules, Integers, FiniteSets

CONSTANTS
  Paths,         \* the paths of the share: sequences of names, prefix-closed
  Shares,        \* what the owner may set up: see ShareOK
  MaxRequests,   \* bound: requests
  MaxFiles,      \* bound: files that exist or are open at once
  ResumableMin,  \* RESUMABLE_UPLOAD_MIN_SIZE, in blocks
  Word           \* number of values of a u64

Handlers == 1..MaxRequests
Files    == 1..MaxFiles
Absent   == 0
Folder   == -1

\* A share: its grants and the rules they make, its switches and what is on the
\* disk at the beginning.
ShareOK(s) ==
  /\ {s.upload, s.delete, s.search, s.archive} \subseteq BOOLEAN
  /\ s.rules.open \in BOOLEAN /\ RulesOK(s.own, s.visitors, s.rules)
  /\ s.tree \in [Paths -> {"none", "dir", "file"}]

\* A block of content: whose it is, and its number.
Owners == {"old", "new", "page", "agent", "hole"}
Blocks == Owners \X Nat

\* What the handlers rely on in a request.
IsVisitor(who) == who = [login |-> who.login, right |-> who.right, token |-> who.token]
AskOK(a) ==
  /\ a.path \in Paths /\ a.dest \in Paths
  /\ a.body \in Seq(Blocks)
  /\ a.range.a \in Nat /\ a.range.b \in Nat
  /\ IsVisitor(a.who)

ASSUME FileRequestsAssumption ==
  /\ Paths \subseteq Seq(STRING) /\ IsFiniteSet(Paths)
  /\ <<>> \in Paths
  /\ \A p \in Paths : Prefixes(p) \subseteq Paths
  /\ MaxRequests \in Nat /\ MaxFiles \in Nat /\ ResumableMin \in Nat
  /\ Word \in Nat \ {0}
  /\ \A s \in Shares : ShareOK(s)

VARIABLES
  share,    \* what the owner set up
  disk,     \* [entry : path -> Absent, Folder or file; data, stamp : per file]
  clock,    \* the stamp of the last change of a file
  restarts, \* how often the share was restarted
  ask,      \* per handler: its request
  hand,     \* per handler: where it is and what it holds
  gone,     \* per handler: its client is not there any more
  reply     \* per handler: the answer

diskVars == <<disk, clock>>
vars == <<share, disk, clock, restarts, ask, hand, gone, reply>>

\* step; what fs::metadata said; the file open, or 0; blocks of the body taken,
\* or the next block to read; where it writes, or blocks left to send.
Free == [step |-> "none", kind |-> "none", size |-> 0, file |-> 0, at |-> 0, goal |-> 0]
NoReply == [status |-> 0, shown |-> {}, part |-> <<>>, size |-> 0, stamp |-> 0,
            whole |-> TRUE]

-----------------------------------------------------------------------------
(* The disk.                                                               *)

Parent(p) == SubSeq(p, 1, Len(p) - 1)
IsFile(e) == e > 0
Children(d, p) == {q \in Paths : Len(q) = Len(p) + 1 /\ IsPrefix(p, q)
                                 /\ d.entry[q] # Absent}

\* A number for a new file: of one that has no path and that nobody has open.
Unused(f) == (\A p \in Paths : disk.entry[p] # f) /\ (\A h \in Handlers : hand[h].file # f)
Room      == \E f \in Files : Unused(f)
FreeFile  == CHOOSE f \in Files : Unused(f)

\* The size of what is at p: for a directory some number that is no matter.
SizeAt(d, p) == IF IsFile(d.entry[p]) THEN Len(d.data[d.entry[p]]) ELSE 0

Touched(d, f, data) ==
  [d EXCEPT !.data[f] = data, !.stamp[f] = clock + 1]

WithEntry(d, p, e) == [d EXCEPT !.entry[p] = e]

\* fs::create_dir_all
CanMakeDirs(d, p) == \A q \in Prefixes(p) : ~IsFile(d.entry[q])
MakeDirs(d, p) ==
  [d EXCEPT !.entry = [q \in Paths |-> IF IsPrefix(q, p) THEN Folder ELSE @[q]]]

\* ensure_path_parent; the parent of the share itself exists.
CanEnsureParent(d, p) ==
  p = <<>> \/ d.entry[Parent(p)] # Absent \/ CanMakeDirs(d, Parent(p))
EnsureParent(d, p) ==
  IF p = <<>> \/ d.entry[Parent(p)] # Absent THEN d ELSE MakeDirs(d, Parent(p))

\* fs::remove_dir_all and fs::remove_file
Cleared(d, p) ==
  [d EXCEPT !.entry = [q \in Paths |-> IF IsPrefix(p, q) THEN Absent ELSE @[q]]]

\* fs::rename: a file replaces a file, a directory an empty directory.
CanRename(d, p, q) ==
  /\ d.entry[p] # Absent
  /\ q # <<>> /\ d.entry[Parent(q)] = Folder
  /\ p # q => ~IsPrefix(p, q)
  /\ d.entry[p] = Folder => p = q \/ d.entry[q] = Absent
                            \/ (d.entry[q] = Folder /\ Children(d, q) = {})
  /\ IsFile(d.entry[p]) => d.entry[q] # Folder
\* Faulty: what is in a directory stays behind.
RenamedAlone(d, p, q) ==
  IF p = q THEN d ELSE [d EXCEPT !.entry[q] = d.entry[p], !.entry[p] = Absent]

Renamed(d, p, q) ==
  IF p = q THEN d
  ELSE [d EXCEPT !.entry = [r \in Paths |->
          LET from == p \o SubSeq(r, Len(q) + 1, Len(r))
          IN  IF IsPrefix(q, r) THEN IF from \in Paths THEN @[from] ELSE Absent
              ELSE IF IsPrefix(p, r) THEN Absent ELSE @[r]]]

-----------------------------------------------------------------------------
(* Ranges and the decision what to do.                                     *)

NoRange == [kind |-> "none", a |-> 0, b |-> 0]

\* parse_range for one range: from a to b, from a on (b is Word), the last a.
ParseRange(r, size) ==
  CASE r.kind = "last" ->
         [ok |-> r.a =< size, start |-> (size - r.a) % Word, end |-> (size - 1) % Word]
    [] r.kind = "from" ->
         [ok |-> r.a < size /\ (r.b = Word \/ (r.b < size /\ r.a =< r.b)),
          start |-> r.a, end |-> IF r.b = Word THEN (size - 1) % Word ELSE r.b]
    [] OTHER -> [ok |-> FALSE, start |-> 0, end |-> 0]

\* Faulty: the end is taken for the first block that is not sent.
RangeSizeExclusive(r) == (r.end - r.start) % Word

RangeSize(r) == (r.end - r.start + 1) % Word

Access(a) == Guard(share.rules, a.path, a.method, a.who)

Go(there)      == [to |-> there, status |-> 0]
Answer(status) == [to |-> "done", status |-> status]

OnGet(a, kind) ==
  CASE kind = "dir" /\ a.query = "zip" ->
         IF share.archive THEN Go("zip") ELSE Answer(404)
    [] kind = "dir" /\ a.query = "q" /\ share.search -> Go("search")
    [] kind = "dir" /\ a.query # "zip" /\ ~(a.query = "q" /\ share.search) -> Go("list")
    [] kind = "file" /\ a.query = "json" -> Go("json")
    [] kind = "file" /\ a.query = "hash" -> Answer(403)
    [] kind = "file" /\ a.query \notin {"json", "hash"} -> Go("open")
    [] OTHER -> Answer(IF share.upload /\ a.query = "/" THEN 200 ELSE 404)

OnPut(kind, size) ==
  IF kind = "dir" \/ ~share.upload \/ (~share.delete /\ size > 0)
  THEN Answer(403) ELSE Go("parent")

\* A forbidden offset below the size sets the status and goes on.
OnPatch(a, kind, size) ==
  CASE kind = "none" -> Answer(404)
    [] kind # "none" /\ ~share.upload -> Answer(403)
    [] kind # "none" /\ share.upload /\ a.range = NoRange -> Answer(405)
    [] OTHER -> IF a.range.kind = "append" \/ ParseRange(a.range, size).ok
                THEN Go("parent") ELSE Answer(400)

\* parse_upload_offset
UploadOffset(a, size) ==
  IF a.range.kind = "append" THEN size ELSE ParseRange(a.range, size).start

OnDelete(kind) ==
  IF ~share.delete THEN Answer(403)
  ELSE IF kind = "none" THEN Answer(404) ELSE Go("delete")

OnMkcol(kind) ==
  IF ~share.upload THEN Answer(403)
  ELSE IF kind # "none" THEN Answer(405) ELSE Go("mkcol")

\* extract_dest: the rules are asked for the destination too, without a token.
DestRefused(a) ==
  Guard(share.rules, a.dest, a.method, [a.who EXCEPT !.token = NoToken]).paths = Nothing

OnCopy(a, kind) ==
  IF ~share.upload THEN Answer(403)
  ELSE IF kind = "none" THEN Answer(404)
  ELSE IF DestRefused(a) THEN Answer(403) ELSE Go("copystat")

\* Faulty: only the source is asked about.
OnMoveAnywhere(a, kind) ==
  IF ~share.upload \/ ~share.delete THEN Answer(403)
  ELSE IF kind = "none" THEN Answer(404) ELSE Go("destparent")

OnMove(a, kind) ==
  IF ~share.upload \/ ~share.delete THEN Answer(403)
  ELSE IF kind = "none" THEN Answer(404)
  ELSE IF DestRefused(a) THEN Answer(403) ELSE Go("destparent")

OnPropfind(kind) ==
  CASE kind = "dir" -> Go("list") [] kind = "file" -> Go("json") [] OTHER -> Answer(404)

\* Locks are a pretence, and properties cannot be changed.
OnOther(a, kind) ==
  CASE a.method = "OPTIONS" -> Answer(200)
    [] a.method = "LOCK" -> Answer(IF kind = "file" THEN 200 ELSE 404)
    [] a.method = "UNLOCK" -> Answer(IF kind = "none" THEN 404 ELSE 200)
    [] a.method = "PROPPATCH" -> Answer(IF kind = "file" THEN 207 ELSE 404)
    [] OTHER -> Answer(405)

Dispatch(a, kind, size) ==
  CASE a.method \in {"GET", "HEAD"} -> OnGet(a, kind)
    [] a.method = "PUT"      -> OnPut(kind, size)
    [] a.method = "PATCH"    -> OnPatch(a, kind, size)
    [] a.method = "DELETE"   -> OnDelete(kind)
    [] a.method = "MKCOL"    -> OnMkcol(kind)
    [] a.method = "COPY"     -> OnCopy(a, kind)
    [] a.method = "MOVE"     -> OnMove(a, kind)
    [] a.method = "PROPFIND" -> OnPropfind(kind)
    [] OTHER                 -> OnOther(a, kind)

\* What is settled without a look at the disk: the page's own files and the
\* health check, which ask for no rights, refusals, log in and log out, and
\* tokens, which need a user.
AtOnce(a) ==
  LET g == Access(a) IN
  IF a.query = "internal" THEN Answer(200) ELSE
  CASE g.paths = Nothing -> Answer(IF g.user = Nobody THEN 401 ELSE 403)
    [] g.paths # Nothing /\ a.method = "CHECKAUTH" ->
         Answer(IF g.user # Nobody \/ (a.query # "login" /\ g.paths[<<>>] = ReadWrite)
                THEN 200 ELSE 401)
    [] g.paths # Nothing /\ a.method = "LOGOUT" -> Answer(401)
    [] g.paths # Nothing /\ a.method \notin {"CHECKAUTH", "LOGOUT"}
                        /\ a.query = "tokengen" ->
         Answer(IF g.user # Nobody THEN 200 ELSE 500)
    [] OTHER -> Go("stat")

-----------------------------------------------------------------------------
(* Requests come and are looked at.                                        *)

At(h, s) == hand[h].step = s

\* Handler h is done and answers.
Finish(h, answer) ==
  /\ hand' = [hand EXCEPT ![h] = [Free EXCEPT !.step = "done"]]
  /\ reply' = [reply EXCEPT ![h] = answer]
Status(status) == [NoReply EXCEPT !.status = status]
Fail(h) == Finish(h, Status(500))

Step(h, s) == hand' = [hand EXCEPT ![h].step = s] /\ UNCHANGED reply

\* Handler h goes where a decision sends it.
Follow(h, d) ==
  IF d.to = "done" THEN Finish(h, Status(d.status)) ELSE Step(h, d.to)

Unchanged == UNCHANGED <<share, restarts, ask, gone>>

\* The next free handler takes request a.
NextHandler(h) == hand[h].step = "none" /\ \A i \in Handlers : i < h => hand[i].step # "none"

Submit(h, a) ==
  /\ NextHandler(h)
  /\ ask' = [ask EXCEPT ![h] = a]
  /\ Follow(h, AtOnce(a))
  /\ UNCHANGED <<share, disk, clock, restarts, gone>>

KindOf(e) == IF e = Absent THEN "none" ELSE IF e = Folder THEN "dir" ELSE "file"

\* fs::metadata
Stat(h) ==
  /\ At(h, "stat")
  /\ hand' = [hand EXCEPT ![h].step = "probe",
                          ![h].kind = KindOf(disk.entry[ask[h].path]),
                          ![h].size = SizeAt(disk, ask[h].path)]
  /\ UNCHANGED reply /\ UNCHANGED diskVars /\ Unchanged

\* guard_root_contained: what is missing is judged by its parent, and that of
\* the share itself is outside.
Judge(h, p, itself, parent, refusal) ==
  IF disk.entry[p] # Absent THEN Step(h, itself)
  ELSE IF p = <<>> THEN Finish(h, Status(refusal)) ELSE Step(h, parent)

Probe(h) ==
  /\ At(h, "probe")
  /\ Judge(h, ask[h].path, "contain", "containparent", 404)
  /\ UNCHANGED diskVars /\ Unchanged

\* canonicalize: nothing outside of the share is reached, but it must be there.
Contain(h) ==
  LET a == ask[h]
      p == IF At(h, "contain") THEN a.path ELSE Parent(a.path) IN
  /\ At(h, "contain") \/ At(h, "containparent")
  /\ IF disk.entry[p] = Absent THEN Finish(h, Status(404))
     ELSE Follow(h, Dispatch(a, hand[h].kind, hand[h].size))
  /\ UNCHANGED diskVars /\ Unchanged

-----------------------------------------------------------------------------
(* Reading.                                                                *)

\* An anonymous PROPFIND of a directory on the way to a grant sees all of it.
ListingAccess(a) ==
  LET paths == Access(a).paths IN
  IF a.method = "PROPFIND" /\ paths[<<>>] = IndexOnly /\ a.who.login = Nobody
  THEN Single(ReadOnly) ELSE paths

\* Faulty: the directory is read whatever the rules say.
ListedAll(d, p, paths) == Children(d, p)

\* list_dir: the names with a grant below, or what the directory has.
Listed(d, p, paths) ==
  {q \in Children(d, p) : paths[<<>>] = IndexOnly => q[Len(q)] \in ChildNames(paths)}

List(h) ==
  LET a == ask[h]
      paths == ListingAccess(a)
      ok == IF a.method = "PROPFIND" THEN 207 ELSE 200 IN
  /\ At(h, "list")
  /\ IF a.method = "HEAD" THEN Finish(h, Status(200))
     ELSE IF a.method = "PROPFIND" /\ disk.entry[a.path] = Absent THEN Fail(h)
     ELSE IF paths[<<>>] # IndexOnly /\ disk.entry[a.path] # Folder
     THEN Finish(h, Status(403))
     ELSE Finish(h, [Status(ok) EXCEPT !.shown = Listed(disk, a.path, paths)])
  /\ UNCHANGED diskVars /\ Unchanged

\* collect_dir_entries: what is strictly below the outermost grants.
Collected(d, p, paths) ==
  {q \in Paths : d.entry[q] # Absent
                 /\ \E e \in EntryPaths(paths) : IsStrictPrefix(p \o e, q)}

\* handle_search_dir, handle_zip_dir: an archive has files only.
Collect(h) ==
  LET a == ask[h]
      found == Collected(disk, a.path, Access(a).paths) IN
  /\ At(h, "search") \/ At(h, "zip")
  /\ IF a.method = "HEAD" THEN Finish(h, Status(200))
     ELSE Finish(h, [Status(200) EXCEPT !.shown =
            IF At(h, "zip") THEN {q \in found : IsFile(disk.entry[q])} ELSE found])
  /\ UNCHANGED diskVars /\ Unchanged

\* to_pathitem, of a file: its name, time and size.
Describe(h) ==
  LET p == ask[h].path
      ok == IF ask[h].method = "PROPFIND" THEN 207 ELSE 200 IN
  /\ At(h, "json")
  /\ IF disk.entry[p] = Absent THEN Fail(h)
     ELSE Finish(h, [Status(ok) EXCEPT !.shown = {p}, !.size = SizeAt(disk, p)])
  /\ UNCHANGED diskVars /\ Unchanged

\* handle_send_file opens the file and asks the path for size and time.
Open(h) ==
  LET e == disk.entry[ask[h].path] IN
  /\ At(h, "open")
  /\ IF IsFile(e) THEN /\ hand' = [hand EXCEPT ![h].step = "meta", ![h].file = e]
                       /\ UNCHANGED reply
     ELSE Fail(h)
  /\ UNCHANGED diskVars /\ Unchanged

\* Faulty: If-Range is not looked at.
UseRangeAlways(a, stamp) == a.range # NoRange

\* The part asked for counts if there is no If-Range, or the one of this file.
UseRange(a, stamp) == a.range # NoRange /\ a.ifrange \in {0, stamp}

Meta(h) ==
  LET a == ask[h]
      e == disk.entry[a.path]
      size == SizeAt(disk, a.path)
      r == ParseRange(a.range, size)
      head == [NoReply EXCEPT !.size = size, !.stamp = disk.stamp[e], !.whole = FALSE]
      Send(status, start, count) ==
        IF a.method = "HEAD"
        THEN Finish(h, [head EXCEPT !.status = status, !.whole = TRUE])
        ELSE /\ hand' = [hand EXCEPT ![h].step = "send", ![h].at = start, ![h].goal = count]
             /\ reply' = [reply EXCEPT ![h] = [head EXCEPT !.status = status]] IN
  /\ At(h, "meta")
  /\ IF ~IsFile(e) THEN Fail(h)
     ELSE IF ~UseRange(a, disk.stamp[e]) THEN Send(200, 0, size)
     ELSE IF r.ok THEN Send(206, r.start, RangeSize(r))
     ELSE Finish(h, [head EXCEPT !.status = 416, !.whole = TRUE])
  /\ UNCHANGED diskVars /\ Unchanged

\* Faulty: a file that ends too early is read on and on.
SendIgnoringEnd(h) ==
  LET data == disk.data[hand[h].file] IN
  /\ At(h, "send")
  /\ IF gone[h] \/ hand[h].goal = 0
     THEN Finish(h, [reply[h] EXCEPT !.whole = ~gone[h]])
     ELSE /\ hand[h].at < Len(data)
          /\ hand' = [hand EXCEPT ![h].at = @ + 1, ![h].goal = @ - 1]
          /\ reply' = [reply EXCEPT ![h].part = Append(@, data[hand[h].at + 1])]
  /\ UNCHANGED diskVars /\ Unchanged

\* LengthLimitedStream, ReaderStream: as much as was announced, if it is there.
Send(h) ==
  LET data == disk.data[hand[h].file] IN
  /\ At(h, "send")
  /\ IF gone[h] \/ hand[h].goal = 0 \/ hand[h].at >= Len(data)
     THEN Finish(h, [reply[h] EXCEPT !.whole = ~gone[h] /\ hand[h].goal = 0])
     ELSE /\ hand' = [hand EXCEPT ![h].at = @ + 1, ![h].goal = @ - 1]
          /\ reply' = [reply EXCEPT ![h].part = Append(@, data[hand[h].at + 1])]
  /\ UNCHANGED diskVars /\ Unchanged

-----------------------------------------------------------------------------
(* Changes.                                                                *)

Hole      == <<"hole", 0>>
Appending == -1

\* The data with block b at the offset; what a write skips reads as zeros.
WriteAt(data, offset, b) ==
  [i \in 1..Higher(Len(data), offset + 1) |->
     IF i = offset + 1 THEN b ELSE IF i =< Len(data) THEN data[i] ELSE Hole]

Change(d) == disk' = d /\ UNCHANGED clock
Write(f, d, data) == disk' = Touched(d, f, data) /\ clock' = clock + 1
Keep == UNCHANGED diskVars

UploadParent(h) ==
  LET p == ask[h].path IN
  /\ At(h, "parent")
  /\ IF CanEnsureParent(disk, p)
     THEN Change(EnsureParent(disk, p)) /\ Step(h, "create")
     ELSE Keep /\ Fail(h)
  /\ Unchanged

\* A file to write to can be at p.
CanCreate(d, p) == d.entry[p] # Folder /\ (p = <<>> \/ d.entry[Parent(p)] = Folder)

\* File::create: an existing file is emptied.
CreateAt(p, data, Then(_)) ==
  LET e == disk.entry[p] IN
  IF IsFile(e) THEN Write(e, disk, data) /\ Then(e)
  ELSE Room /\ Write(FreeFile, WithEntry(disk, p, FreeFile), data) /\ Then(FreeFile)

\* handle_upload opens its file: PUT a new or emptied one, PATCH what is there,
\* to append if the offset is the size that was seen.
Create(h) ==
  LET a == ask[h]
      offset == UploadOffset(a, hand[h].size)
      Begin(f, goal) == /\ hand' = [hand EXCEPT ![h].step = "body", ![h].file = f,
                                               ![h].goal = goal]
                        /\ UNCHANGED reply IN
  /\ At(h, "create")
  /\ IF a.method = "PUT"
     THEN IF CanCreate(disk, a.path)
          THEN CreateAt(a.path, <<>>, LAMBDA f : Begin(f, 0))
          ELSE Keep /\ Fail(h)
     ELSE /\ Keep
          /\ IF IsFile(disk.entry[a.path])
             THEN Begin(disk.entry[a.path],
                        IF offset = hand[h].size THEN Appending ELSE offset)
             ELSE Fail(h)
  /\ Unchanged

\* Where the next block is written: a u64 counts the blocks of a file, and a
\* write behind that fails.
Offset(h) == IF hand[h].goal = Appending THEN Len(disk.data[hand[h].file])
             ELSE hand[h].goal + hand[h].at
Fits(h) == Offset(h) + 1 < Word

\* A block of the body arrives.
Body(h) ==
  LET f == hand[h].file IN
  /\ At(h, "body")
  /\ hand[h].at < Len(ask[h].body)
  /\ Fits(h)
  /\ Write(f, disk, WriteAt(disk.data[f], Offset(h), ask[h].body[hand[h].at + 1]))
  /\ hand' = [hand EXCEPT ![h].at = @ + 1]
  /\ UNCHANGED reply /\ Unchanged

BodyEnds(h) ==
  /\ At(h, "body")
  /\ hand[h].at = Len(ask[h].body)
  /\ Finish(h, Status(IF ask[h].method = "PUT" THEN 201 ELSE 204))
  /\ Keep /\ Unchanged

\* The body breaks off, or a block cannot be written; a short rest of a PUT is
\* removed, by its path.
BodyBreaks(h) ==
  /\ At(h, "body")
  /\ gone[h] \/ (hand[h].at < Len(ask[h].body) /\ ~Fits(h))
  /\ Step(h, "measure")
  /\ Keep /\ Unchanged

Measure(h) ==
  /\ At(h, "measure")
  /\ IF ask[h].method = "PUT" /\ SizeAt(disk, ask[h].path) < ResumableMin
     THEN Step(h, "discard") ELSE Fail(h)
  /\ Keep /\ Unchanged

Discard(h) ==
  LET p == ask[h].path IN
  /\ At(h, "discard")
  /\ Change(IF IsFile(disk.entry[p]) THEN WithEntry(disk, p, Absent) ELSE disk)
  /\ Fail(h)
  /\ Unchanged

\* handle_delete acts on the kind that was seen.
Delete(h) ==
  LET p == ask[h].path
      e == disk.entry[p] IN
  /\ At(h, "delete")
  /\ IF (hand[h].kind = "dir" /\ e = Folder) \/ (hand[h].kind = "file" /\ IsFile(e))
     THEN Change(Cleared(disk, p)) /\ Finish(h, Status(204))
     ELSE Keep /\ Fail(h)
  /\ Unchanged

Mkcol(h) ==
  LET p == ask[h].path IN
  /\ At(h, "mkcol")
  /\ IF CanMakeDirs(disk, p)
     THEN Change(MakeDirs(disk, p)) /\ Finish(h, Status(201))
     ELSE Keep /\ Fail(h)
  /\ Unchanged

\* handle_copy: directories are not copied.
CopyStat(h) ==
  LET e == disk.entry[ask[h].path] IN
  /\ At(h, "copystat")
  /\ IF e = Absent THEN Fail(h)
     ELSE IF e = Folder THEN Finish(h, Status(403)) ELSE Step(h, "destparent")
  /\ Keep /\ Unchanged

DestParent(h) ==
  LET q == ask[h].dest IN
  /\ At(h, "destparent")
  /\ IF CanEnsureParent(disk, q)
     THEN Change(EnsureParent(disk, q)) /\ Step(h, "destprobe")
     ELSE Keep /\ Fail(h)
  /\ Unchanged

DestProbe(h) ==
  /\ At(h, "destprobe")
  /\ Judge(h, ask[h].dest, "destcontain", "destcontainparent", 400)
  /\ Keep /\ Unchanged

DestContain(h) ==
  LET q == IF At(h, "destcontain") THEN ask[h].dest ELSE Parent(ask[h].dest) IN
  /\ At(h, "destcontain") \/ At(h, "destcontainparent")
  /\ IF disk.entry[q] = Absent THEN Finish(h, Status(400)) ELSE Step(h, "transfer")
  /\ Keep /\ Unchanged

\* fs::copy; what a file copied onto itself contains depends on the system.
Copy(h) ==
  LET p == ask[h].path
      q == ask[h].dest
      data == disk.data[disk.entry[p]] IN
  /\ At(h, "transfer")
  /\ ask[h].method = "COPY"
  /\ IF IsFile(disk.entry[p]) /\ CanCreate(disk, q)
     THEN \E got \in IF p = q THEN {data, <<>>} ELSE {data} :
            CreateAt(q, got, LAMBDA f : Finish(h, Status(204)))
     ELSE Keep /\ Fail(h)
  /\ Unchanged

\* handle_move: fs::rename
Move(h) ==
  LET p == ask[h].path
      q == ask[h].dest IN
  /\ At(h, "transfer")
  /\ ask[h].method = "MOVE"
  /\ IF CanRename(disk, p, q)
     THEN Change(Renamed(disk, p, q)) /\ Finish(h, Status(204))
     ELSE Keep /\ Fail(h)
  /\ Unchanged

-----------------------------------------------------------------------------
(* The server.                                                             *)

Running(h) == hand[h].step \notin {"none", "done"}

\* The share is stopped and started again: handlers are dropped where they
\* are, and their clients see the connection end.
Restart ==
  /\ restarts < share.restarts
  /\ restarts' = restarts + 1
  /\ hand' = [h \in Handlers |->
       IF Running(h) THEN [Free EXCEPT !.step = "done"] ELSE hand[h]]
  /\ reply' = [h \in Handlers |->
       IF Running(h) THEN [reply[h] EXCEPT !.whole = FALSE] ELSE reply[h]]
  /\ UNCHANGED <<share, disk, clock, ask, gone>>

Handle(h) ==
  \/ Stat(h) \/ Probe(h) \/ Contain(h)
  \/ List(h) \/ Collect(h) \/ Describe(h) \/ Open(h) \/ Meta(h) \/ Send(h)
  \/ UploadParent(h) \/ Create(h) \/ Body(h) \/ BodyEnds(h) \/ BodyBreaks(h)
  \/ Measure(h) \/ Discard(h) \/ Delete(h) \/ Mkcol(h)
  \/ CopyStat(h) \/ DestParent(h) \/ DestProbe(h) \/ DestContain(h)
  \/ Copy(h) \/ Move(h)
=============================================================================
