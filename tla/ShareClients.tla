---------------------------- MODULE ShareClients ----------------------------
(***************************************************************************)
(* The file server with those who use it:                                  *)
(*   guests, who send any request (WebDAV clients, curl);                  *)
(*   a page that uploads a file and resumes (class Uploader of             *)
(*   crates/dufs-core/assets/index.js);                                    *)
(*   the agent with its tools (crates/agent/src/api.rs, mcp.rs), which     *)
(*   asks one thing after the other;                                       *)
(*   a browser that downloads a file and resumes (not in the repository).  *)
(* What a share looks like and who uses it is chosen at the beginning.     *)
(***************************************************************************)
EXTENDS FileRequests

CONSTANTS GuestAsks(_),  \* the requests guests may send in a share
          MaxTries       \* bound: retries of the page, calls of the agent,
                         \* requests of the browser

VARIABLES
  page, agent, browser,
  still   \* history: what the browser asks for is as it was when it asked

clientVars == <<page, agent, browser>>
allVars == <<share, disk, clock, restarts, ask, hand, gone, reply, page, agent, browser,
             still>>

\* A share further says who uses it and how, and the path the page, the agent
\* and the browser are about.
Uses(client) == client \in share.clients
Target == share.target

TypeOK ==
  /\ disk.entry \in [Paths -> {Absent, Folder} \cup Files]
  /\ DOMAIN disk.data = Files /\ disk.stamp \in [Files -> 0..clock]
  /\ \A p, q \in Paths : IsFile(disk.entry[p]) /\ disk.entry[p] = disk.entry[q] => p = q
  /\ \A p \in Paths : disk.entry[p] # Absent /\ p # <<>> => disk.entry[Parent(p)] = Folder
  /\ restarts \in 0..share.restarts
  /\ \A h \in Handlers :
       /\ hand[h].file \in Files \cup {0}
       /\ hand[h].file # 0 => hand[h].step \in {"meta", "send", "body", "measure", "discard"}
       /\ hand[h].goal >= 0 \/ hand[h].step \in {"body", "measure", "discard"}
  /\ gone \in [Handlers -> BOOLEAN]
  /\ page.st \in {"idle", "busy", "failed", "ok"}
  /\ page.asked \cup page.sent \subseteq Handlers
  /\ agent.st \in {"idle", "waiting"}
  /\ browser.st \in {"idle", "getting", "broken", "ok", "refused"}

Anyone == [login |-> Nobody, right |-> FALSE, token |-> NoToken]

RequestOf(who, by, method, path) ==
  [by |-> by, method |-> method, path |-> path, query |-> "", dest |-> <<>>,
   who |-> who, range |-> NoRange, ifrange |-> 0, body |-> <<>>]
Request(by, method, path) == RequestOf(share.who, by, method, path)

\* What a file contains that was there before.
OldData(f) == <<<<"old", 2 * f>>, <<"old", 2 * f + 1>>>>

\* The rest of a share: where its clients work and who they are, a tree to begin
\* with, and guests that send requests.
UsesOK(s) ==
  /\ s.target \in Paths /\ IsVisitor(s.who)
  /\ s.restarts \in Nat /\ s.oldsize \in 0..2 /\ s.oldsize < Word
  /\ \A p \in Paths : s.tree[p] # "none" /\ p # <<>> => s.tree[Parent(p)] = "dir"
  /\ Cardinality({p \in Paths : s.tree[p] = "file"}) =< MaxFiles
  /\ \A a \in GuestAsks(s) : AskOK(a) /\ a.by = "guest"

ASSUME ShareClientsAssumption == \A s \in Shares : UsesOK(s)

\* The disk at the beginning: the files of the tree are numbered as Number says.
InitDisk(s) ==
  LET old == {p \in Paths : s.tree[p] = "file"}
      Number == CHOOSE f \in [old -> 1..Cardinality(old)] :
                  \A p, q \in old : f[p] = f[q] => p = q
  IN  [entry |-> [p \in Paths |-> CASE s.tree[p] = "none" -> Absent
                                    [] s.tree[p] = "dir"  -> Folder
                                    [] OTHER              -> Number[p]],
       data  |-> [f \in Files |-> IF f =< Cardinality(old)
                                  THEN SubSeq(OldData(f), 1, s.oldsize) ELSE <<>>],
       stamp |-> [f \in Files |-> f]]

Init ==
  /\ share \in Shares
  /\ disk = InitDisk(share)
  /\ clock = MaxFiles
  /\ restarts = 0
  /\ ask = [h \in Handlers |-> [by |-> "none"]]
  /\ hand = [h \in Handlers |-> Free]
  /\ gone = [h \in Handlers |-> FALSE]
  /\ reply = [h \in Handlers |-> NoReply]
  /\ page = [st |-> "idle", asked |-> {}, sent |-> {}, tries |-> 0]
  /\ agent = [st |-> "idle", h |-> 0, calls |-> 0, tool |-> "none", told |-> "nothing",
              local |-> <<>>]
  /\ browser = [st |-> "idle", h |-> 0, tries |-> 0, part |-> <<>>, stamp |-> 0,
                calm |-> TRUE]
  /\ still = TRUE

Done(h) == hand[h].step = "done"
Ok(status) == status \in 200..299

\* The connection of h is lost: what was not sent is not sent, the rest the
\* server may still have in its hands.
Lose(h) ==
  /\ Running(h) /\ ~gone[h]
  /\ gone' = [gone EXCEPT ![h] = TRUE]
  /\ UNCHANGED <<share, disk, clock, restarts, ask, hand, reply>>

-----------------------------------------------------------------------------
(* Guests.                                                                 *)

Guests == {h \in Handlers : ask[h].by = "guest"}

GuestSends ==
  /\ Uses("guest")
  /\ Cardinality(Guests) < share.guests
  /\ \E h \in Handlers, a \in GuestAsks(share) : Submit(h, a)
  /\ UNCHANGED clientVars

\* A guest goes away while his upload is under way.
GuestLeaves ==
  /\ \E h \in Guests : At(h, "body") /\ Lose(h)
  /\ UNCHANGED clientVars

-----------------------------------------------------------------------------
(* The page: Uploader.ajax, retry, progress, complete and fail.  It has    *)
(* what its line shows (nothing yet, progress, the cross with the button   *)
(* to retry, the mark), the HEADs it waits for and the uploads under way:  *)
(* the button stays after a click, so there may be several of each.        *)

PageFile == <<<<"page", 1>>, <<"page", 2>>, <<"page", 3>>>>

Put == [Request("page", "PUT", Target) EXCEPT !.body = PageFile]
AppendRest(offset) ==
  [Request("page", "PATCH", Target) EXCEPT
     !.range = [kind |-> "append", a |-> 0, b |-> 0],
     !.body = SubSeq(PageFile, offset + 1, Len(PageFile))]

\* Faulty: the whole file is appended.
PageAjaxWhole(h, offset) ==
  Submit(h, IF offset > 0 THEN [AppendRest(offset) EXCEPT !.body = PageFile] ELSE Put)

\* ajax: what the server has is left out.
PageAjax(h, offset) == Submit(h, IF offset > 0 THEN AppendRest(offset) ELSE Put)

PageUploads ==
  /\ Uses("page") /\ page.st = "idle"
  /\ \E h \in Handlers : /\ PageAjax(h, 0)
                         /\ page' = [page EXCEPT !.st = "busy", !.sent = {h}]
  /\ UNCHANGED <<agent, browser>>

\* The request does not even reach the server.
PageUnreached ==
  /\ Uses("page") /\ page.st = "idle"
  /\ page' = [page EXCEPT !.st = "failed"]
  /\ UNCHANGED vars /\ UNCHANGED <<agent, browser>>

\* After complete has shown the mark, nothing changes the line any more.
Show(st) == IF page.st = "ok" THEN "ok" ELSE st

PageHears ==
  /\ \E h \in page.sent :
       /\ Done(h) /\ ~gone[h]
       /\ page' = [page EXCEPT !.st = Show(IF Ok(reply[h].status) THEN "ok" ELSE "failed"),
                               !.sent = @ \ {h}]
  /\ UNCHANGED vars /\ UNCHANGED <<agent, browser>>

\* Nobody is told of a HEAD that is lost: retry just ends.
PageLoses ==
  /\ \E h \in page.asked \cup page.sent :
       /\ Lose(h)
       /\ page' = [page EXCEPT !.st = IF h \in page.sent THEN Show("failed") ELSE @,
                               !.asked = @ \ {h}, !.sent = @ \ {h}]
  /\ UNCHANGED <<agent, browser>>

\* An upload goes on, and the button gives way to its progress.
PageProgress ==
  /\ page.st = "failed" /\ page.sent # {}
  /\ page' = [page EXCEPT !.st = "busy"]
  /\ UNCHANGED vars /\ UNCHANGED <<agent, browser>>

\* The user clicks on retry: a HEAD tells how much is there.  A patient user
\* does not click again before what the last click began has come to its end,
\* and a prompt server has finished with what was lost.
PageRetries ==
  /\ page.st = "failed" /\ page.tries < MaxTries
  /\ share.patient => page.asked \cup page.sent = {}
  /\ share.prompt => \A h \in Handlers : gone[h] => ~Running(h)
  /\ \E h \in Handlers : /\ Submit(h, Request("page", "HEAD", Target))
                         /\ page' = [page EXCEPT !.asked = @ \cup {h}, !.tries = @ + 1]
  /\ UNCHANGED <<agent, browser>>

\* The answer to a HEAD: the upload begins, or goes on behind what is there.
PageResumes ==
  /\ \E i \in page.asked :
       LET r == reply[i] IN
       /\ Done(i) /\ ~gone[i]
       /\ IF r.status = 0
          THEN page' = [page EXCEPT !.asked = @ \ {i}] /\ UNCHANGED vars
          ELSE \E h \in Handlers :
                 /\ PageAjax(h, IF r.status = 200 THEN r.size ELSE 0)
                 /\ page' = [page EXCEPT !.asked = @ \ {i}, !.sent = @ \cup {h}]
  /\ UNCHANGED <<agent, browser>>

-----------------------------------------------------------------------------
(* The agent: one tool call after the other.                               *)

AgentFile == <<<<"agent", 1>>>>

Tool(tool) ==
  CASE tool = "upload"   -> [Request("agent", "PUT", Target) EXCEPT !.body = AgentFile]
    [] tool = "download" -> Request("agent", "GET", Target)
    [] tool = "list"     -> [Request("agent", "GET", Target) EXCEPT !.query = "json"]
    [] tool = "search"   -> [Request("agent", "GET", Target) EXCEPT !.query = "q"]
    [] tool = "delete"   -> Request("agent", "DELETE", Target)
    [] tool = "make_dir" -> Request("agent", "MKCOL", Target)
    [] tool = "status"   -> [Request("agent", "GET", Target) EXCEPT !.query = "internal"]

Tools == {"upload", "download", "list", "search", "delete", "make_dir", "status"}

AgentCalls(tool) ==
  /\ Uses("agent") /\ agent.st = "idle" /\ agent.calls < MaxTries
  /\ \E h \in Handlers :
       /\ Submit(h, Tool(tool))
       /\ agent' = [agent EXCEPT !.st = "waiting", !.h = h, !.calls = @ + 1,
                                 !.tool = tool, !.told = "nothing"]
  /\ UNCHANGED <<page, browser>>

\* ensure_ok: what a status is said to mean.
EnsureOk(status) ==
  CASE Ok(status)   -> "ok"
    [] status = 0   -> "offline"
    [] status = 401 -> "login"
    [] status = 403 -> "switch"
    [] status = 404 -> "path"
    [] OTHER        -> "http"

\* Faulty: a download that broke off is reported as complete.
AgentHearsAnyhow ==
  LET r == reply[agent.h] IN
  /\ agent.st = "waiting" /\ Done(agent.h)
  /\ agent' = [agent EXCEPT !.st = "idle", !.told = EnsureOk(r.status),
                            !.local = IF agent.tool = "download" /\ Ok(r.status)
                                      THEN r.part ELSE @]
  /\ UNCHANGED vars /\ UNCHANGED <<page, browser>>

\* A download writes what comes into the local file, complete or not.
AgentHears ==
  LET r == reply[agent.h] IN
  /\ agent.st = "waiting" /\ Done(agent.h)
  /\ agent' = [agent EXCEPT !.st = "idle",
                 !.told = IF Ok(r.status) /\ ~r.whole THEN "offline" ELSE EnsureOk(r.status),
                 !.local = IF agent.tool = "download" /\ r.status = 200 THEN r.part ELSE @]
  /\ UNCHANGED vars /\ UNCHANGED <<page, browser>>

\* What came of a download stays under the local file's name.
AgentLoses ==
  LET r == reply[agent.h] IN
  /\ agent.st = "waiting" /\ Lose(agent.h)
  /\ agent' = [agent EXCEPT !.st = "idle", !.told = "offline",
                 !.local = IF agent.tool = "download" /\ r.status = 200 THEN r.part ELSE @]
  /\ UNCHANGED <<page, browser>>

-----------------------------------------------------------------------------
(* The browser: it goes on where it was, if the file is still the same.    *)

BrowserAsk ==
  IF browser.part = <<>> THEN Request("browser", "GET", Target)
  ELSE [Request("browser", "GET", Target) EXCEPT
          !.range = [kind |-> "from", a |-> Len(browser.part), b |-> Word],
          !.ifrange = browser.stamp]

BrowserGets ==
  /\ Uses("browser") /\ browser.st \in {"idle", "broken"} /\ browser.tries < MaxTries
  /\ \E h \in Handlers :
       /\ Submit(h, BrowserAsk)
       /\ browser' = [browser EXCEPT !.st = "getting", !.h = h, !.tries = @ + 1]
  /\ UNCHANGED <<page, agent>>

BrowserLoses ==
  /\ browser.st = "getting" /\ Lose(browser.h)
  /\ UNCHANGED clientVars

DataAt(p) == IF IsFile(disk.entry[p]) THEN disk.data[disk.entry[p]] ELSE <<>>

\* While the browser waits for an answer, the target is watched.
TargetStays == disk'.entry[Target] = disk.entry[Target] /\ DataAt(Target)' = DataAt(Target)
Watch == still' = (browser'.st = "getting" => (browser.st = "getting" => still) /\ TargetStays)

\* The answer is taken when it is over.  The download is calm as long as the
\* target stays as it is while an answer is given.
BrowserTakes ==
  LET r == reply[browser.h] IN
  /\ browser.st = "getting" /\ Done(browser.h)
  /\ browser' =
       CASE r.status = 0 \/ (gone[browser.h] /\ r.status \notin {200, 206}) ->
              [browser EXCEPT !.st = "broken"]
         [] r.status = 200 ->
              [browser EXCEPT !.st = IF r.whole THEN "ok" ELSE "broken",
                              !.part = r.part, !.stamp = r.stamp, !.calm = still]
         [] r.status = 206 ->
              [browser EXCEPT !.st = IF r.whole THEN "ok" ELSE "broken",
                              !.part = @ \o r.part, !.calm = @ /\ still]
         [] OTHER -> [browser EXCEPT !.st = "refused"]
  /\ UNCHANGED vars /\ UNCHANGED <<page, agent>>

-----------------------------------------------------------------------------
ServerStep == (\E h \in Handlers : Handle(h)) \/ Restart

Moves ==
  \/ ServerStep /\ UNCHANGED clientVars
  \/ GuestSends \/ GuestLeaves
  \/ PageUploads \/ PageUnreached \/ PageHears \/ PageLoses \/ PageProgress
  \/ PageRetries \/ PageResumes
  \/ \E tool \in Tools : AgentCalls(tool)
  \/ AgentHears \/ AgentLoses
  \/ BrowserGets \/ BrowserLoses \/ BrowserTakes

Next == Moves /\ Watch

\* A handler waits for its client, with no limit of time: for the next block of
\* a body, or for the answer to be read.
AwaitsClient(h) == At(h, "body") \/ At(h, "send")
GoesOn(h) == Handle(h) /\ UNCHANGED clientVars /\ Watch

\* The disk answers.  Of the clients nothing is said.
Fairness == \A h \in Handlers : WF_allVars(~AwaitsClient(h) /\ GoesOn(h))

Spec == Init /\ [][Next]_allVars /\ Fairness

-----------------------------------------------------------------------------
(* Properties.                                                             *)

\* Who stands behind a request: its user, also if a token speaks for him.
Reader(a) ==
  IF a.method = "GET" /\ TokenOpens(share.rules, a.who.token, a.path)
  THEN [login |-> a.who.token.user, right |-> TRUE, token |-> NoToken]
  ELSE [a.who EXCEPT !.token = NoToken]

MayWrite(a, p) == Guard(share.rules, p, a.method, Reader(a)).paths # Nothing

SwitchOn(method) ==
  /\ method \in {"PUT", "PATCH", "MKCOL", "COPY", "MOVE"} => share.upload
  /\ method \in {"DELETE", "MOVE"} => share.delete
  /\ method \in {"PUT", "PATCH", "MKCOL", "COPY", "MOVE", "DELETE"}

EntryChanges(p) == disk'.entry[p] # disk.entry[p]
DataChanges(p) ==
  IsFile(disk.entry[p]) /\ disk'.data[disk.entry[p]] # disk.data[disk.entry[p]]

\* Handler h may change p: its requester may write at p, or at what is below or
\* above p; or it writes into the file it opened there, whatever its path is
\* now.  Above, only missing directories come to be.
MayChange(h, p) ==
  LET a == ask[h]
      targets == {a.path} \cup (IF a.method \in {"COPY", "MOVE"} THEN {a.dest} ELSE {}) IN
  /\ SwitchOn(a.method)
  /\ \A t \in targets : MayWrite(a, t)
  /\ \/ \E t \in targets : IsPrefix(t, p)
     \/ /\ \E t \in targets : IsPrefix(p, t)
        /\ disk.entry[p] = Absent /\ disk'.entry[p] = Folder
     \/ ~EntryChanges(p) /\ hand[h].file = disk.entry[p]

\* Nothing in the share changes but by a request whose sender may write there,
\* with the switches for it on, although the rules are asked long before the
\* change (handle, extract_dest) and every handler does several things.
OnlyGrantedChanges ==
  [][\A p \in Paths : EntryChanges(p) \/ DataChanges(p) =>
       \E h \in Handlers : hand'[h] # hand[h] /\ MayChange(h, p)]_allVars

\* Whatever a listing, a search or an archive shows, the one who asked may open:
\* except that an anonymous PROPFIND on the way to a grant shows all.
ListedIsOpen ==
  \A h \in Handlers : \A q \in reply[h].shown :
    \/ Guard(share.rules, q, "GET", Reader(ask[h])).paths # Nothing
    \/ ask[h].method = "PROPFIND" /\ ask[h].who.login = Nobody
       /\ Access(ask[h]).paths[<<>>] = IndexOnly

PermOf(t) == IF t = Nothing THEN IndexOnly ELSE t[<<>>]

\* The rules stay what they are: it is enough to ask once.
AtTheBeginning == \A h \in Handlers : ask[h].by = "none"

Trees == {share.rules.anon} \cup {share.rules.users[u] : u \in DOMAIN share.rules.users}

\* Whoever has a grant finds the way to it: every directory above it can be
\* listed and shows the next one (find, child_names, list_dir).
GrantsAreReachable ==
  AtTheBeginning /\ ~share.rules.open =>
    \A t \in Trees \ {Nothing} : \A p \in Paths : Granted(t, p) # IndexOnly =>
      \A q \in Prefixes(p) \ {p} :
        LET f == Find(t, q)
        IN  f # Nothing /\ (f[<<>>] = IndexOnly => p[Len(q) + 1] \in ChildNames(f))

\* Rules for visitors add to what a user was given himself and never take away,
\* and they add no more than what visitors may; they add all of it at the paths
\* they name, and wherever nothing was given to him on the way.  (The comment at
\* absorb_anon promises it everywhere, "higher perm wins": see AbsorbAnon.)
VisitorRulesAdd ==
  AtTheBeginning => \A u \in DOMAIN share.own : \A p \in Paths :
    LET own     == MergeGrants(share.own[u])
        visitor == share.rules.anon
        mine    == Granted(own, p)
        both    == Higher(mine, Granted(visitor, p))
        got     == PermOf(Find(share.rules.users[u], p))
    IN  /\ got \in {mine, both}
        /\ p \in DOMAIN visitor \/ mine = IndexOnly => got = both

\* One request alone, with no restart, reads exactly what is there: a file
\* whole, or the part of it that was asked for, also of an empty file and of
\* its last 0 blocks.
ReadsAreExact ==
  \A h \in Handlers :
    LET a == ask[h]
        data == disk.data[disk.entry[a.path]]
    IN  Done(h) /\ share.clients = {"guest"} /\ share.guests = 1 /\ restarts = 0
        /\ a.method = "GET" /\ a.query = "" /\ reply[h].stamp # 0 =>
          /\ reply[h].status = 200 => reply[h].part = data
          /\ reply[h].status = 206 =>
               reply[h].part = IF a.range.kind = "last"
                               THEN SubSeq(data, Len(data) - a.range.a + 1, Len(data))
                               ELSE SubSeq(data, a.range.a + 1,
                                           IF a.range.b = Word THEN Len(data) ELSE a.range.b + 1)

\* An upload that the page marks as complete is there, block for block, however
\* often it broke, the share was restarted or the answer was lost: if there was
\* nothing under its name before, nobody else changes the share, the user is
\* patient, and a broken request is over when he clicks on retry.
FreshUploadIsWhole ==
  page.st = "ok" /\ share.clients = {"page"} /\ share.patient /\ share.prompt
    /\ share.tree[Target] = "none" =>
    DataAt(Target) = PageFile

\* The page's mark says so for every upload.
UploadIsWhole == page.st = "ok" => DataAt(Target) = PageFile

\* Alone, and with no request lost, the agent tells its model what is the case.
AgentTellsTheTruth ==
  LET e == disk.entry[Target]
      alone == share.clients = {"agent"} /\ \A h \in Handlers : ~gone[h] IN
  alone /\ agent.st = "idle" =>
    /\ agent.told = "ok" =>
         /\ agent.tool = "upload" => DataAt(Target) = AgentFile
         /\ agent.tool = "download" => e = Folder \/ (IsFile(e) /\ agent.local = DataAt(Target))
         /\ agent.tool = "delete" => e = Absent
         /\ agent.tool = "make_dir" => e = Folder
    /\ agent.told = "switch" =>
         \/ ~share.upload \/ ~share.delete \/ e = Folder
         \/ Access(Tool(agent.tool)).paths = Nothing
    /\ agent.told = "path" =>
         e = Absent /\ (agent.tool = "upload" => disk.entry[Parent(Target)] = Absent)

\* A download put together from several answers is the file as it is when the
\* last one ends, if nothing happened to the path and to the file while an
\* answer was given: a change between two answers is noticed
\* (extract_cache_headers, If-Range).
ResumedDownloadIsOneFile ==
  [][browser.st = "getting" /\ browser'.st = "ok" /\ browser'.calm =>
       browser'.part = DataAt(Target)]_allVars

\* A request whose own client goes on, or leaves and is noticed, comes to its
\* end, whoever else does what to the same files, and whether or not the others
\* ever send or read another block: who stays silent holds his own handler only.
\* (A handler has one request, so it is enough that it is not running again and
\* again.)
EveryRequestEnds ==
  \A h \in Handlers : WF_allVars(AwaitsClient(h) /\ GoesOn(h)) => []<>~Running(h)
=============================================================================
