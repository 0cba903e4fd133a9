------------------------ MODULE ShareClients_proofs -------------------------
(***************************************************************************)
(* What is proved of the clients of a share, for all shares, paths,        *)
(* requests and numbers of handlers: a download put together from several  *)
(* answers is the file as it is when the last one ends                     *)
(* (ResumedDownloadIsOneFile), what the agent tells is so                  *)
(* (AgentTellsTheTruth), an upload the page marks as complete is there     *)
(* (FreshUploadIsWhole), and the rules for visitors add to what users may  *)
(* (VisitorRulesAdd), every grant can be reached (GrantsAreReachable) and  *)
(* no name is shown that may not be opened (ListedIsOpen).                 *)
(*                                                                         *)
(* The browser keeps the stamp it has a part of, and the answer it gets is *)
(* under that stamp or the whole file (BrowserInv).                        *)
(*                                                                         *)
(* The agent and the page are proved about when they are alone: then only  *)
(* one handler runs, and what it has seen stays so while it goes on, up to *)
(* the answer (Serves).  The agent tells that answer (AgentInv); the page  *)
(* of a patient user has one request under way and goes on where the file  *)
(* ends, so that the path holds a beginning of its file after every        *)
(* request, whole or broken (PageInv).                                     *)
(*                                                                         *)
(* A handler shows names when it is done, those of the tree its sender was *)
(* let in by, and the same tree decides what he may open (ShownInv).       *)
(***************************************************************************)
EXTENDS FileRequests_proofs

-----------------------------------------------------------------------------
(* The browser: a download put together from several answers.              *)

\* The share stays what it is.
LEMMA ShareStays ==
  ASSUME ServerOK, ServerMoves
  PROVE  share' = share
BY HandleMoves DEF ServerMoves, Submit, Lose, Restart, vars

\* What has a stamp that somebody knows is what it was when it was seen.
LEMMA KnownStays ==
  ASSUME ServerOK, FilesKept \/ FileWritten
  PROVE  /\ clock =< clock'
         /\ \A f \in Files, s \in Nat : s =< clock /\ disk'.stamp[f] = s =>
              disk.stamp[f] = s /\ disk'.data[f] = disk.data[f]
<1>1. disk.data \in [Files -> Seq(Blocks)] /\ disk.stamp \in [Files -> Nat] /\ clock \in Nat
  BY DEF ServerOK, DiskOK, Disks
<1>2. CASE FilesKept  BY <1>1, <1>2 DEF FilesKept
<1>3. CASE FileWritten
  <2>1. PICK f \in Files, data \in Seq(Blocks) :
          /\ disk'.data = [disk.data EXCEPT ![f] = data]
          /\ disk'.stamp = [disk.stamp EXCEPT ![f] = clock + 1]
          /\ clock' = clock + 1
    BY <1>3 DEF FileWritten
  <2>2. \A g \in Files : /\ disk'.data[g] = IF g = f THEN data ELSE disk.data[g]
                         /\ disk'.stamp[g] = IF g = f THEN clock + 1 ELSE disk.stamp[g]
    BY <1>1, <2>1
  <2>. QED  BY <1>1, <2>1, <2>2
<1>. QED  BY <1>2, <1>3

\* What others do is no matter, as long as the path leads to the same file.
LEMMA ReadingStays ==
  ASSUME ServerOK, FilesKept \/ FileWritten, NEW h \in Handlers, Reading(h),
         hand[h].step # "none",
         ask'[h] = ask[h], hand'[h] = hand[h], reply'[h] = reply[h],
         disk'.entry[ask[h].path] = disk.entry[ask[h].path],
         DataAt(ask[h].path)' = DataAt(ask[h].path)
  PROVE  Reading(h)'
<1> DEFINE s == reply[h].stamp
           d == DataAt(ask[h].path)
<1>1. s \in Nat  BY Handler DEF Replies
<1>2. s # 0 => Version(s, d)  BY DEF Reading
<1>3. DataAt(ask[h].path)' = d  OBVIOUS
<1> HIDE DEF s, d
<1>4. s # 0 => Version(s, d)'
  <2>1. clock \in Nat /\ clock' \in Nat
    <3>1. clock \in Nat /\ clock' \in {clock, clock + 1}
      BY DEF ServerOK, DiskOK, FilesKept, FileWritten
    <3>. QED  BY <3>1
  <2>2. d' = d => (s # 0 => s =< clock' /\ \A f \in Files : disk'.stamp[f] = s => disk'.data[f] = d)
    BY <1>1, <1>2, <2>1, KnownStays DEF Version
  <2>. QED  BY <1>3, <2>2 DEF Version, d, s
<1>. QED  BY <1>2, <1>3, <1>4 DEF Reading, s, d

\* The share starts again: what was sent was a beginning.
LEMMA RestartReads ==
  ASSUME ServerOK, Restart, NEW h \in Handlers, Reading(h)
  PROVE  Reading(h)'
<1> DEFINE a == ask[h]
           e == disk.entry[a.path]
           d == DataAt(a.path)
           l == hand'[h]
           r == reply[h]
           got == reply'[h]
<1>1. UNCHANGED diskVars /\ ask' = ask  BY DEF Restart, diskVars
<1>2. DataAt(a.path)' = d  BY <1>1 DEF diskVars, DataAt
<1>3. CASE ~Running(h)
  <2>1. l = hand[h] /\ got = r  BY <1>3, RestartMoves
  <2>. QED  BY <1>1, <1>2, <2>1 DEF Reading, Version, diskVars
<1>4. CASE Running(h)
  <2>1. l.step = "done" /\ got = [r EXCEPT !.whole = FALSE]  BY <1>4, RestartMoves
  <2>2. reply \in [Handlers -> Replies] /\ hand[h].step # "done"
    BY <1>4 DEF ServerOK, Running
  <2>3. /\ got.status = r.status /\ got.part = r.part /\ got.stamp = r.stamp /\ ~got.whole
    BY <2>1, <2>2 DEF Replies
  <2>4. Reads(a, hand[h], r, e, d) /\ (r.stamp # 0 => Version(r.stamp, d))  BY DEF Reading
  <2>5. hand[h].step \in Early => r.status \notin {200, 206}
    BY <2>4 DEF Reads, NoReply
  <2>6. hand[h].step = "send" => IsFile(e) /\ Gives(a, r, d)  BY <2>4 DEF Reads
  <2>7. hand[h].step \in Early \cup {"send"}  BY <2>2, <2>4 DEF Reads
  <2> HIDE DEF a, e, d, l, r, got
  <2>8. Gives(a, r, d) => Gives(a, got, d)  BY <2>3 DEF Gives, Given
  <2>9. Reads(a, l, got, e, d)  BY <2>1, <2>3, <2>5, <2>6, <2>7, <2>8 DEF Reads, Early
  <2>. QED  BY <1>1, <1>2, <2>3, <2>4, <2>9 DEF Reading, Version, diskVars, a, e, d, l, r, got
<1>. QED  BY <1>3, <1>4

\* A part is announced with the stamp the file has then.
LEMMA PartHasStamp ==
  ASSUME ServerOK, VersionsOK, NEW h \in Handlers, Downloads(ask[h]), Reading(h), Handle(h),
         reply'[h].status = 206, reply[h].status # 206
  PROVE  IsFile(disk.entry[ask[h].path])
         /\ reply'[h].stamp = disk.stamp[disk.entry[ask[h].path]]
<1> DEFINE p == ask[h].path
           e == disk.entry[p]
           size == SizeAt(disk, p)
           stamp == disk.stamp[e]
<1>1. hand[h].step # "none" /\ hand \in [Handlers -> Hands] /\ reply \in [Handlers -> Replies]
      /\ disk \in Disks
  BY HandleMoves DEF ServerOK, DiskOK
<1>2. hand[h].step \in Early \cup {"send", "done"}  BY DEF Reading, Reads
<1>3. \/ Stat(h) \/ Probe(h) \/ Contain(h) \/ List(h) \/ Open(h) \/ Meta(h) \/ Send(h)
  BY <1>2 DEF Handle, Early, At, Collect, Describe, UploadParent, Create, Body, BodyEnds,
              BodyBreaks, Measure, Discard, Delete, Mkcol, CopyStat, DestParent, DestProbe,
              DestContain, Copy, Move
<1>4. reply'[h] # reply[h]  OBVIOUS
<1>5. \A n : Status(n).status = n  BY DEF Status, NoReply
<1>6. ASSUME NEW n, n # 206, reply' = [reply EXCEPT ![h] = Status(n)] PROVE FALSE
  <2>1. reply'[h] = Status(n)  BY <1>1, <1>6
  <2>. QED  BY <1>5, <1>6, <2>1
<1>7. ~Stat(h)  BY <1>4 DEF Stat
<1>8. ~Probe(h)
  <2>1. SUFFICES ASSUME Probe(h) PROVE FALSE  OBVIOUS
  <2>2. Finish(h, Status(404)) \/ \E t : Step(h, t)  BY <2>1 DEF Probe, Judge
  <2>. QED  BY <1>4, <1>6, <2>2 DEF Finish, Step
<1>9. ~Contain(h)
  <2>1. SUFFICES ASSUME Contain(h) PROVE FALSE  OBVIOUS
  <2>2. hand[h].step \in {"contain", "containparent"}  BY <2>1 DEF Contain, At
  <2> DEFINE d == Dispatch(ask[h], hand[h].kind, hand[h].size)
  <2>3. d = OnGet(ask[h], hand[h].kind) /\ ask[h].query = ""  BY DEF Dispatch, Downloads
  <2>4. hand[h].kind \in {"none", "dir", "file"}  BY <1>1 DEF Hands
  <2>5. d \in {Go("list"), Go("open"), Answer(404)}  BY <2>3, <2>4 DEF OnGet
  <2>6. Finish(h, Status(404)) \/ Follow(h, d)  BY <2>1 DEF Contain
  <2> HIDE DEF d
  <2>7. Finish(h, Status(404)) \/ \E t : Step(h, t)
    BY <2>5, <2>6 DEF Follow, Go, Answer
  <2>. QED  BY <1>4, <1>6, <2>7 DEF Finish, Step
<1>10. ~List(h)
  <2>1. SUFFICES ASSUME List(h) PROVE FALSE  OBVIOUS
  <2> DEFINE names == Listed(disk, ask[h].path, ListingAccess(ask[h]))
             r == [Status(200) EXCEPT !.shown = names]
  <2>2. Finish(h, Status(403)) \/ Finish(h, r)  BY <2>1 DEF List, Downloads
  <2>3. r.status = 200  BY DEF Status, NoReply
  <2> HIDE DEF r
  <2>4. reply'[h] = r => FALSE  BY <2>3
  <2>. QED  BY <1>1, <1>6, <2>2, <2>4 DEF Finish
<1>11. ~Open(h)  BY <1>4, <1>6 DEF Open, Fail, Finish
<1>12. ~Send(h)
  <2>1. SUFFICES ASSUME Send(h) PROVE FALSE  OBVIOUS
  <2>2. \/ \E w \in BOOLEAN : reply' = [reply EXCEPT ![h] = [reply[h] EXCEPT !.whole = w]]
        \/ \E q : reply' = [reply EXCEPT ![h].part = q]
    BY <2>1 DEF Send, Finish
  <2>3. reply'[h].status = reply[h].status  BY <1>1, <2>2 DEF Replies
  <2>. QED  BY <2>3
<1>13. Meta(h)  BY <1>3, <1>7, <1>8, <1>9, <1>10, <1>11, <1>12
<1>14. IsFile(e)
  <2>1. SUFFICES ASSUME ~IsFile(e) PROVE FALSE  OBVIOUS
  <2>. QED  BY <1>6, <1>13, <2>1 DEF Meta, Fail, Finish
<1>15. \/ \E n \in {200, 206} : reply' = [reply EXCEPT ![h] = Header(size, stamp, n)]
       \/ reply' = [reply EXCEPT ![h] = HeaderOnly(size, stamp, 416)]
  BY <1>13, <1>14 DEF Meta, Downloads, Finish, Header, HeaderOnly
<1>16. p \in Paths /\ disk.entry \in Entries  BY <1>1, Handler
<1>17. e \in Files  BY <1>14, <1>16, EntryKinds
<1>18. size \in Nat /\ stamp \in Nat  BY <1>1, <1>16, <1>17, SizeIsNat, DataOf
<1> HIDE DEF size, stamp
<1>19. \E n \in {200, 206} : reply'[h] = Header(size, stamp, n)
  <2>1. HeaderOnly(size, stamp, 416).status = 416  BY <1>18, HeaderIs
  <2>. QED  BY <1>1, <1>15, <2>1
<1>20. reply'[h].stamp = stamp  BY <1>18, <1>19, HeaderIs
<1>. QED  BY <1>14, <1>20 DEF stamp

\* A part was asked for, and of the file as it is.
LEMMA PartIsAsked ==
  ASSUME NEW h \in Handlers, Reading(h)', reply'[h].status = 206, ask'[h] = ask[h]
  PROVE  ask[h].range # NoRange /\ ask[h].ifrange \in {0, reply'[h].stamp}
<1> DEFINE a == ask'[h]
           k == hand'[h]
           r == reply'[h]
           e == disk'.entry[a.path]
           d == DataAt(ask[h].path)'
<1>1. Reads(a, k, r, e, d)  BY DEF Reading
<1>2. r.status # NoReply.status /\ r.status # 200  BY DEF NoReply
<1> HIDE DEF a, k, r, e, d
<1>3. r.status = 206  BY DEF r
<1>4. k.step \in {"send", "done"} /\ Gives(a, r, d)  BY <1>1, <1>2, <1>3 DEF Reads
<1>. QED  BY <1>3, <1>4 DEF Gives, a, r

\* A beginning of a file.
Beginning(part, d) == Len(part) =< Len(d) /\ part = SubSeq(d, 1, Len(part))

\* What the browser has so far, if all was calm: a beginning of the file that
\* has its stamp, if there still is one.
HasBeginning ==
  browser.calm =>
    /\ browser.stamp =< clock /\ (browser.part # <<>> => browser.stamp > 0)
    /\ \A f \in Files : disk.stamp[f] = browser.stamp => Beginning(browser.part, disk.data[f])

\* It waits for the answer to what it asked for, which reads what is there
\* while the target stays; a part of it goes on where the browser was.
BrowserReads ==
  /\ hand[browser.h].step # "none" /\ ask[browser.h] = BrowserAsk
  /\ still => Reading(browser.h)
  /\ still /\ browser.calm /\ reply[browser.h].status = 206 =>
       Beginning(browser.part, DataAt(Target))

BrowserInv == HasBeginning /\ (browser.st = "getting" => BrowserReads)

\* What the browser asks for.
LEMMA BrowserAskIs ==
  ASSUME ServerOK, BrowserOK
  PROVE  /\ BrowserAsk.path = Target /\ Downloads(BrowserAsk) /\ Target \in Paths
         /\ browser.part = <<>> => BrowserAsk.range = NoRange
         /\ browser.part # <<>> =>
              /\ BrowserAsk.range.kind = "from" /\ BrowserAsk.range.a = Len(browser.part)
              /\ BrowserAsk.range.b = Word /\ BrowserAsk.ifrange = browser.stamp
<1> DEFINE q == Request("browser", "GET", Target)
           range == [kind |-> "from", a |-> Len(browser.part), b |-> Word]
           s == [q EXCEPT !.range = range]
           t == [s EXCEPT !.ifrange = browser.stamp]
<1>1. q = [by |-> "browser", method |-> "GET", path |-> Target, query |-> "", dest |-> <<>>,
           who |-> share.who, range |-> NoRange, ifrange |-> 0, body |-> <<>>]
  BY PlainAsk
<1>2. Target \in Paths  BY ShareClientsAssumption DEF ServerOK, UsesOK, Target
<1>3. BrowserAsk = IF browser.part = <<>> THEN q ELSE t  BY DEF BrowserAsk
<1>4. range.kind = "from" /\ range.a = Len(browser.part) /\ range.b = Word  OBVIOUS
<1> HIDE DEF q, range
<1>5. /\ s.path = Target /\ s.method = "GET" /\ s.query = "" /\ s.range = range
      /\ DOMAIN s = {"by", "method", "path", "query", "dest", "who", "range", "ifrange", "body"}
  BY <1>1
<1> HIDE DEF s
<1>6. /\ t.path = Target /\ t.method = "GET" /\ t.query = "" /\ t.range = range
      /\ t.ifrange = browser.stamp
  BY <1>5
<1> HIDE DEF t
<1>7. q.path = Target /\ q.method = "GET" /\ q.query = "" /\ q.range = NoRange  BY <1>1
<1>8. CASE browser.part = <<>>
  <2>1. BrowserAsk = q  BY <1>3, <1>8
  <2>. QED  BY <1>2, <1>7, <1>8, <2>1 DEF Downloads
<1>9. CASE browser.part # <<>>
  <2>1. BrowserAsk = t  BY <1>3, <1>9
  <2>. QED  BY <1>2, <1>4, <1>6, <1>9, <2>1 DEF Downloads
<1>. QED  BY <1>8, <1>9

\* What the browser has of an answer it takes.
LEMMA BrowserHas ==
  ASSUME ServerOK, BrowserOK, still \in BOOLEAN, BrowserTakes
  PROVE  LET r == reply[browser.h] IN
         /\ browser.h \in Handlers /\ browser.st = "getting" /\ Done(browser.h)
         /\ UNCHANGED vars /\ browser'.st # "getting"
         /\ \/ /\ browser'.part = browser.part /\ browser'.stamp = browser.stamp
               /\ browser'.calm = browser.calm /\ browser'.st # "ok"
            \/ /\ r.status = 200
               /\ browser'.part = r.part /\ browser'.stamp = r.stamp
               /\ browser'.calm => still
               /\ browser'.st = "ok" => r.whole
            \/ /\ r.status = 206
               /\ browser'.part = browser.part \o r.part /\ browser'.stamp = browser.stamp
               /\ browser'.calm => browser.calm /\ still
               /\ browser'.st = "ok" => r.whole
<1> DEFINE r == reply[browser.h]
           st == IF r.whole THEN "ok" ELSE "broken"
           both == browser.calm /\ still
<1>1. /\ browser \in Browsers /\ browser.h \in Handlers /\ browser.st = "getting"
      /\ Done(browser.h) /\ UNCHANGED vars
  BY DEF BrowserTakes, BrowserOK
<1>2. r.part \in Seq(Blocks) /\ r.stamp \in Nat /\ r.whole \in BOOLEAN
  BY <1>1 DEF ServerOK, Replies
<1>3. browser.part \o r.part \in Seq(Blocks)
  BY <1>1, <1>2, ConcatProperties DEF Browsers
<1>4. \/ \E s \in {"broken", "refused"} : browser' = [browser EXCEPT !.st = s]
      \/ /\ r.status = 200
         /\ browser' = [browser EXCEPT !.st = st, !.part = r.part, !.stamp = r.stamp,
                                       !.calm = still]
      \/ /\ r.status = 206
         /\ browser' = [browser EXCEPT !.st = st, !.part = browser.part \o r.part,
                                       !.calm = both]
  BY DEF BrowserTakes
<1>5. st \in {"ok", "broken"} /\ (st = "ok" => r.whole)  OBVIOUS
<1>6. both \in BOOLEAN /\ (both => browser.calm /\ still)  BY <1>1 DEF Browsers
<1> HIDE DEF st, both
<1>7. ASSUME NEW s \in {"broken", "refused"}, browser' = [browser EXCEPT !.st = s]
      PROVE  /\ browser'.part = browser.part /\ browser'.stamp = browser.stamp
             /\ browser'.calm = browser.calm /\ browser'.st = s
  BY <1>1, <1>7 DEF Browsers
<1> DEFINE Taken(part, stamp, calm) ==
             /\ browser'.st = st /\ browser'.part = part /\ browser'.stamp = stamp
             /\ browser'.calm = calm
<1>8. ASSUME browser' = [browser EXCEPT !.st = st, !.part = r.part, !.stamp = r.stamp,
                                        !.calm = still]
      PROVE  Taken(r.part, r.stamp, still)
  <2> DEFINE u == [browser EXCEPT !.st = st]
             v == [u EXCEPT !.part = r.part]
             w == [v EXCEPT !.stamp = r.stamp]
             x == [w EXCEPT !.calm = still]
  <2>1. browser' = x  BY <1>8
  <2>2. u \in Browsers /\ u.st = st  BY <1>1, <1>5 DEF Browsers
  <2> HIDE DEF u
  <2>3. v \in Browsers /\ v.st = st /\ v.part = r.part  BY <1>2, <2>2 DEF Browsers
  <2> HIDE DEF v
  <2>4. w \in Browsers /\ w.st = st /\ w.part = r.part /\ w.stamp = r.stamp
    BY <1>2, <2>3 DEF Browsers
  <2> HIDE DEF w
  <2>5. x.st = st /\ x.part = r.part /\ x.stamp = r.stamp /\ x.calm = still
    BY <2>4 DEF Browsers
  <2>. QED  BY <2>1, <2>5
<1>9. ASSUME browser' = [browser EXCEPT !.st = st, !.part = browser.part \o r.part, !.calm = both]
      PROVE  Taken(browser.part \o r.part, browser.stamp, both)
  <2> DEFINE part == browser.part \o r.part
             u == [browser EXCEPT !.st = st]
             v == [u EXCEPT !.part = part]
             w == [v EXCEPT !.calm = both]
  <2>1. browser' = w  BY <1>9
  <2>2. u \in Browsers /\ u.st = st /\ u.stamp = browser.stamp  BY <1>1, <1>5 DEF Browsers
  <2> HIDE DEF u
  <2>3. part \in Seq(Blocks)  BY <1>3
  <2>4. v \in Browsers /\ v.st = st /\ v.part = part /\ v.stamp = browser.stamp
    <3> HIDE DEF part
    <3>. QED  BY <2>2, <2>3 DEF Browsers
  <2> HIDE DEF v
  <2>5. w.st = st /\ w.part = part /\ w.stamp = browser.stamp /\ w.calm = both
    BY <2>4 DEF Browsers
  <2>. QED  BY <2>1, <2>5
<1> HIDE DEF r
<1>10. CASE \E s \in {"broken", "refused"} : browser' = [browser EXCEPT !.st = s]
  <2>1. PICK s \in {"broken", "refused"} : browser' = [browser EXCEPT !.st = s]  BY <1>10
  <2>2. s # "getting" /\ s # "ok"  BY <2>1
  <2>. QED  BY <1>1, <1>7, <2>1, <2>2
<1>11. CASE r.status = 200 /\ Taken(r.part, r.stamp, still)
  <2>1. browser'.st # "getting"  BY <1>5, <1>11
  <2>. QED  BY <1>1, <1>5, <1>11, <2>1 DEF r
<1>12. CASE r.status = 206 /\ Taken(browser.part \o r.part, browser.stamp, both)
  <2>1. browser'.st # "getting"  BY <1>5, <1>12
  <2>. QED  BY <1>1, <1>5, <1>6, <1>12, <2>1 DEF r
<1>. QED  BY <1>4, <1>8, <1>9, <1>10, <1>11, <1>12

\* What happens to files takes nothing from the browser.
LEMMA BeginningStays ==
  ASSUME ServerOK, BrowserOK, FilesKept \/ FileWritten, browser' = browser,
         HasBeginning
  PROVE  HasBeginning'
<1>1. browser.stamp \in Nat /\ clock \in Nat /\ clock' \in {clock, clock + 1}
  BY DEF BrowserOK, Browsers, ServerOK, DiskOK, FilesKept, FileWritten
<1>2. /\ clock =< clock'
      /\ browser.stamp =< clock =>
           \A f \in Files : disk'.stamp[f] = browser.stamp =>
             disk.stamp[f] = browser.stamp /\ disk'.data[f] = disk.data[f]
  BY <1>1, KnownStays
<1>. QED  BY <1>1, <1>2 DEF HasBeginning

\* While the browser waits, the others do as they like.
LEMMA BrowserWaits ==
  ASSUME ReadInv, BrowserInv, browser.st = "getting", browser' = browser, ServerMoves,
         FilesKept \/ FileWritten, still' => still /\ TargetStays
  PROVE  BrowserReads'
<1> DEFINE h == browser.h
<1>1. /\ ServerOK /\ BrowserOK /\ VersionsOK /\ h \in Handlers
  BY DEF ReadInv, ShareInv, ClientsOK, BrowserOK
<1>2. hand[h].step # "none" /\ ask[h] = BrowserAsk  BY DEF BrowserInv, BrowserReads
<1>3. share' = share /\ Target' = Target /\ BrowserAsk' = BrowserAsk
  BY <1>1, ShareStays DEF Target, BrowserAsk, Request, RequestOf
<1>4. ask[h].path = Target /\ Downloads(ask[h]) /\ Target \in Paths
  BY <1>1, <1>2, BrowserAskIs
<1> DEFINE Part == still' /\ browser.calm /\ reply'[h].status = 206 =>
                     Beginning(browser.part, DataAt(Target)')
           Goal == /\ hand'[h].step # "none" /\ ask'[h] = ask[h]
                   /\ still' => Reading(h)'
                   /\ Part
<1>5. ASSUME Goal PROVE BrowserReads'
  BY <1>2, <1>3, <1>5 DEF BrowserReads
<1>6. still' => Reading(h)  BY DEF BrowserInv, BrowserReads
<1>7. still' => /\ disk'.entry[Target] = disk.entry[Target]
                /\ DataAt(Target)' = DataAt(Target)
  BY DEF TargetStays
<1>8. ASSUME reply'[h].status = 206 => reply[h].status = 206 PROVE Part
  BY <1>7, <1>8 DEF BrowserInv, BrowserReads
<1>9. ASSUME hand'[h] = hand[h], reply'[h] = reply[h], ask'[h] = ask[h] PROVE Goal
  <2>1. ASSUME still' PROVE Reading(h)'
    <3>1. DataAt(ask[h].path)' = DataAt(ask[h].path)
      BY <1>3, <1>4, <1>7, <1>9, <2>1 DEF DataAt
    <3>. QED  BY <1>1, <1>2, <1>4, <1>6, <1>7, <1>9, <2>1, <3>1, ReadingStays
  <2>. QED  BY <1>2, <1>8, <1>9, <2>1
<1>10. CASE Handle(h)
  <2>1. hand'[h].step # "none" /\ ask'[h] = ask[h]
    BY <1>1, <1>10, HandleMoves DEF OnlyItself
  <2>2. ASSUME still' PROVE Reading(h)' /\ UNCHANGED diskVars
    BY <1>1, <1>4, <1>6, <1>10, <2>2, OwnStep
  <2>3. ASSUME still', browser.calm, reply'[h].status = 206, reply[h].status # 206
        PROVE  Beginning(browser.part, DataAt(Target)')
    <3> DEFINE e == disk.entry[Target]
               r == reply'[h]
    <3>1. IsFile(e) /\ r.stamp = disk.stamp[e]
      BY <1>1, <1>4, <1>6, <1>10, <2>3, PartHasStamp
    <3>2. e \in Files /\ DataAt(Target) = disk.data[e] /\ disk.stamp[e] > 0
          /\ disk.stamp[e] \in Nat
      BY <1>1, <1>4, <3>1, FileThere
    <3>3. ask'[h] = ask[h] /\ Reading(h)'  BY <2>1, <2>2, <2>3
    <3>4. ask[h].range # NoRange /\ ask[h].ifrange \in {0, r.stamp}
      BY <1>1, <2>3, <3>3, PartIsAsked
    <3>5. browser.part # <<>> /\ ask[h].ifrange = browser.stamp
      BY <1>1, <1>2, <3>4, BrowserAskIs
    <3>6. browser.stamp > 0 /\ browser.stamp \in Nat
      BY <1>1, <2>3, <3>5 DEF BrowserInv, HasBeginning, BrowserOK, Browsers
    <3>7. disk.stamp[e] = browser.stamp  BY <3>1, <3>2, <3>4, <3>5, <3>6
    <3>8. Beginning(browser.part, disk.data[e])  BY <2>3, <3>2, <3>7 DEF BrowserInv, HasBeginning
    <3>. QED  BY <1>7, <2>3, <3>2, <3>8
  <2>4. Part  BY <1>8, <2>3
  <2>5. Goal  BY <2>1, <2>2, <2>4
  <2>. QED  BY <1>5, <2>5
<1>11. ASSUME NEW i \in Handlers, Handle(i), i # h PROVE Goal
  <2>1. hand'[h] = hand[h] /\ reply'[h] = reply[h] /\ ask'[h] = ask[h]
    BY <1>1, <1>11, HandleMoves DEF OnlyItself
  <2>. QED  BY <1>9, <2>1
<1>12. ASSUME NEW i \in Handlers, NEW a, Submit(i, a) PROVE Goal
  <2>1. OnlyItself(i) /\ hand[i].step = "none" /\ \A j \in Handlers : j # i => ask'[j] = ask[j]
    BY <1>1, <1>12, SubmitMoves
  <2>2. h # i  BY <1>2, <2>1
  <2>. QED  BY <1>1, <1>9, <2>1, <2>2 DEF OnlyItself
<1>13. ASSUME NEW i \in Handlers, Lose(i) PROVE Goal
  <2>1. UNCHANGED <<share, disk, clock, restarts, ask, hand, reply>>
    BY <1>1, <1>13, LoseMoves
  <2>. QED  BY <1>9, <2>1
<1>14. CASE UNCHANGED vars  BY <1>5, <1>9, <1>14 DEF vars
<1>15. CASE Restart
  <2>1. /\ ask' = ask
        /\ Running(h) => hand'[h].step = "done" /\ reply'[h] = [reply[h] EXCEPT !.whole = FALSE]
        /\ ~Running(h) => hand'[h] = hand[h] /\ reply'[h] = reply[h]
    BY <1>1, <1>15, RestartMoves
  <2>2. reply[h] \in Replies  BY <1>1 DEF ServerOK
  <2>3. reply'[h].status = reply[h].status  BY <2>1, <2>2 DEF Replies
  <2>4. hand'[h].step # "none"  BY <1>2, <2>1
  <2>5. still' => Reading(h)'  BY <1>1, <1>6, <1>15, RestartReads
  <2>6. Part  BY <1>8, <2>3
  <2>7. Goal  BY <2>1, <2>4, <2>5, <2>6
  <2>. QED  BY <1>5, <2>7
<1>. QED  BY <1>5, <1>10, <1>11, <1>12, <1>13, <1>14, <1>15 DEF ServerMoves

\* The browser asks.
LEMMA BrowserBegins ==
  ASSUME ReadInv, BrowserInv, BrowserGets
  PROVE  BrowserInv'
<1>1. /\ ServerOK /\ BrowserOK /\ Untouched /\ browser \in Browsers
  BY DEF ReadInv, ShareInv, ClientsOK, BrowserOK
<1>2. PICK h \in Handlers :
        /\ Submit(h, BrowserAsk)
        /\ browser' = [browser EXCEPT !.st = "getting", !.h = h, !.tries = @ + 1]
  BY DEF BrowserGets
<1>3. /\ browser'.st = "getting" /\ browser'.h = h /\ browser'.part = browser.part
      /\ browser'.stamp = browser.stamp /\ browser'.calm = browser.calm
  <2> DEFINE u == [browser EXCEPT !.st = "getting"]
             v == [u EXCEPT !.h = h]
             w == [v EXCEPT !.tries = browser.tries + 1]
  <2>1. browser' = w /\ browser.tries + 1 \in Nat  BY <1>1, <1>2 DEF Browsers
  <2>2. /\ u \in Browsers /\ u.st = "getting" /\ u.part = browser.part
        /\ u.stamp = browser.stamp /\ u.calm = browser.calm
    BY <1>1 DEF Browsers
  <2> HIDE DEF u
  <2>3. /\ v \in Browsers /\ v.st = "getting" /\ v.h = h /\ v.part = browser.part
        /\ v.stamp = browser.stamp /\ v.calm = browser.calm
    BY <2>2 DEF Browsers, Waits
  <2> HIDE DEF v
  <2>4. /\ w.st = "getting" /\ w.h = h /\ w.part = browser.part
        /\ w.stamp = browser.stamp /\ w.calm = browser.calm
    BY <2>1, <2>3 DEF Browsers
  <2>. QED  BY <2>1, <2>4
<1>4. UNCHANGED <<share, disk, clock, restarts>> /\ ask'[h] = BrowserAsk /\ OnlyItself(h)
  BY <1>1, <1>2, SubmitMoves
<1>5. BrowserAsk' = BrowserAsk
  BY <1>3, <1>4 DEF BrowserAsk, Request, RequestOf, Target
<1>6. Downloads(BrowserAsk)  BY <1>1, BrowserAskIs
<1>7. Reading(h)' /\ reply'[h].status \notin {200, 206}
  BY <1>1, <1>2, <1>6, SubmitReads
<1>8. BrowserReads'  BY <1>3, <1>4, <1>5, <1>7 DEF BrowserReads, OnlyItself
<1>9. HasBeginning'  BY <1>3, <1>4 DEF BrowserInv, HasBeginning
<1>. QED  BY <1>3, <1>4, <1>8, <1>9 DEF BrowserInv

\* What an answer gives that is over, if the target stayed.
LEMMA AnswerGives ==
  ASSUME ReadInv, BrowserInv, browser.st = "getting", Done(browser.h), still,
         reply[browser.h].status \in {200, 206}
  PROVE  LET h == browser.h
             a == ask[h]
             r == reply[h]
             d == DataAt(Target)
         IN  \/ /\ d \in Seq(Blocks) /\ Len(d) < Word
                /\ Gives(a, r, d) /\ Version(r.stamp, d)
                /\ r.whole => Given(a, r, d) = PartTo(a, r.status, d)
             \/ r.status = 200 /\ r.part = <<>> /\ r.stamp = 0 /\ d = <<>>
<1> DEFINE h == browser.h
           a == ask[h]
           e == disk.entry[Target]
           d == DataAt(Target)
           r == reply[h]
<1>1. ServerOK /\ BrowserOK /\ VersionsOK /\ h \in Handlers
  BY DEF ReadInv, ShareInv, ClientsOK, BrowserOK
<1>2. Reading(h) /\ a = BrowserAsk /\ hand[h].step = "done"  BY DEF BrowserInv, BrowserReads, Done
<1>3. a.path = Target /\ Target \in Paths  BY <1>1, <1>2, BrowserAskIs
<1>4. Reads(a, hand[h], r, e, d) /\ (r.stamp # 0 => Version(r.stamp, d))
  BY <1>2, <1>3 DEF Reading
<1>5. CASE /\ IsFile(e) /\ Gives(a, r, d)
           /\ r.whole => Given(a, r, d) = PartTo(a, r.status, d)
  <2>1. d \in Seq(Blocks) /\ Len(d) < Word  BY <1>1, <1>3, <1>5, FileThere
  <2>2. r.stamp > 0 /\ r.stamp \in Nat  BY <1>1, <1>5 DEF Gives, ServerOK, Replies
  <2>3. Version(r.stamp, d)  BY <1>4, <2>2
  <2>. QED  BY <1>5, <2>1, <2>3
<1>6. CASE e = Folder /\ r.status = 200 /\ r.part = <<>> /\ r.stamp = 0
  <2>1. ~IsFile(e)  BY <1>6 DEF IsFile, Folder
  <2>2. d = <<>>  BY <2>1 DEF DataAt
  <2>. QED  BY <1>6, <2>2
<1>. QED  BY <1>2, <1>4, <1>5, <1>6 DEF Reads

\* What has come of a file is a beginning of it: a first answer alone, or with
\* what the browser had before.
LEMMA AnswerContinues ==
  ASSUME ReadInv, BrowserInv, browser.st = "getting", still,
         NEW r, r = reply[browser.h], NEW d \in Seq(Blocks), d = DataAt(Target), Len(d) < Word,
         Gives(ask[browser.h], r, d), r.part \in Seq(Blocks)
  PROVE  /\ r.status = 200 =>
              /\ Beginning(r.part, d)
              /\ Given(ask[browser.h], r, d) = PartTo(ask[browser.h], r.status, d) =>
                   r.part = d
         /\ r.status = 206 /\ browser.calm =>
              /\ browser.part # <<>> /\ r.stamp = browser.stamp
              /\ Beginning(browser.part \o r.part, d)
              /\ Given(ask[browser.h], r, d) = PartTo(ask[browser.h], r.status, d) =>
                   browser.part \o r.part = d
<1> DEFINE h == browser.h
           a == ask[h]
           part == browser.part
           n == Len(d)
           k == Len(r.part)
           m == Len(part)
           given == Given(a, r, d)
           to == PartTo(a, r.status, d)
<1>1. ServerOK /\ BrowserOK /\ h \in Handlers /\ part \in Seq(Blocks) /\ browser.stamp \in Nat
  BY DEF ReadInv, ShareInv, ClientsOK, BrowserOK, Browsers
<1>2. a = BrowserAsk  BY DEF BrowserInv, BrowserReads
<1>3. n \in Nat /\ k \in Nat /\ m \in Nat  BY <1>1, LenProperties
<1>4. given =< to /\ r.part = SubSeq(d, PartFrom(a, r.status, d) + 1, given)
      /\ given = PartFrom(a, r.status, d) + k
  BY DEF Gives, Given
<1> HIDE DEF given, to
<1>5. ASSUME r.status = 200
      PROVE  Beginning(r.part, d) /\ (given = to => r.part = d)
  <2>1. PartFrom(a, r.status, d) = 0 /\ to = n  BY <1>5 DEF PartFrom, PartTo, to
  <2>2. given = k /\ k =< n /\ r.part = SubSeq(d, 1, k)  BY <1>3, <1>4, <2>1
  <2>3. given = to => r.part = d  BY <2>1, <2>2, PieceIsAll
  <2>. QED  BY <2>2, <2>3 DEF Beginning
<1>6. ASSUME r.status = 206, browser.calm
      PROVE  /\ part # <<>> /\ r.stamp = browser.stamp
             /\ Beginning(part \o r.part, d) /\ (given = to => part \o r.part = d)
  <2>1. /\ ParseRange(a.range, n).ok /\ a.range # NoRange /\ a.ifrange \in {0, r.stamp}
        /\ r.stamp > 0
    BY <1>6 DEF Gives
  <2>2. /\ part # <<>> /\ a.range.kind = "from" /\ a.range.a = m /\ a.range.b = Word
        /\ a.ifrange = browser.stamp
    BY <1>1, <1>2, <2>1, BrowserAskIs
  <2>3. browser.stamp > 0  BY <1>6, <2>2 DEF BrowserInv, HasBeginning
  <2>4. r.stamp = browser.stamp  BY <1>1, <2>1, <2>2, <2>3
  <2> DEFINE p == ParseRange(a.range, n)
  <2>5. Word \in Nat  BY FileRequestsAssumption
  <2>6. p.start = m /\ m + RangeSize(p) = n
    <3>1. a.range.a \in Nat /\ a.range.b \in Nat  BY <1>3, <2>2, <2>5
    <3>. QED  BY <1>3, <2>1, <2>2, <3>1, FromRange
  <2>7. PartFrom(a, r.status, d) = m /\ to = n  BY <1>6, <2>6 DEF PartFrom, PartTo, to
  <2>8. given = m + k /\ given =< n /\ r.part = SubSeq(d, m + 1, given)
    BY <1>4, <2>7
  <2>9. part = SubSeq(d, 1, m)  BY <1>6 DEF BrowserInv, BrowserReads, Beginning
  <2>10. part \o r.part = SubSeq(d, 1, given)
    <3>1. /\ m \in Nat /\ k \in Nat /\ n \in Nat /\ given = m + k /\ given =< n
          /\ r.part = SubSeq(d, m + 1, given) /\ part = SubSeq(d, 1, m)
      BY <1>3, <2>8, <2>9
    <3>2. given =< Len(d)  BY <3>1
    <3> HIDE DEF m, n, k, part
    <3>3. given \in Nat /\ m =< given  BY <3>1
    <3> DEFINE one == 0 + 1
    <3>4. SubSeq(d, one, m) \o SubSeq(d, m + 1, given) = SubSeq(d, one, given)
      <4>1. 0 \in Nat /\ 0 =< m  BY <3>1
      <4>. QED  BY <3>1, <3>2, <3>3, <4>1, PiecesJoin
    <3>5. one = 1  OBVIOUS
    <3> HIDE DEF one
    <3>6. SubSeq(d, 1, m) \o SubSeq(d, m + 1, given) = SubSeq(d, 1, given)  BY <3>4, <3>5
    <3>. QED  BY <3>1, <3>6
  <2>11. Len(part \o r.part) = given  BY <1>1, <1>3, <2>8, ConcatProperties
  <2>12. given = to => part \o r.part = d  BY <2>7, <2>10, PieceIsAll
  <2>. QED  BY <2>2, <2>4, <2>8, <2>10, <2>11, <2>12 DEF Beginning
<1>. QED  BY <1>5, <1>6 DEF given, to

\* The browser takes an answer.
LEMMA BrowserGoesOn ==
  ASSUME ReadInv, BrowserInv, BrowserTakes
  PROVE  /\ BrowserInv'
         /\ browser'.st = "ok" /\ browser'.calm => browser'.part = DataAt(Target)
<1> DEFINE h == browser.h
           r == reply[h]
           d == DataAt(Target)
<1>1. /\ ServerOK /\ BrowserOK /\ VersionsOK /\ still \in BOOLEAN /\ h \in Handlers
      /\ browser.st = "getting" /\ Done(h)
  BY DEF ReadInv, ShareInv, ClientsOK, BrowserOK, BrowserTakes
<1>2. r.part \in Seq(Blocks) /\ r.stamp \in Nat /\ clock \in Nat
  BY <1>1 DEF ServerOK, Replies, DiskOK
<1>3. UNCHANGED vars /\ browser'.st # "getting"  BY <1>1, BrowserHas
<1>4. UNCHANGED disk /\ UNCHANGED clock  BY <1>3 DEF vars
<1> DEFINE Same == /\ browser'.part = browser.part /\ browser'.stamp = browser.stamp
                   /\ browser'.calm = browser.calm /\ browser'.st # "ok"
           First == /\ r.status = 200
                    /\ browser'.part = r.part /\ browser'.stamp = r.stamp
                    /\ browser'.calm => still
                    /\ browser'.st = "ok" => r.whole
           More == /\ r.status = 206
                   /\ browser'.part = browser.part \o r.part /\ browser'.stamp = browser.stamp
                   /\ browser'.calm => browser.calm /\ still
                   /\ browser'.st = "ok" => r.whole
           Known == /\ browser'.stamp =< clock /\ (browser'.part # <<>> => browser'.stamp > 0)
                    /\ \A f \in Files : disk.stamp[f] = browser'.stamp =>
                         Beginning(browser'.part, disk.data[f])
                    /\ browser'.st = "ok" => browser'.part = d
           Goal == browser'.calm => Known
<1>5. Same \/ First \/ More  BY <1>1, BrowserHas
<1>6. ASSUME Goal
      PROVE  /\ BrowserInv'
             /\ browser'.st = "ok" /\ browser'.calm => browser'.part = DataAt(Target)
  BY <1>3, <1>4, <1>6 DEF BrowserInv, HasBeginning
<1>7. CASE Same  BY <1>6, <1>7 DEF BrowserInv, HasBeginning
<1>8. ASSUME First, browser'.calm, still PROVE Known
  <2>1. r.status \in {200, 206} /\ r.status # 206  BY <1>8
  <2>2. CASE /\ d \in Seq(Blocks) /\ Len(d) < Word
             /\ Gives(ask[h], r, d) /\ Version(r.stamp, d)
             /\ r.whole => Given(ask[h], r, d) = PartTo(ask[h], r.status, d)
    <3>1. /\ Beginning(r.part, d)
          /\ Given(ask[h], r, d) = PartTo(ask[h], r.status, d) => r.part = d
      BY <1>1, <1>2, <1>8, <2>2, AnswerContinues
    <3>2. r.stamp > 0  BY <2>2 DEF Gives
    <3>. QED  BY <1>8, <2>2, <3>1, <3>2 DEF Version
  <2>3. CASE r.part = <<>> /\ r.stamp = 0 /\ d = <<>>
    <3>1. \A f \in Files : disk.stamp[f] # 0  BY <1>1 DEF VersionsOK
    <3>. QED  BY <1>2, <1>8, <2>3, <3>1
  <2>. QED  BY <1>1, <1>8, <2>1, <2>2, <2>3, AnswerGives
<1>9. ASSUME More, browser'.calm, browser.calm, still PROVE Known
  <2>1. r.status \in {200, 206} /\ r.status # 200  BY <1>9
  <2>2. /\ d \in Seq(Blocks) /\ Len(d) < Word
        /\ Gives(ask[h], r, d) /\ Version(r.stamp, d)
        /\ r.whole => Given(ask[h], r, d) = PartTo(ask[h], r.status, d)
    BY <1>1, <1>9, <2>1, AnswerGives
  <2>3. /\ browser.part # <<>> /\ r.stamp = browser.stamp
        /\ Beginning(browser.part \o r.part, d)
        /\ Given(ask[h], r, d) = PartTo(ask[h], r.status, d) => browser.part \o r.part = d
    BY ZenonT(60), <1>1, <1>2, <1>9, <2>2, AnswerContinues
  <2>4. browser.stamp =< clock /\ browser.stamp > 0
    BY <1>9, <2>3 DEF BrowserInv, HasBeginning
  <2>. QED  BY ZenonT(60), <1>9, <2>2, <2>3, <2>4 DEF Version
<1>10. CASE First
  <2>1. browser'.calm => still  BY <1>10
  <2>. QED  BY <1>6, <1>8, <1>10, <2>1
<1>11. CASE More
  <2>1. browser'.calm => browser.calm /\ still  BY <1>11
  <2>. QED  BY <1>6, <1>9, <1>11, <2>1
<1>. QED  BY <1>5, <1>7, <1>10, <1>11

\* Whatever happens, the browser goes on as it must.
LEMMA BrowserStays ==
  ASSUME ReadInv, BrowserInv, [Next]_allVars
  PROVE  /\ BrowserInv'
         /\ browser.st = "getting" /\ browser'.st = "ok" /\ browser'.calm =>
              browser'.part = DataAt(Target)
<1>1. ServerOK /\ BrowserOK /\ ServerMoves /\ (FilesKept \/ FileWritten)
  BY ReadStays DEF ReadInv, ShareInv, ClientsOK
<1>2. CASE BrowserGets
  <2>1. browser'.st # "ok"
    <3>1. PICK h \in Handlers :
            browser' = [browser EXCEPT !.st = "getting", !.h = h, !.tries = @ + 1]
      BY <1>2 DEF BrowserGets
    <3>. QED  BY <1>1, <3>1 DEF BrowserOK, Browsers
  <2>. QED  BY <1>2, <2>1, BrowserBegins
<1>3. CASE BrowserTakes  BY <1>3, BrowserGoesOn
<1>4. CASE ~BrowserGets /\ ~BrowserTakes
  <2>1. browser' = browser
    BY <1>4 DEF Next, Moves, allVars, clientVars, GuestSends, GuestLeaves, PageUploads,
                PageUnreached, PageHears, PageLoses, PageProgress, PageRetries, PageResumes,
                AgentCalls, AgentHears, AgentLoses, BrowserLoses
  <2>2. HasBeginning'  BY <1>1, <2>1, BeginningStays DEF BrowserInv
  <2>3. ASSUME browser.st = "getting" PROVE BrowserReads'
    <3>1. CASE Next
      <4>1. still' => still /\ TargetStays  BY <2>1, <2>3, <3>1 DEF Next, Watch
      <4>. QED  BY <1>1, <2>1, <2>3, <4>1, BrowserWaits
    <3>2. CASE UNCHANGED allVars
      <4>1. still' => still /\ TargetStays  BY <3>2 DEF allVars, TargetStays, DataAt, Target
      <4>. QED  BY <1>1, <2>1, <2>3, <4>1, BrowserWaits
    <3>. QED  BY <3>1, <3>2
  <2>. QED  BY <2>1, <2>2, <2>3 DEF BrowserInv
<1>. QED  BY <1>2, <1>3, <1>4

\* What the browser relies on, at all times.
THEOREM BrowserInvariant == Spec => []BrowserInv
<1>1. ASSUME Init PROVE BrowserInv
  <2>1. disk.stamp = [f \in Files |-> f] /\ clock = MaxFiles /\ MaxFiles \in Nat
    BY <1>1, FileRequestsAssumption DEF Init, InitDisk
  <2>2. browser.stamp = 0 /\ browser.part = <<>> /\ browser.st = "idle"  BY <1>1 DEF Init
  <2>3. \A f \in Files : disk.stamp[f] # 0  BY <2>1 DEF Files
  <2>. QED  BY <2>1, <2>2, <2>3 DEF BrowserInv, HasBeginning
<1>2. ReadInv /\ BrowserInv /\ [Next]_allVars => BrowserInv'  BY BrowserStays
<1>. QED  BY <1>1, <1>2, ReadInvariant, PTL DEF Spec

\* A download put together from several answers is the file as it is when the
\* last one ends, if nothing happened to the path and to the file while an
\* answer was given: a change between two answers is noticed
\* (ResumedDownloadIsOneFile).
THEOREM ResumedIsOneFile == Spec => ResumedDownloadIsOneFile
<1>1. ReadInv /\ BrowserInv /\ [Next]_allVars
      => [browser.st = "getting" /\ browser'.st = "ok" /\ browser'.calm =>
            browser'.part = DataAt(Target)]_allVars
  BY BrowserStays
<1>. QED  BY <1>1, ReadInvariant, BrowserInvariant, PTL DEF Spec, ResumedDownloadIsOneFile

-----------------------------------------------------------------------------
(* One handler at a time: what it tells is the case.                       *)

\* The requests of the page and of the agent.
Ordinary(a) ==
  /\ a.method \in {"GET", "HEAD", "PUT", "PATCH", "DELETE", "MKCOL"}
  /\ a.query \in {"", "json", "q", "internal"}
  /\ a.query = "internal" => a.method = "GET"
  /\ a.method = "HEAD" => a.query = "" /\ a.range = NoRange
  /\ a.method = "PATCH" => a.range.kind = "append"

\* The content of what is at p on disk x.
DataIn(x, p) == IF IsFile(x.entry[p]) THEN x.data[x.entry[p]] ELSE <<>>

\* What handler k of request a has seen is so, if e is what its path is: nobody
\* else changes anything.
Sees(a, k, e) ==
  /\ k.step \notin {"none", "zip", "copystat", "destparent", "destprobe", "destcontain",
                    "destcontainparent", "transfer"}
  /\ k.step \in {"probe", "contain", "containparent"} => k.kind = KindOf(e)
  /\ k.step = "contain" => e # Absent
  /\ k.step = "containparent" => e = Absent
  /\ k.step \in {"list", "search"} => e = Folder
  /\ k.step \in {"list", "search", "json", "open", "meta", "send"} =>
       a.method \in {"GET", "HEAD"}
  /\ k.step \in {"search", "send"} => a.method = "GET"
  /\ k.step \in {"parent", "create", "body", "measure", "discard"} =>
       a.method \in {"PUT", "PATCH"}
  /\ k.step = "discard" => a.method = "PUT"
  /\ k.step = "delete" => a.method = "DELETE"
  /\ k.step = "mkcol" => a.method = "MKCOL"
  /\ k.step \notin {"send", "body", "measure", "discard"} => k.at = 0

\* An upload goes into the file at its path: a PUT has written what has come, a
\* PATCH writes at the end.
Uploads(a, k, e, d) ==
  k.step = "body" =>
    /\ IsFile(e) /\ k.file = e /\ k.at =< Len(a.body)
    /\ a.method = "PUT" => k.goal = 0 /\ d = SubSeq(a.body, 1, k.at)
    /\ a.method = "PATCH" => k.goal = Appending

\* What the answer r to request a in share s says of its path, what is there
\* (e, its data d), and what is above.
Tells(s, a, r, e, above, d) ==
  /\ Ok(r.status) =>
       /\ a.method = "GET" => r.status \in {200, 206}
       /\ a.method = "PUT" => IsFile(e) /\ d = a.body
       /\ a.method = "DELETE" => e = Absent
       /\ a.method = "MKCOL" => e = Folder
  /\ a.method = "HEAD" /\ r.status = 200 => r.size = Len(d)
  /\ r.status = 403 =>
       \/ ~s.upload \/ ~s.delete \/ e = Folder
       \/ Guard(s.rules, a.path, a.method, a.who).paths = Nothing
  /\ r.status = 404 => e = Absent /\ (a.method = "PUT" => above = Absent)

\* What holds of a handler that nobody interferes with, on disk x.
ServesOn(s, a, k, r, x) ==
  /\ Sees(a, k, x.entry[a.path])
  /\ Uploads(a, k, x.entry[a.path], DataIn(x, a.path))
  /\ k.step \notin {"send", "done"} => r.status = 0
  /\ k.step = "send" => r.status \in {200, 206}
  /\ k.step = "done" =>
       Tells(s, a, r, x.entry[a.path], x.entry[Parent(a.path)], DataIn(x, a.path))

Serves(h) == ServesOn(share, ask[h], hand[h], reply[h], disk)

\* What a step from k to l, with the answer r, does to the path of request a,
\* on disk x before and y after it: nothing, or what the method is for.
Affects(a, k, l, r, x, y) ==
  \/ /\ y.entry[a.path] = x.entry[a.path] /\ DataIn(y, a.path) = DataIn(x, a.path)
     /\ a.method = "PATCH" =>
          /\ l.step = "done" \/ l.at = k.at
          /\ l.step = "done" /\ Ok(r.status) => k.step = "body" /\ k.at = Len(a.body)
  \/ a.method = "PUT" /\ (l.step = "body" \/ y.entry[a.path] = Absent)
  \/ a.method \in {"DELETE", "MKCOL"}
  \/ /\ a.method = "PATCH" /\ k.step = "body" /\ l.step = "body"
     /\ y.entry[a.path] = x.entry[a.path]
     /\ k.at < Len(a.body) /\ l.at = k.at + 1
     /\ DataIn(y, a.path) = Append(DataIn(x, a.path), a.body[k.at + 1])

Effects(h) == Affects(ask[h], hand[h], hand'[h], reply'[h], disk, disk')

\* It is done, and tells what is the case.
LEMMA ServesDone ==
  ASSUME ServerOK, NEW h \in Handlers, NEW r, Finish(h, r), UNCHANGED <<share, ask>>,
         Tells(share, ask[h], r, disk'.entry[ask[h].path], disk'.entry[Parent(ask[h].path)],
               DataIn(disk', ask[h].path))
  PROVE  Serves(h)' /\ hand'[h].step = "done" /\ reply'[h] = r
<1> DEFINE k == [Free EXCEPT !.step = "done"]
           a == ask[h]
<1>1. k.step = "done" /\ k.at = 0  BY DEF Free
<1>2. hand'[h] = k /\ reply'[h] = r  BY DEF Finish, ServerOK
<1> HIDE DEF k
<1>3. ASSUME NEW e, NEW d PROVE Sees(a, k, e) /\ Uploads(a, k, e, d)
  BY <1>1 DEF Sees, Uploads
<1> HIDE DEF a
<1>4. ServesOn(share, a, k, r, disk')  BY <1>1, <1>3 DEF ServesOn, a
<1>. QED  BY <1>1, <1>2, <1>4 DEF Serves, a

\* It is done and has changed nothing.
LEMMA ServesKept ==
  ASSUME ServerOK, NEW h \in Handlers, NEW r, Finish(h, r), UNCHANGED <<share, ask, disk>>,
         Tells(share, ask[h], r, disk.entry[ask[h].path], disk.entry[Parent(ask[h].path)],
               DataIn(disk, ask[h].path)),
         ask[h].method = "PATCH" /\ Ok(r.status) =>
           hand[h].step = "body" /\ hand[h].at = Len(ask[h].body)
  PROVE  Serves(h)' /\ Effects(h)
<1>1. Serves(h)' /\ hand'[h].step = "done" /\ reply'[h] = r  BY ServesDone
<1>. QED  BY <1>1 DEF Effects, Affects

\* It is done with a status that says nothing of the path.
LEMMA ServesStatus ==
  ASSUME ServerOK, NEW h \in Handlers, NEW n \in {0, 400, 401, 405, 500}, Finish(h, Status(n)),
         UNCHANGED <<share, ask, disk>>
  PROVE  Serves(h)' /\ Effects(h)
<1>1. Status(n).status = n  BY DEF Status, NoReply
<1>2. ~Ok(n) /\ n # 200 /\ n # 403 /\ n # 404  BY DEF Ok
<1> DEFINE r == Status(n)
<1> HIDE DEF r
<1>3. \A s, a, e, above, d : Tells(s, a, r, e, above, d)  BY <1>1, <1>2 DEF Tells, r
<1>. QED  BY <1>1, <1>2, <1>3, ServesKept DEF r

\* It goes on to another step, and changes nothing at its path.
LEMMA ServesStep ==
  ASSUME ServerOK, NEW h \in Handlers, Serves(h), NEW t \in Steps \ {"send", "done", "body"},
         Step(h, t), UNCHANGED <<share, ask>>,
         disk'.entry[ask[h].path] = disk.entry[ask[h].path],
         DataIn(disk', ask[h].path) = DataIn(disk, ask[h].path),
         hand[h].step \notin {"send", "done"},
         Sees(ask[h], [hand[h] EXCEPT !.step = t], disk.entry[ask[h].path])
  PROVE  Serves(h)' /\ Effects(h)
<1> DEFINE k == [hand[h] EXCEPT !.step = t]
           a == ask[h]
<1>1. hand[h] \in Hands /\ hand \in [Handlers -> Hands]  BY DEF ServerOK
<1>2. hand'[h] = k /\ reply' = reply  BY <1>1 DEF Step
<1>3. k.step = t /\ k.at = hand[h].at  BY <1>1 DEF Hands
<1> HIDE DEF k
<1>4. reply[h].status = 0  BY DEF Serves, ServesOn
<1>5. \A e, d : Uploads(a, k, e, d)  BY <1>3 DEF Uploads
<1>6. Sees(a, k, disk.entry[a.path])  BY DEF k
<1> HIDE DEF a
<1>7. ServesOn(share, a, k, reply[h], disk')
  BY <1>3, <1>4, <1>5, <1>6 DEF ServesOn, a
<1>8. Serves(h)'  BY <1>2, <1>7 DEF Serves, a
<1>9. Effects(h)  BY <1>2, <1>3 DEF Effects, Affects
<1>. QED  BY <1>8, <1>9

\* Stat: what is seen is what is there.
LEMMA StatServes ==
  ASSUME ServerOK, NEW h \in Handlers, Serves(h), Stat(h)
  PROVE  Serves(h)' /\ Effects(h)
<1> DEFINE a == ask[h]
           kind == KindOf(disk.entry[a.path])
           size == SizeAt(disk, a.path)
           u == [hand EXCEPT ![h].step = "probe"]
           v == [u EXCEPT ![h].kind = kind]
           w == [v EXCEPT ![h].size = size]
<1>1. /\ hand[h].step = "stat" /\ hand' = w /\ reply' = reply
      /\ UNCHANGED <<share, ask, disk>>
  BY DEF Stat, At, diskVars, Unchanged
<1>2. hand \in [Handlers -> Hands] /\ ask[h].path \in Paths /\ disk \in Disks
  BY <1>1, Handler DEF ServerOK, DiskOK
<1>3. kind \in {"none", "dir", "file"} /\ size \in Nat  BY <1>2, Kinds, SizeIsNat
<1>4. hand[h].at = 0 /\ reply[h].status = 0  BY <1>1 DEF Serves, ServesOn, Sees
<1> HIDE DEF kind, size
<1>5. u \in [Handlers -> Hands] /\ u[h].step = "probe" /\ u[h].at = 0
  BY <1>2, <1>4 DEF Hands, Steps
<1> HIDE DEF u
<1>6. v \in [Handlers -> Hands] /\ v[h].step = "probe" /\ v[h].at = 0 /\ v[h].kind = kind
  BY <1>3, <1>5 DEF Hands
<1> HIDE DEF v
<1>7. w[h].step = "probe" /\ w[h].at = 0 /\ w[h].kind = kind  BY <1>3, <1>6 DEF Hands
<1> DEFINE k == w[h]
<1> HIDE DEF w, k
<1>8. k.step = "probe" /\ k.at = 0 /\ k.kind = kind  BY <1>7 DEF k
<1>9. \A d : Uploads(a, k, disk.entry[a.path], d)  BY <1>8 DEF Uploads
<1>10. Sees(a, k, disk.entry[a.path])  BY <1>8 DEF Sees, kind
<1> HIDE DEF a
<1>11. ServesOn(share, a, k, reply[h], disk)  BY <1>4, <1>8, <1>9, <1>10 DEF ServesOn
<1>12. Serves(h)'  BY <1>1, <1>11 DEF Serves, a, k
<1>13. Effects(h)  BY <1>1, <1>4, <1>8 DEF Effects, Affects, k
<1>. QED  BY <1>12, <1>13

\* Probe: what was seen leads on; outside of the share there is nothing.
LEMMA ProbeServes ==
  ASSUME ServerOK, NEW h \in Handlers, Serves(h), Probe(h)
  PROVE  Serves(h)' /\ Effects(h)
<1> DEFINE a == ask[h]
           e == disk.entry[a.path]
           r == Status(404)
<1>1. /\ hand[h].step = "probe" /\ UNCHANGED <<share, ask, disk>>
      /\ Judge(h, a.path, "contain", "containparent", 404)
  BY DEF Probe, At, diskVars, Unchanged
<1>2. hand[h] \in Hands  BY DEF ServerOK
<1>3. Sees(a, hand[h], e)  BY DEF Serves, ServesOn
<1>4. {"contain", "containparent"} \subseteq Steps \ {"send", "done", "body"}  BY DEF Steps
<1>5. CASE e # Absent /\ Step(h, "contain")
  <2>1. Sees(a, [hand[h] EXCEPT !.step = "contain"], e)
    BY <1>1, <1>2, <1>3, <1>5 DEF Sees, Hands
  <2>. QED  BY <1>1, <1>4, <1>5, <2>1, ServesStep
<1>6. CASE e = Absent /\ Step(h, "containparent")
  <2>1. Sees(a, [hand[h] EXCEPT !.step = "containparent"], e)
    BY <1>1, <1>2, <1>3, <1>6 DEF Sees, Hands
  <2>. QED  BY <1>1, <1>4, <1>6, <2>1, ServesStep
<1>7. CASE e = Absent /\ a.path = <<>> /\ Finish(h, r)
  <2>1. Parent(<<>>) = <<>>
    <3>1. Len(<<>>) - 1 \in Int /\ Len(<<>>) - 1 < 1 /\ 1 \in Int  BY EmptySeq
    <3>2. SubSeq(<<>>, 1, Len(<<>>) - 1) = <<>>  BY <3>1, SubSeqEmpty
    <3>. QED  BY <3>2 DEF Parent
  <2>2. r.status = 404  BY DEF Status, NoReply
  <2> HIDE DEF r
  <2>3. ~Ok(404)  BY DEF Ok
  <2>4. \A d : Tells(share, a, r, e, disk.entry[Parent(a.path)], d)
    BY <1>7, <2>1, <2>2, <2>3 DEF Tells
  <2>. QED  BY <1>1, <1>7, <2>2, <2>3, <2>4, ServesKept
<1>. QED  BY <1>1, <1>5, <1>6, <1>7 DEF Judge

\* What is decided of an ordinary request to what is e.
LEMMA OrdinaryGoes ==
  ASSUME NEW a, Ordinary(a), NEW e \in {Absent, Folder} \cup Files, NEW size
  PROVE  LET d == Dispatch(a, KindOf(e), size) IN
         \/ \E n \in {400, 405} : d = Answer(n)
         \/ d = Answer(403) /\ (~share.upload \/ ~share.delete \/ e = Folder)
         \/ d = Answer(404) /\ e = Absent /\ a.method # "PUT"
         \/ d = Go("list") /\ e = Folder /\ a.method \in {"GET", "HEAD"}
         \/ d = Go("search") /\ e = Folder /\ a.method = "GET"
         \/ (d = Go("json") \/ d = Go("open")) /\ a.method \in {"GET", "HEAD"}
         \/ d = Go("parent") /\ a.method \in {"PUT", "PATCH"}
         \/ d = Go("delete") /\ a.method = "DELETE"
         \/ d = Go("mkcol") /\ a.method = "MKCOL"
<1>1. /\ KindOf(e) = "none" => e = Absent
      /\ KindOf(e) = "dir" => e = Folder
      /\ KindOf(e) \in {"none", "dir", "file"}
  BY DEF KindOf
<1>2. CASE a.method \in {"GET", "HEAD"}
  <2>1. Dispatch(a, KindOf(e), size) = OnGet(a, KindOf(e))  BY <1>2 DEF Dispatch
  <2>2. a.query \in {"", "json", "q", "internal"} /\ (a.method = "HEAD" => a.query = "")
    BY DEF Ordinary
  <2>3. CASE KindOf(e) = "dir"
    <3>1. \/ OnGet(a, "dir") = Go("search") /\ a.query = "q"
          \/ OnGet(a, "dir") = Go("list")
      BY <2>2 DEF OnGet
    <3>. QED  BY <1>1, <1>2, <2>1, <2>2, <2>3, <3>1
  <2>4. CASE KindOf(e) = "file"
    <3>1. OnGet(a, "file") = Go("json") \/ OnGet(a, "file") = Go("open")
      BY <2>2 DEF OnGet
    <3>. QED  BY <1>2, <2>1, <2>4, <3>1
  <2>5. CASE KindOf(e) = "none"
    <3>1. OnGet(a, "none") = Answer(404)  BY ZenonT(60), <2>2 DEF OnGet
    <3>. QED  BY <1>1, <1>2, <2>1, <2>5, <3>1
  <2>. QED  BY <1>1, <2>3, <2>4, <2>5
<1>3. CASE a.method = "PUT"
  <2>1. Dispatch(a, KindOf(e), size) = OnPut(KindOf(e), size)  BY <1>3 DEF Dispatch
  <2>. QED  BY <1>1, <1>3, <2>1 DEF OnPut
<1>4. CASE a.method = "PATCH"
  <2>1. Dispatch(a, KindOf(e), size) = OnPatch(a, KindOf(e), size)  BY <1>4 DEF Dispatch
  <2>2. a.range.kind = "append"  BY <1>4 DEF Ordinary
  <2>. QED  BY <1>1, <1>4, <2>1, <2>2 DEF OnPatch
<1>5. CASE a.method = "DELETE"
  <2>1. Dispatch(a, KindOf(e), size) = OnDelete(KindOf(e))  BY <1>5 DEF Dispatch
  <2>. QED  BY <1>1, <1>5, <2>1 DEF OnDelete
<1>6. CASE a.method = "MKCOL"
  <2>1. Dispatch(a, KindOf(e), size) = OnMkcol(KindOf(e))  BY <1>6 DEF Dispatch
  <2>. QED  BY <1>1, <1>6, <2>1 DEF OnMkcol
<1>. QED  BY <1>2, <1>3, <1>4, <1>5, <1>6 DEF Ordinary

\* Contain: what is there, or its parent, is gone on with.
LEMMA ContainServes ==
  ASSUME ServerOK, NEW h \in Handlers, Ordinary(ask[h]), Serves(h), Contain(h)
  PROVE  Serves(h)' /\ Effects(h)
<1> DEFINE a == ask[h]
           e == disk.entry[a.path]
           above == disk.entry[Parent(a.path)]
           d == Dispatch(a, KindOf(e), hand[h].size)
<1>1. /\ hand[h].step \in {"contain", "containparent"} /\ UNCHANGED <<share, ask, disk>>
      /\ \/ Finish(h, Status(404)) /\ hand[h].step = "contain" /\ e = Absent
         \/ Finish(h, Status(404)) /\ hand[h].step = "containparent" /\ above = Absent
         \/ Follow(h, Dispatch(a, hand[h].kind, hand[h].size))
  BY DEF Contain, At, diskVars, Unchanged
<1>2. hand[h] \in Hands /\ e \in {Absent, Folder} \cup Files
  BY <1>1, Handler DEF Entries
<1>3. Sees(a, hand[h], e)  BY DEF Serves, ServesOn
<1>4. hand[h].kind = KindOf(e) /\ hand[h].at = 0
      /\ (hand[h].step = "contain" => e # Absent)
      /\ (hand[h].step = "containparent" => e = Absent)
  BY <1>1, <1>3 DEF Sees
<1>5. ASSUME NEW n \in {403, 404}, Finish(h, Status(n)),
             n = 403 => ~share.upload \/ ~share.delete \/ e = Folder,
             n = 404 => e = Absent /\ (a.method = "PUT" => above = Absent)
      PROVE  Serves(h)' /\ Effects(h)
  <2> DEFINE r == Status(n)
  <2>1. r.status = n  BY DEF Status, NoReply
  <2>2. ~Ok(n) /\ n # 200  BY <1>5 DEF Ok
  <2> HIDE DEF r
  <2>3. \A x : Tells(share, a, r, e, above, x)  BY <1>5, <2>1, <2>2 DEF Tells
  <2>4. Tells(share, a, r, e, above, DataIn(disk, a.path))  BY <2>3
  <2>5. Finish(h, r)  BY <1>5 DEF r
  <2>. QED  BY <1>1, <2>1, <2>2, <2>4, <2>5, ServesKept
<1>6. ASSUME NEW t \in {"list", "search", "json", "open", "parent", "delete", "mkcol"}, Step(h, t),
             t \in {"list", "search"} => e = Folder,
             t = "search" => a.method = "GET",
             t \in {"list", "json", "open"} => a.method \in {"GET", "HEAD"},
             t = "parent" => a.method \in {"PUT", "PATCH"},
             t = "delete" => a.method = "DELETE", t = "mkcol" => a.method = "MKCOL"
      PROVE  Serves(h)' /\ Effects(h)
  <2> DEFINE k == [hand[h] EXCEPT !.step = t]
  <2>1. k.step = t /\ k.at = 0  BY <1>2, <1>4 DEF Hands
  <2> HIDE DEF k, e, a
  <2>2. Sees(a, k, e)  BY <1>6, <2>1 DEF Sees
  <2>3. t \in Steps \ {"send", "done", "body"}  BY <1>6 DEF Steps
  <2>. QED  BY <1>1, <1>6, <2>2, <2>3, ServesStep DEF k, e, a
<1>7. ASSUME Follow(h, d) PROVE Serves(h)' /\ Effects(h)
  <2>1. /\ \A n : d = Answer(n) => Finish(h, Status(n))
        /\ \A t : d = Go(t) /\ t # "done" => Step(h, t)
    BY <1>7 DEF Follow, Answer, Go
  <2>2. ASSUME NEW n \in {400, 405}, d = Answer(n) PROVE Serves(h)' /\ Effects(h)
    <3>1. Finish(h, Status(n)) /\ n \in {0, 400, 401, 405, 500}  BY <2>1, <2>2
    <3>. QED  BY <1>1, <3>1, ServesStatus
  <2>3. \/ \E n \in {400, 405} : d = Answer(n)
        \/ d = Answer(403) /\ (~share.upload \/ ~share.delete \/ e = Folder)
        \/ d = Answer(404) /\ e = Absent /\ a.method # "PUT"
        \/ d = Go("list") /\ e = Folder /\ a.method \in {"GET", "HEAD"}
        \/ d = Go("search") /\ e = Folder /\ a.method = "GET"
        \/ (d = Go("json") \/ d = Go("open")) /\ a.method \in {"GET", "HEAD"}
        \/ d = Go("parent") /\ a.method \in {"PUT", "PATCH"}
        \/ d = Go("delete") /\ a.method = "DELETE"
        \/ d = Go("mkcol") /\ a.method = "MKCOL"
    BY <1>2, OrdinaryGoes
  <2> HIDE DEF d, e, a
  <2>. QED  BY <1>5, <1>6, <2>1, <2>2, <2>3
<1>8. CASE Finish(h, Status(404)) /\ e = Absent /\ above = Absent  BY <1>5, <1>8
<1>. QED  BY <1>1, <1>4, <1>7, <1>8

\* A list, a description or what was found is shown: nothing changes.
LEMMA ShownServes ==
  ASSUME ServerOK, NEW h \in Handlers, Ordinary(ask[h]), Serves(h),
         List(h) \/ Collect(h) \/ Describe(h)
  PROVE  Serves(h)' /\ Effects(h)
<1> DEFINE a == ask[h]
           e == disk.entry[a.path]
           d == DataIn(disk, a.path)
           above == disk.entry[Parent(a.path)]
<1>1. /\ hand[h].step \in {"list", "search", "zip", "json"}
      /\ UNCHANGED <<share, ask, disk>>
  BY DEF List, Collect, Describe, At, diskVars, Unchanged
<1>2. Sees(a, hand[h], e)  BY DEF Serves, ServesOn
<1>3. /\ a.method \in {"GET", "HEAD"} /\ hand[h].step # "zip"
      /\ hand[h].step \in {"list", "search"} => e = Folder
      /\ hand[h].step = "search" => a.method = "GET"
  BY <1>1, <1>2 DEF Sees
<1>4. ASSUME NEW r, Finish(h, r), r.status = 200, a.method = "HEAD" => r.size = Len(d)
      PROVE  Serves(h)' /\ Effects(h)
  <2>1. 200 # 403 /\ 200 # 404 /\ 200 \in {200, 206}  OBVIOUS
  <2>2. Tells(share, a, r, e, above, d)  BY <1>3, <1>4, <2>1 DEF Tells
  <2>3. a.method # "PATCH"  BY <1>3
  <2>. QED  BY <1>1, <1>4, <2>2, <2>3, ServesKept
<1>5. ASSUME Fail(h) PROVE Serves(h)' /\ Effects(h)
  <2>1. Finish(h, Status(500)) /\ 500 \in {0, 400, 401, 405, 500}  BY <1>5 DEF Fail
  <2>. QED  BY <1>1, <2>1, ServesStatus
<1>6. e = Folder => Len(d) = 0
  <2>1. ~IsFile(Folder)  BY DEF Folder, IsFile
  <2>. QED  BY <2>1, EmptySeq DEF DataIn
<1>7. ASSUME NEW shown
      PROVE  /\ [Status(200) EXCEPT !.shown = shown].status = 200
             /\ [Status(200) EXCEPT !.shown = shown].size = 0
             /\ Status(200).status = 200 /\ Status(200).size = 0
  BY DEF Status, NoReply
<1>8. CASE List(h)
  <2> DEFINE r == [Status(200) EXCEPT !.shown = Listed(disk, a.path, ListingAccess(a))]
  <2>1. hand[h].step = "list"  BY <1>8 DEF List, At
  <2>2. a.method # "PROPFIND" /\ e = Folder  BY <1>3, <2>1
  <2>3. Finish(h, Status(200)) \/ Finish(h, r)  BY <1>8, <2>2 DEF List
  <2>4. r.status = 200 /\ r.size = 0  BY <1>7
  <2> HIDE DEF r
  <2>. QED  BY <1>4, <1>6, <1>7, <2>2, <2>3, <2>4
<1>9. CASE Collect(h)
  <2> DEFINE found == Collected(disk, a.path, Access(a).paths)
             shown == IF At(h, "zip") THEN {q \in found : IsFile(disk.entry[q])} ELSE found
             r == [Status(200) EXCEPT !.shown = shown]
  <2>1. hand[h].step = "search"  BY <1>3, <1>9 DEF Collect, At
  <2>2. a.method = "GET"  BY <1>3, <2>1
  <2>3. Finish(h, r)  BY <1>9, <2>2 DEF Collect
  <2> HIDE DEF shown
  <2>4. r.status = 200  BY <1>7
  <2> HIDE DEF r
  <2>. QED  BY <1>4, <2>2, <2>3, <2>4
<1>10. CASE Describe(h)
  <2> DEFINE u == [Status(200) EXCEPT !.shown = {a.path}]
             r == [u EXCEPT !.size = SizeAt(disk, a.path)]
  <2>1. a.method # "PROPFIND"  BY <1>3
  <2>2. \/ Fail(h)
        \/ Finish(h, r)
    BY <1>10, <2>1 DEF Describe
  <2>3. SizeAt(disk, a.path) = Len(d)  BY EmptySeq DEF SizeAt, DataIn
  <2>4. u.status = 200 /\ DOMAIN u = DOMAIN NoReply  BY DEF Status, NoReply
  <2>5. r.status = 200 /\ r.size = SizeAt(disk, a.path)
    <3>1. "size" \in DOMAIN u /\ "size" # "status"  BY <2>4 DEF NoReply
    <3> HIDE DEF u
    <3>. QED  BY <2>4, <3>1
  <2> HIDE DEF r
  <2>. QED  BY <1>4, <1>5, <2>2, <2>3, <2>5
<1>. QED  BY <1>8, <1>9, <1>10

\* Open: it reads the file at the path, if there is one.
LEMMA OpenServes ==
  ASSUME ServerOK, NEW h \in Handlers, Ordinary(ask[h]), Serves(h), Open(h)
  PROVE  Serves(h)' /\ Effects(h)
<1> DEFINE a == ask[h]
           e == disk.entry[a.path]
           u == [hand EXCEPT ![h].step = "meta"]
           v == [u EXCEPT ![h].file = e]
           k == v[h]
<1>1. /\ hand[h].step = "open" /\ UNCHANGED <<share, ask, disk>>
      /\ \/ Fail(h)
         \/ IsFile(e) /\ hand' = v /\ reply' = reply
  BY DEF Open, At, diskVars, Unchanged
<1>2. hand \in [Handlers -> Hands] /\ disk.entry \in Entries /\ a.path \in Paths
  BY <1>1, Handler DEF ServerOK
<1>3. CASE Fail(h)
  <2>1. Finish(h, Status(500)) /\ 500 \in {0, 400, 401, 405, 500}  BY <1>3 DEF Fail
  <2>. QED  BY <1>1, <2>1, ServesStatus
<1>4. CASE IsFile(e) /\ hand' = v /\ reply' = reply
  <2>1. e \in Files  BY <1>2, <1>4, EntryKinds
  <2>2. Sees(a, hand[h], e) /\ reply[h].status = 0  BY <1>1 DEF Serves, ServesOn
  <2>3. hand[h].at = 0 /\ a.method \in {"GET", "HEAD"}  BY <1>1, <2>2 DEF Sees
  <2> HIDE DEF e
  <2>4. u \in [Handlers -> Hands] /\ u[h].step = "meta" /\ u[h].at = hand[h].at
    BY <1>2 DEF Hands, Steps
  <2> HIDE DEF u
  <2>5. k.step = "meta" /\ k.at = 0  BY <2>1, <2>3, <2>4 DEF Hands
  <2>6. hand'[h] = k  BY <1>4
  <2> HIDE DEF v, k
  <2>7. Sees(a, k, e) /\ \A d : Uploads(a, k, e, d)  BY <2>3, <2>5 DEF Sees, Uploads
  <2> HIDE DEF a
  <2>8. ServesOn(share, a, k, reply[h], disk)  BY <2>2, <2>5, <2>7 DEF ServesOn, e
  <2>9. Serves(h)'  BY <1>1, <1>4, <2>6, <2>8 DEF Serves, a
  <2>10. Effects(h)  BY <1>1, <2>3, <2>5, <2>6 DEF Effects, Affects, a
  <2>. QED  BY <2>9, <2>10
<1>. QED  BY <1>1, <1>3, <1>4

\* A header says how much there is.
LEMMA HeaderSize ==
  ASSUME NEW size \in Nat, NEW stamp \in Nat, NEW n \in Nat
  PROVE  HeaderOnly(size, stamp, n).size = size
<1> DEFINE t == [NoReply EXCEPT !.size = size]
           u == [t EXCEPT !.stamp = stamp]
           v == [u EXCEPT !.whole = FALSE]
           w == [v EXCEPT !.status = n]
           x == [w EXCEPT !.whole = TRUE]
<1>1. t \in Replies /\ t.size = size  BY PlainReplies DEF Replies, NoReply
<1> HIDE DEF t
<1>2. u \in Replies /\ u.size = size  BY <1>1 DEF Replies
<1> HIDE DEF u
<1>3. v \in Replies /\ v.size = size  BY <1>2 DEF Replies
<1> HIDE DEF v
<1>4. w \in Replies /\ w.size = size  BY <1>3 DEF Replies
<1> HIDE DEF w
<1>5. x.size = size  BY <1>4 DEF Replies
<1>. QED  BY <1>5 DEF t, u, v, w, x, HeaderOnly

\* A part of a file is sent, or more of it.
LEMMA ServesSends ==
  ASSUME ServerOK, NEW h \in Handlers, ask[h].method = "GET", UNCHANGED <<share, ask, disk>>,
         hand'[h].step = "send", reply'[h].status \in {200, 206}
  PROVE  Serves(h)' /\ Effects(h)
<1> DEFINE a == ask[h]
           k == hand'[h]
           r == reply'[h]
<1>1. k.step = "send" /\ r.status \in {200, 206} /\ a.method = "GET"  OBVIOUS
<1> HIDE DEF k, r, a
<1>2. \A e, d : Sees(a, k, e) /\ Uploads(a, k, e, d)  BY <1>1 DEF Sees, Uploads
<1>3. ServesOn(share, a, k, r, disk)  BY <1>1, <1>2 DEF ServesOn
<1>4. Serves(h)'  BY <1>3 DEF Serves, a, k, r
<1>5. Effects(h)  BY <1>1 DEF Effects, Affects, a, k, r
<1>. QED  BY <1>4, <1>5

\* Meta: what is announced is what is there.
LEMMA MetaServes ==
  ASSUME ServerOK, NEW h \in Handlers, Ordinary(ask[h]), Serves(h), Meta(h)
  PROVE  Serves(h)' /\ Effects(h)
<1> DEFINE a == ask[h]
           e == disk.entry[a.path]
           d == DataIn(disk, a.path)
           above == disk.entry[Parent(a.path)]
           size == SizeAt(disk, a.path)
           r == ParseRange(a.range, size)
           stamp == disk.stamp[e]
           Send_(status, start, count) ==
             /\ hand' = [hand EXCEPT ![h].step = "send", ![h].at = start, ![h].goal = count]
             /\ reply' = [reply EXCEPT ![h] = Header(size, stamp, status)]
<1>1. hand[h].step = "meta" /\ UNCHANGED <<share, ask, disk>>
  BY DEF Meta, At, diskVars, Unchanged
<1>2. /\ a.path \in Paths /\ disk \in Disks /\ disk.entry \in Entries
      /\ hand \in [Handlers -> Hands] /\ reply \in [Handlers -> Replies]
  BY <1>1, Handler DEF ServerOK, DiskOK
<1>3. a.method \in {"GET", "HEAD"}
  BY <1>1 DEF Serves, ServesOn, Sees
<1>4. CASE ~IsFile(e)
  <2>1. Finish(h, Status(500)) /\ 500 \in {0, 400, 401, 405, 500}  BY <1>4 DEF Meta, Fail
  <2>. QED  BY <1>1, <2>1, ServesStatus
<1>5. CASE IsFile(e)
  <2>1. e \in Files  BY <1>2, <1>5, EntryKinds
  <2>2. stamp \in Nat /\ size \in Nat /\ size = Len(d)
    BY <1>2, <1>5, <2>1, DataOf, SizeIsNat DEF SizeAt, DataIn
  <2>3. \/ a.method = "HEAD" /\ Finish(h, HeaderOnly(size, stamp, 200))
        \/ a.method = "HEAD" /\ Finish(h, HeaderOnly(size, stamp, 206))
        \/ Finish(h, HeaderOnly(size, stamp, 416))
        \/ a.method = "GET" /\ Send_(200, 0, size)
        \/ a.method = "GET" /\ Send_(206, r.start, RangeSize(r))
    <3>1. CASE ~UseRange(a, stamp)  BY <1>3, <1>5, <3>1 DEF Meta, Header, HeaderOnly
    <3>2. CASE UseRange(a, stamp) /\ r.ok  BY <1>3, <1>5, <3>2 DEF Meta, Header, HeaderOnly
    <3>3. CASE UseRange(a, stamp) /\ ~r.ok  BY <1>3, <1>5, <3>3 DEF Meta, Header, HeaderOnly
    <3>. QED  BY <3>1, <3>2, <3>3
  <2>6. \A m \in Nat : Header(size, stamp, m).status = m
    <3> HIDE DEF size, stamp
    <3>. QED  BY <2>2, HeaderIs
  <2>4. ASSUME NEW n \in {200, 206, 416}, Finish(h, HeaderOnly(size, stamp, n)),
               n # 416 => a.method = "HEAD"
        PROVE  Serves(h)' /\ Effects(h)
    <3> DEFINE got == HeaderOnly(size, stamp, n)
    <3>1. n \in Nat  OBVIOUS
    <3>2. got.status = n /\ got.size = size
      <4> HIDE DEF size, stamp
      <4>. QED  BY SMTT(30), <2>2, <3>1, HeaderIs, HeaderSize
    <3> HIDE DEF got
    <3>3. (Ok(n) => a.method = "HEAD") /\ n # 403 /\ n # 404  BY <2>4 DEF Ok
    <3>4. Tells(share, a, got, e, above, d)  BY <2>2, <3>2, <3>3 DEF Tells
    <3>5. a.method # "PATCH" /\ Finish(h, got)  BY <1>3, <2>4 DEF got
    <3>. QED  BY <1>1, <3>4, <3>5, ServesKept
  <2>5. ASSUME NEW n \in {200, 206}, NEW start, NEW count, Send_(n, start, count),
               a.method = "GET"
        PROVE  Serves(h)' /\ Effects(h)
    <3>1. hand'[h].step = "send"
      <4> DEFINE u == [hand EXCEPT ![h].step = "send"]
                 v == [u EXCEPT ![h].at = start]
                 w == [v EXCEPT ![h].goal = count]
      <4>1. hand' = w  BY <2>5
      <4>2. /\ u[h].step = "send" /\ DOMAIN u = Handlers
            /\ DOMAIN u[h] = {"step", "kind", "size", "file", "at", "goal"}
        BY <1>2 DEF Hands
      <4> HIDE DEF u
      <4>3. /\ v[h].step = "send" /\ DOMAIN v = Handlers
            /\ DOMAIN v[h] = {"step", "kind", "size", "file", "at", "goal"}
        BY <4>2
      <4> HIDE DEF v
      <4>4. w[h].step = "send"  BY <4>3
      <4>. QED  BY <4>1, <4>4
    <3>2. reply'[h] = Header(size, stamp, n) /\ n \in Nat  BY <1>2, <2>5
    <3>3. reply'[h].status = n  BY <2>6, <3>2
    <3>. QED  BY <1>1, <2>5, <3>1, <3>3, ServesSends
  <2>. QED
    <3> HIDE DEF size, stamp, r
    <3>. QED  BY ZenonT(60), <2>3, <2>4, <2>5
<1>. QED  BY <1>4, <1>5

\* Send: the status stays.
LEMMA SendServes ==
  ASSUME ServerOK, NEW h \in Handlers, Ordinary(ask[h]), Serves(h), Send(h)
  PROVE  Serves(h)' /\ Effects(h)
<1> DEFINE data == disk.data[hand[h].file]
           whole == ~gone[h] /\ hand[h].goal = 0
           got == [reply[h] EXCEPT !.whole = whole]
<1>1. hand[h].step = "send" /\ UNCHANGED <<share, ask, disk>>
  BY DEF Send, At, diskVars, Unchanged
<1>2. hand \in [Handlers -> Hands] /\ reply \in [Handlers -> Replies]  BY DEF ServerOK
<1>3. ask[h].method = "GET" /\ reply[h].status \in {200, 206}
  BY <1>1 DEF Serves, ServesOn, Sees
<1>4. \/ Finish(h, got)
      \/ /\ hand' = [hand EXCEPT ![h].at = @ + 1, ![h].goal = @ - 1]
         /\ \E part : reply' = [reply EXCEPT ![h].part = part]
  BY DEF Send
<1>5. CASE Finish(h, got)
  <2>1. got.status = reply[h].status  BY <1>2 DEF Replies
  <2> HIDE DEF got
  <2>2. got.status # 403 /\ got.status # 404  BY <1>3, <2>1
  <2>3. \A e, above, d : Tells(share, ask[h], got, e, above, d)
    BY <1>3, <2>1, <2>2 DEF Tells
  <2>. QED  BY <1>1, <1>3, <1>5, <2>3, ServesKept
<1>6. ASSUME hand' = [hand EXCEPT ![h].at = @ + 1, ![h].goal = @ - 1],
             NEW part, reply' = [reply EXCEPT ![h].part = part]
      PROVE  Serves(h)' /\ Effects(h)
  <2>1. hand'[h].step = "send"  BY <1>1, <1>2, <1>6, HandHasSent
  <2>2. reply'[h].status = reply[h].status  BY <1>2, <1>6 DEF Replies
  <2>. QED  BY <1>1, <1>3, <2>1, <2>2, ServesSends
<1>. QED  BY <1>4, <1>5, <1>6

\* What is in the file at a path.
LEMMA DataInType ==
  ASSUME NEW d \in Disks, NEW p \in Paths
  PROVE  DataIn(d, p) \in Seq(Blocks)
<1>1. d.entry \in Entries  BY DEF Disks
<1>2. IsFile(d.entry[p]) => d.entry[p] \in Files  BY <1>1, EntryKinds
<1>. QED  BY <1>2, DataOf, EmptySeq DEF DataIn

\* To make a parent changes nothing at the path itself.
LEMMA EnsureParentKeeps ==
  ASSUME NEW d \in Disks, NEW p \in Paths
  PROVE  /\ EnsureParent(d, p).entry[p] = d.entry[p]
         /\ DataIn(EnsureParent(d, p), p) = DataIn(d, p)
<1>1. CASE p = <<>> \/ d.entry[Parent(p)] # Absent  BY <1>1 DEF EnsureParent
<1>2. CASE ~(p = <<>> \/ d.entry[Parent(p)] # Absent)
  <2>1. EnsureParent(d, p) = MakeDirs(d, Parent(p))  BY <1>2 DEF EnsureParent
  <2>2. Parent(p) \in Paths /\ ~IsPrefix(p, Parent(p))  BY <1>2, ParentIsPath
  <2>3. /\ MakeDirs(d, Parent(p)).entry = Dirs(d.entry, Parent(p))
        /\ MakeDirs(d, Parent(p)).data = d.data
    BY <2>2, MakeDirsIs
  <2>4. Dirs(d.entry, Parent(p))[p] = d.entry[p]  BY <2>2 DEF Dirs
  <2>. QED  BY <2>1, <2>3, <2>4 DEF DataIn
<1>. QED  BY <1>1, <1>2

\* UploadParent: the path stays what it is.
LEMMA UploadParentServes ==
  ASSUME ServerOK, NEW h \in Handlers, Ordinary(ask[h]), Serves(h), UploadParent(h)
  PROVE  Serves(h)' /\ Effects(h)
<1> DEFINE a == ask[h]
           e == disk.entry[a.path]
<1>1. /\ hand[h].step = "parent" /\ UNCHANGED <<share, ask>>
      /\ \/ disk' = EnsureParent(disk, a.path) /\ Step(h, "create")
         \/ disk' = disk /\ Finish(h, Status(500))
  BY DEF UploadParent, At, Change, Keep, diskVars, Unchanged, Fail
<1>2. disk \in Disks /\ a.path \in Paths /\ hand[h] \in Hands  BY <1>1, Handler DEF DiskOK
<1>3. CASE disk' = EnsureParent(disk, a.path) /\ Step(h, "create")
  <2>1. disk'.entry[a.path] = e /\ DataIn(disk', a.path) = DataIn(disk, a.path)
    BY <1>2, <1>3, EnsureParentKeeps
  <2>2. Sees(a, hand[h], e)  BY DEF Serves, ServesOn
  <2>3. Sees(a, [hand[h] EXCEPT !.step = "create"], e)  BY <1>1, <1>2, <2>2 DEF Sees, Hands
  <2>4. "create" \in Steps \ {"send", "done", "body"}  BY DEF Steps
  <2>. QED  BY <1>1, <1>3, <2>1, <2>3, <2>4, ServesStep
<1>4. CASE disk' = disk /\ Finish(h, Status(500))
  <2>1. 500 \in {0, 400, 401, 405, 500}  OBVIOUS
  <2>. QED  BY <1>1, <1>4, <2>1, ServesStatus
<1>. QED  BY <1>1, <1>3, <1>4

\* A file at a path is written.
LEMMA WrittenAt ==
  ASSUME NEW d \in Disks, NEW p \in Paths, d.entry[p] \in Files, NEW data \in Seq(Blocks),
         Write(d.entry[p], d, data)
  PROVE  disk'.entry[p] = d.entry[p] /\ DataIn(disk', p) = data /\ IsFile(d.entry[p])
<1> DEFINE f == d.entry[p]
<1>1. disk' = Touched(d, f, data)  BY DEF Write
<1> HIDE DEF f
<1>2. f \in Files /\ f = d.entry[p]  BY DEF f
<1>3. /\ Touched(d, f, data).entry = d.entry
      /\ Touched(d, f, data).data = [d.data EXCEPT ![f] = data]
  BY <1>2, TouchedIs
<1>4. d.data \in [Files -> Seq(Blocks)]  BY DEF Disks
<1>5. [d.data EXCEPT ![f] = data][f] = data  BY <1>2, <1>4
<1>6. IsFile(f)  BY <1>2 DEF Files, IsFile
<1>. QED  BY <1>1, <1>2, <1>3, <1>5, <1>6 DEF DataIn

\* An upload begins with what is in its hand.
LEMMA BodyBegins ==
  ASSUME ServerOK, NEW h \in Handlers, NEW f \in Files, NEW goal \in Int,
         hand' = [hand EXCEPT ![h].step = "body", ![h].file = f, ![h].goal = goal]
  PROVE  /\ hand'[h].step = "body" /\ hand'[h].file = f /\ hand'[h].goal = goal
         /\ hand'[h].at = hand[h].at
<1> DEFINE u == [hand EXCEPT ![h].step = "body"]
           v == [u EXCEPT ![h].file = f]
           w == [v EXCEPT ![h].goal = goal]
<1>1. hand \in [Handlers -> Hands] /\ hand' = w  BY DEF ServerOK
<1>2. u \in [Handlers -> Hands] /\ u[h].step = "body" /\ u[h].at = hand[h].at
  BY <1>1 DEF Hands, Steps
<1> HIDE DEF u
<1>3. /\ v \in [Handlers -> Hands] /\ v[h].step = "body" /\ v[h].at = hand[h].at
      /\ v[h].file = f
  BY <1>2 DEF Hands
<1> HIDE DEF v
<1>4. /\ w[h].step = "body" /\ w[h].at = hand[h].at /\ w[h].file = f /\ w[h].goal = goal
  BY <1>3 DEF Hands
<1>. QED  BY <1>1, <1>4

\* Create: the file at the path is there and open.
LEMMA CreateServes ==
  ASSUME ServerOK, NEW h \in Handlers, Ordinary(ask[h]), Serves(h), Create(h)
  PROVE  Serves(h)' /\ Effects(h)
<1> DEFINE a == ask[h]
           p == a.path
           e == disk.entry[p]
           Begin(f, goal) ==
             /\ hand' = [hand EXCEPT ![h].step = "body", ![h].file = f, ![h].goal = goal]
             /\ reply' = reply
<1>1. /\ hand[h].step = "create" /\ UNCHANGED <<share, ask>>
      /\ \/ disk' = disk /\ Finish(h, Status(500))
         \/ a.method = "PUT" /\ IsFile(e) /\ Write(e, disk, <<>>) /\ Begin(e, 0)
         \/ /\ a.method = "PUT" /\ CanCreate(disk, p) /\ Room
            /\ Write(FreeFile, WithEntry(disk, p, FreeFile), <<>>) /\ Begin(FreeFile, 0)
         \/ /\ a.method # "PUT" /\ disk' = disk /\ IsFile(e)
            /\ Begin(e, IF UploadOffset(a, hand[h].size) = hand[h].size THEN Appending
                        ELSE UploadOffset(a, hand[h].size))
  BY DEF Create, CreateAt, At, Keep, diskVars, Unchanged, Fail
<1>2. /\ disk \in Disks /\ DiskOK(disk, clock) /\ p \in Paths /\ disk.entry \in Entries
      /\ a.body \in Seq(Blocks)
  BY <1>1, Handler DEF DiskOK, AskOK
<1>3. Sees(a, hand[h], e) /\ reply[h].status = 0  BY <1>1 DEF Serves, ServesOn
<1>4. a.method \in {"PUT", "PATCH"} /\ hand[h].at = 0  BY <1>1, <1>3 DEF Sees
<1>5. Len(a.body) \in Nat /\ SubSeq(a.body, 1, 0) = <<>>  BY <1>2, LenProperties, SubSeqEmpty
<1>6. ASSUME NEW f \in Files, NEW goal \in Int, Begin(f, goal),
             disk'.entry[p] = f,
             a.method = "PUT" => goal = 0 /\ DataIn(disk', p) = <<>>,
             a.method = "PATCH" => goal = Appending /\ disk' = disk
      PROVE  Serves(h)' /\ Effects(h)
  <2> DEFINE k == hand'[h]
  <2>1. k.step = "body" /\ k.file = f /\ k.goal = goal /\ k.at = 0
    BY ZenonT(60), <1>4, <1>6, BodyBegins
  <2>2. IsFile(f)  BY DEF Files, IsFile
  <2> HIDE DEF k
  <2>3. Sees(a, k, disk'.entry[p])  BY <1>4, <2>1 DEF Sees
  <2>8. /\ disk'.entry[p] = f /\ reply' = reply
        /\ a.method = "PUT" => goal = 0 /\ DataIn(disk', p) = <<>>
        /\ a.method = "PATCH" => goal = Appending /\ disk' = disk
    BY <1>6
  <2> DEFINE d == DataIn(disk', p)
             y == disk'.entry[p]
  <2>9. Len(a.body) >= 0 /\ SubSeq(a.body, 1, 0) = <<>>  BY <1>5
  <2>10. y = f /\ (a.method = "PUT" => goal = 0 /\ d = <<>>) /\ (a.method = "PATCH" => goal = Appending)
    BY <2>8
  <2> HIDE DEF a, p, e, Begin, d, y
  <2>4. Uploads(a, k, y, d)  BY <2>1, <2>2, <2>9, <2>10 DEF Uploads
  <2> USE DEF p, d, y
  <2>5. ServesOn(share, a, k, reply[h], disk')  BY <1>3, <2>1, <2>3, <2>4 DEF ServesOn
  <2>6. Serves(h)'  BY <1>1, <2>8, <2>5 DEF Serves, k, a
  <2>7. Effects(h)  BY <1>4, <2>8, <2>1 DEF Effects, Affects, k, a
  <2>. QED  BY <2>6, <2>7
<1>7. CASE disk' = disk /\ Finish(h, Status(500))
  <2>1. 500 \in {0, 400, 401, 405, 500}  OBVIOUS
  <2>. QED  BY <1>1, <1>7, <2>1, ServesStatus
<1> HIDE DEF Begin
<1>8. CASE a.method = "PUT" /\ IsFile(e) /\ Write(e, disk, <<>>) /\ Begin(e, 0)
  <2>1. e \in Files /\ <<>> \in Seq(Blocks)  BY <1>2, <1>8, EntryKinds, EmptySeq
  <2>2. disk'.entry[p] = e /\ DataIn(disk', p) = <<>>  BY <1>2, <1>8, <2>1, WrittenAt
  <2>3. a.method = "PUT" /\ Begin(e, 0)  BY <1>8
  <2> HIDE DEF a, p, e
  <2>. QED  BY <1>6, <2>1, <2>2, <2>3
<1>9. CASE /\ a.method = "PUT" /\ CanCreate(disk, p) /\ Room
           /\ Write(FreeFile, WithEntry(disk, p, FreeFile), <<>>) /\ Begin(FreeFile, 0)
  <2> DEFINE f == FreeFile
             d == WithEntry(disk, p, f)
  <2>1. f \in Files /\ Unused(f)  BY <1>9 DEF Room, FreeFile
  <2>2. Write(f, d, <<>>) /\ Begin(f, 0)  BY <1>9
  <2> HIDE DEF f
  <2>3. \A q \in Paths : disk.entry[q] # f  BY <2>1 DEF Unused
  <2>4. DiskOK(d, clock)  BY <1>2, <1>9, <2>1, <2>3, PlacedDisk
  <2>5. d \in Disks  BY <2>4 DEF DiskOK
  <2>6. d.entry[p] = f
    <3>1. d.entry = [disk.entry EXCEPT ![p] = f]  BY <1>2, WithEntryIs
    <3>2. p \in DOMAIN disk.entry  BY <1>2 DEF Entries
    <3> HIDE DEF d
    <3>. QED  BY <3>1, <3>2
  <2> HIDE DEF d
  <2>7. <<>> \in Seq(Blocks)  BY EmptySeq
  <2>8. disk'.entry[p] = f /\ DataIn(disk', p) = <<>>  BY <1>2, <2>1, <2>2, <2>5, <2>6, <2>7, WrittenAt
  <2>9. a.method = "PUT"  BY <1>9
  <2> HIDE DEF a, p
  <2>. QED  BY <1>6, <2>1, <2>2, <2>8, <2>9
<1>10. CASE /\ a.method # "PUT" /\ disk' = disk /\ IsFile(e)
            /\ Begin(e, IF UploadOffset(a, hand[h].size) = hand[h].size THEN Appending
                        ELSE UploadOffset(a, hand[h].size))
  <2>1. a.method = "PATCH"  BY <1>4, <1>10
  <2>2. a.range.kind = "append"  BY <2>1 DEF Ordinary
  <2>3. UploadOffset(a, hand[h].size) = hand[h].size  BY <2>2 DEF UploadOffset
  <2>4. Begin(e, Appending)  BY <1>10, <2>3
  <2>5. e \in Files /\ Appending \in Int  BY <1>2, <1>10, EntryKinds DEF Appending
  <2> HIDE DEF e
  <2>6. disk'.entry[p] = e  BY <1>10 DEF e
  <2>. QED  BY <1>6, <1>10, <2>1, <2>4, <2>5, <2>6
<1>. QED  BY <1>1, <1>7, <1>8, <1>9, <1>10

\* A block written at the end is appended.
LEMMA WriteAtEnd ==
  ASSUME NEW data \in Seq(Blocks), NEW b \in Blocks
  PROVE  WriteAt(data, Len(data), b) = Append(data, b)
<1> DEFINE n == Len(data)
           w == WriteAt(data, n, b)
           c == Append(data, b)
<1>1. n \in Nat  BY LenProperties
<1>2. Higher(n, n + 1) = n + 1  BY <1>1 DEF Higher
<1>3. w = [i \in 1..n + 1 |-> IF i = n + 1 THEN b ELSE IF i =< n THEN data[i] ELSE Hole]
  BY <1>2 DEF WriteAt
<1>4. w \in Seq(Blocks)  BY <1>1, WriteAtType
<1>5. c \in Seq(Blocks) /\ Len(c) = n + 1 /\ (\A i \in 1..n : c[i] = data[i]) /\ c[n + 1] = b
  BY AppendProperties
<1>6. Len(w) \in Nat /\ DOMAIN w = 1..Len(w)  BY <1>4, LenProperties
<1>7. DOMAIN w = 1..n + 1  BY <1>3
<1> HIDE DEF w, c, n
<1>8. Len(w) = n + 1
  <2> DEFINE m == n + 1
             l == Len(w)
  <2>1. m \in Nat /\ m > 0  BY <1>1
  <2>2. l \in Nat /\ 1..l = 1..m  BY <1>6, <1>7
  <2> HIDE DEF m, l
  <2>3. l = m  BY <2>1, <2>2
  <2>. QED  BY <2>3 DEF m, l
<1>9. ASSUME NEW i \in 1..n + 1 PROVE w[i] = c[i]
  <2>1. CASE i = n + 1  BY <1>3, <1>5, <2>1
  <2>2. CASE i # n + 1
    <3>1. i \in 1..n  BY <1>1, <2>2
    <3>2. w[i] = data[i]  BY <1>1, <1>3, <2>2, <3>1
    <3>. QED  BY <1>5, <3>1, <3>2
  <2>. QED  BY <2>1, <2>2
<1>10. w = c  BY <1>4, <1>5, <1>8, <1>9, SeqEqual
<1>. QED  BY <1>10 DEF w, c, n

\* Another block is counted in the hand.
LEMMA BlockTaken ==
  ASSUME ServerOK, NEW h \in Handlers, hand' = [hand EXCEPT ![h].at = @ + 1]
  PROVE  /\ hand'[h].step = hand[h].step /\ hand'[h].file = hand[h].file
         /\ hand'[h].goal = hand[h].goal /\ hand'[h].at = hand[h].at + 1
         /\ hand'[h].kind = hand[h].kind
BY DEF ServerOK, Hands

\* Body: the block goes to the end of the file at the path.
LEMMA BodyServes ==
  ASSUME ServerOK, NEW h \in Handlers, Ordinary(ask[h]), Serves(h), Body(h)
  PROVE  Serves(h)' /\ Effects(h)
<1> DEFINE a == ask[h]
           p == a.path
           e == disk.entry[p]
           d == DataIn(disk, p)
           n == hand[h].at
           b == a.body[n + 1]
           k == hand'[h]
<1>1. /\ hand[h].step = "body" /\ n < Len(a.body) /\ hand' = [hand EXCEPT ![h].at = @ + 1]
      /\ reply' = reply /\ UNCHANGED <<share, ask>>
      /\ Write(hand[h].file, disk, WriteAt(disk.data[hand[h].file], Offset(h), b))
  BY DEF Body, At, Unchanged
<1>2. /\ disk \in Disks /\ p \in Paths /\ disk.entry \in Entries /\ a.body \in Seq(Blocks)
      /\ hand[h] \in Hands
  BY <1>1, Handler DEF DiskOK, AskOK
<1>3. /\ Sees(a, hand[h], e) /\ Uploads(a, hand[h], e, d) /\ reply[h].status = 0
  BY <1>1 DEF Serves, ServesOn
<1>4. /\ a.method \in {"PUT", "PATCH"} /\ IsFile(e) /\ hand[h].file = e
      /\ a.method = "PUT" => hand[h].goal = 0 /\ d = SubSeq(a.body, 1, n)
      /\ a.method = "PATCH" => hand[h].goal = Appending
  BY <1>1, <1>3 DEF Sees, Uploads
<1>5. e \in Files /\ n \in Nat /\ Len(a.body) \in Nat /\ d \in Seq(Blocks)
  BY <1>2, <1>4, EntryKinds, LenProperties, DataInType DEF Hands
<1>6. d = disk.data[e]  BY <1>4 DEF DataIn
<1>7. b \in Blocks
  <2>1. n + 1 \in 1..Len(a.body)  BY <1>1, <1>5
  <2>. QED  BY <1>2, <2>1, ElementOfSeq
<1>8. a.method = "PUT" => /\ Len(d) = n /\ Append(d, b) = SubSeq(a.body, 1, n + 1)
  <2>1. 0 \in Nat /\ 0 =< n /\ n =< Len(a.body) /\ 0 + 1 = 1 /\ n - 0 = n  BY <1>1, <1>5
  <2>2. Len(SubSeq(a.body, 0 + 1, n)) = n - 0  BY <1>2, <1>5, <2>1, PieceOf
  <2>3. Append(SubSeq(a.body, 0 + 1, n), a.body[n + 1]) = SubSeq(a.body, 0 + 1, n + 1)
    BY <1>1, <1>2, <1>5, <2>1, PieceGrows
  <2>4. Len(SubSeq(a.body, 1, n)) = n /\ Append(SubSeq(a.body, 1, n), b) = SubSeq(a.body, 1, n + 1)
    BY <2>1, <2>2, <2>3
  <2>. QED  BY <1>4, <2>4
<1>9. Offset(h) = Len(d)
  <2>1. Offset(h) = IF hand[h].goal = Appending THEN Len(d) ELSE hand[h].goal + n
    BY <1>4, <1>6 DEF Offset
  <2>2. CASE a.method = "PUT"
    <3>1. hand[h].goal = 0 /\ 0 # Appending /\ 0 + n = n  BY <1>4, <1>5, <2>2 DEF Appending
    <3>. QED  BY <1>8, <2>1, <2>2, <3>1
  <2>3. CASE a.method = "PATCH"  BY <1>4, <2>1, <2>3
  <2>. QED  BY <1>4, <2>2, <2>3
<1>10. Write(e, disk, Append(d, b))
  <2>1. WriteAt(d, Len(d), b) = Append(d, b)  BY <1>5, <1>7, WriteAtEnd
  <2>. QED  BY <1>1, <1>4, <1>6, <1>9, <2>1
<1>11. disk'.entry[p] = e /\ DataIn(disk', p) = Append(d, b)
  <2>1. Append(d, b) \in Seq(Blocks)  BY <1>5, <1>7, AppendProperties
  <2>. QED  BY <1>2, <1>5, <1>10, <2>1, WrittenAt
<1>12. k.step = "body" /\ k.file = e /\ k.goal = hand[h].goal /\ k.at = n + 1
  BY <1>1, <1>4, BlockTaken
<1>13. n + 1 =< Len(a.body)  BY <1>1, <1>5
<1> HIDE DEF k, e, d, n, b
<1>14. Sees(a, k, e)  BY <1>4, <1>12 DEF Sees
<1>15. Uploads(a, k, e, Append(d, b))  BY <1>4, <1>8, <1>12, <1>13 DEF Uploads
<1>16. ServesOn(share, a, k, reply[h], disk')
  BY <1>3, <1>11, <1>12, <1>14, <1>15 DEF ServesOn
<1>17. Serves(h)'  BY <1>1, <1>16 DEF Serves, k
<1>18. a.method = "PATCH" => Affects(a, hand[h], k, reply'[h], disk, disk')
  BY <1>1, <1>11, <1>12 DEF Affects, e, d, n, b
<1>19. a.method = "PUT" => Affects(a, hand[h], k, reply'[h], disk, disk')
  BY <1>12 DEF Affects
<1>. QED  BY <1>4, <1>17, <1>18, <1>19 DEF Effects, k

\* BodyEnds: a PUT has written the whole body.
LEMMA BodyEndsServes ==
  ASSUME ServerOK, NEW h \in Handlers, Ordinary(ask[h]), Serves(h), BodyEnds(h)
  PROVE  Serves(h)' /\ Effects(h)
<1> DEFINE a == ask[h]
           e == disk.entry[a.path]
           d == DataIn(disk, a.path)
           m == IF a.method = "PUT" THEN 201 ELSE 204
           r == Status(m)
<1>1. /\ hand[h].step = "body" /\ hand[h].at = Len(a.body) /\ Finish(h, r)
      /\ UNCHANGED <<share, ask, disk>>
  BY DEF BodyEnds, At, Keep, diskVars, Unchanged
<1>2. a.body \in Seq(Blocks)  BY <1>1, Handler DEF AskOK
<1>3. /\ Sees(a, hand[h], e) /\ Uploads(a, hand[h], e, d)  BY DEF Serves, ServesOn
<1>4. /\ a.method \in {"PUT", "PATCH"} /\ IsFile(e)
      /\ a.method = "PUT" => d = SubSeq(a.body, 1, hand[h].at)
  BY <1>1, <1>3 DEF Sees, Uploads
<1>5. a.method = "PUT" => d = a.body  BY <1>1, <1>2, <1>4, SubSeqFull
<1>6. r.status = m /\ m \in {201, 204}  BY DEF Status, NoReply
<1>7. m # 200 /\ m # 403 /\ m # 404  BY <1>6
<1> HIDE DEF r, m, a, e, d
<1>8. Tells(share, a, r, e, disk.entry[Parent(a.path)], d)
  BY <1>4, <1>5, <1>6, <1>7 DEF Tells
<1>. QED  BY <1>1, <1>8, ServesKept DEF a, e, d

\* BodyBreaks: nothing happens to what was written.
LEMMA BodyBreaksServes ==
  ASSUME ServerOK, NEW h \in Handlers, Serves(h), BodyBreaks(h)
  PROVE  Serves(h)' /\ Effects(h)
<1> DEFINE a == ask[h]
           e == disk.entry[a.path]
           k == [hand[h] EXCEPT !.step = "measure"]
<1>1. hand[h].step = "body" /\ Step(h, "measure") /\ UNCHANGED <<share, ask, disk>>
  BY DEF BodyBreaks, At, Keep, diskVars, Unchanged
<1>2. hand[h] \in Hands  BY DEF ServerOK
<1>3. Sees(a, hand[h], e)  BY DEF Serves, ServesOn
<1>4. a.method \in {"PUT", "PATCH"}  BY <1>1, <1>3 DEF Sees
<1>5. k.step = "measure"  BY <1>2 DEF Hands
<1> HIDE DEF k
<1>6. Sees(a, k, e)  BY <1>4, <1>5 DEF Sees
<1>7. "measure" \in Steps \ {"send", "done", "body"}  BY DEF Steps
<1>. QED  BY <1>1, <1>6, <1>7, ServesStep DEF k

\* Measure: only the rest of a PUT is to be removed.
LEMMA MeasureServes ==
  ASSUME ServerOK, NEW h \in Handlers, Serves(h), Measure(h)
  PROVE  Serves(h)' /\ Effects(h)
<1> DEFINE a == ask[h]
           e == disk.entry[a.path]
           k == [hand[h] EXCEPT !.step = "discard"]
<1>1. /\ hand[h].step = "measure" /\ UNCHANGED <<share, ask, disk>>
      /\ \/ Step(h, "discard") /\ a.method = "PUT"
         \/ Finish(h, Status(500))
  BY DEF Measure, At, Keep, diskVars, Unchanged, Fail
<1>2. hand[h] \in Hands  BY DEF ServerOK
<1>3. CASE Step(h, "discard") /\ a.method = "PUT"
  <2>1. k.step = "discard"  BY <1>2 DEF Hands
  <2> HIDE DEF k
  <2>2. Sees(a, k, e)  BY <1>3, <2>1 DEF Sees
  <2>3. "discard" \in Steps \ {"send", "done", "body"}  BY DEF Steps
  <2>. QED  BY <1>1, <1>3, <2>2, <2>3, ServesStep DEF k
<1>4. CASE Finish(h, Status(500))
  <2>1. 500 \in {0, 400, 401, 405, 500}  OBVIOUS
  <2>. QED  BY <1>1, <1>4, <2>1, ServesStatus
<1>. QED  BY <1>1, <1>3, <1>4

\* Discard: the rest of a PUT is gone.
LEMMA DiscardServes ==
  ASSUME ServerOK, NEW h \in Handlers, Serves(h), Discard(h)
  PROVE  Serves(h)' /\ Effects(h)
<1> DEFINE a == ask[h]
           e == disk.entry[a.path]
           r == Status(500)
<1>1. /\ hand[h].step = "discard" /\ UNCHANGED <<share, ask>> /\ Finish(h, r)
      /\ \/ disk' = disk
         \/ disk' = WithEntry(disk, a.path, Absent)
  BY DEF Discard, At, Change, Unchanged, Fail
<1>2. /\ disk \in Disks /\ a.path \in Paths /\ disk.entry \in Entries
  BY <1>1, Handler DEF DiskOK
<1>3. a.method = "PUT"  BY <1>1 DEF Serves, ServesOn, Sees
<1>4. CASE disk' = disk
  <2>1. 500 \in {0, 400, 401, 405, 500}  OBVIOUS
  <2>. QED  BY <1>1, <1>4, <2>1, ServesStatus
<1>5. CASE disk' = WithEntry(disk, a.path, Absent)
  <2>1. disk'.entry[a.path] = Absent
    <3>1. disk'.entry = [disk.entry EXCEPT ![a.path] = Absent]  BY <1>2, <1>5, WithEntryIs
    <3>2. a.path \in DOMAIN disk.entry  BY <1>2 DEF Entries
    <3>. QED  BY <3>1, <3>2
  <2>2. r.status = 500 /\ ~Ok(500)  BY DEF Status, NoReply, Ok
  <2> HIDE DEF r
  <2>3. \A s, b, x, above, d : Tells(s, b, r, x, above, d)  BY <2>2 DEF Tells
  <2>4. Serves(h)'  BY <1>1, <2>3, ServesDone
  <2>. QED  BY <1>3, <2>1, <2>4 DEF Effects, Affects
<1>. QED  BY <1>1, <1>4, <1>5

\* Delete: nothing is at the path any more.
LEMMA DeleteServes ==
  ASSUME ServerOK, NEW h \in Handlers, Serves(h), Delete(h)
  PROVE  Serves(h)' /\ Effects(h)
<1> DEFINE a == ask[h]
           r == Status(204)
<1>1. /\ hand[h].step = "delete" /\ UNCHANGED <<share, ask>>
      /\ \/ disk' = disk /\ Finish(h, Status(500))
         \/ disk' = Cleared(disk, a.path) /\ Finish(h, r)
  BY DEF Delete, At, Change, Keep, diskVars, Unchanged, Fail
<1>2. /\ disk \in Disks /\ a.path \in Paths  BY <1>1, Handler DEF DiskOK
<1>3. a.method = "DELETE"  BY <1>1 DEF Serves, ServesOn, Sees
<1>4. CASE disk' = disk /\ Finish(h, Status(500))
  <2>1. 500 \in {0, 400, 401, 405, 500}  OBVIOUS
  <2>. QED  BY <1>1, <1>4, <2>1, ServesStatus
<1>5. CASE disk' = Cleared(disk, a.path) /\ Finish(h, r)
  <2>1. disk'.entry[a.path] = Absent
    <3>1. disk'.entry = Pruned(disk.entry, a.path)  BY <1>2, <1>5, ClearedIs
    <3>2. IsPrefix(a.path, a.path)  BY <1>2, PathOrder
    <3>. QED  BY <1>2, <3>1, <3>2 DEF Pruned
  <2>2. r.status = 204  BY DEF Status, NoReply
  <2> HIDE DEF r
  <2>3. \A d : Tells(share, a, r, disk'.entry[a.path], disk'.entry[Parent(a.path)], d)
    BY <1>3, <2>1, <2>2 DEF Tells
  <2>4. Serves(h)'  BY <1>1, <1>5, <2>3, ServesDone
  <2>. QED  BY <1>3, <2>4 DEF Effects, Affects
<1>. QED  BY <1>1, <1>4, <1>5

\* Mkcol: a directory is at the path.
LEMMA MkcolServes ==
  ASSUME ServerOK, NEW h \in Handlers, Serves(h), Mkcol(h)
  PROVE  Serves(h)' /\ Effects(h)
<1> DEFINE a == ask[h]
           r == Status(201)
<1>1. /\ hand[h].step = "mkcol" /\ UNCHANGED <<share, ask>>
      /\ \/ disk' = disk /\ Finish(h, Status(500))
         \/ disk' = MakeDirs(disk, a.path) /\ Finish(h, r)
  BY DEF Mkcol, At, Change, Keep, diskVars, Unchanged, Fail
<1>2. /\ disk \in Disks /\ a.path \in Paths  BY <1>1, Handler DEF DiskOK
<1>3. a.method = "MKCOL"  BY <1>1 DEF Serves, ServesOn, Sees
<1>4. CASE disk' = disk /\ Finish(h, Status(500))
  <2>1. 500 \in {0, 400, 401, 405, 500}  OBVIOUS
  <2>. QED  BY <1>1, <1>4, <2>1, ServesStatus
<1>5. CASE disk' = MakeDirs(disk, a.path) /\ Finish(h, r)
  <2>1. disk'.entry[a.path] = Folder
    <3>1. disk'.entry = Dirs(disk.entry, a.path)  BY <1>2, <1>5, MakeDirsIs
    <3>2. IsPrefix(a.path, a.path)  BY <1>2, PathOrder
    <3>. QED  BY <1>2, <3>1, <3>2 DEF Dirs
  <2>2. r.status = 201  BY DEF Status, NoReply
  <2> HIDE DEF r
  <2>3. \A d : Tells(share, a, r, disk'.entry[a.path], disk'.entry[Parent(a.path)], d)
    BY <1>3, <2>1, <2>2 DEF Tells
  <2>4. Serves(h)'  BY <1>1, <1>5, <2>3, ServesDone
  <2>. QED  BY <1>3, <2>4 DEF Effects, Affects
<1>. QED  BY <1>1, <1>4, <1>5

\* A handler of an ordinary request that nobody interferes with goes on.
LEMMA ServesHandle ==
  ASSUME ServerOK, NEW h \in Handlers, Ordinary(ask[h]), Serves(h), Handle(h)
  PROVE  Serves(h)' /\ Effects(h)
<1>1. hand[h].step \notin {"none", "zip", "copystat", "destparent", "destprobe", "destcontain",
                           "destcontainparent", "transfer"}
  BY DEF Serves, ServesOn, Sees
<1>2. \/ Stat(h) \/ Probe(h) \/ Contain(h) \/ List(h) \/ Collect(h) \/ Describe(h) \/ Open(h)
      \/ Meta(h) \/ Send(h) \/ UploadParent(h) \/ Create(h) \/ Body(h) \/ BodyEnds(h)
      \/ BodyBreaks(h) \/ Measure(h) \/ Discard(h) \/ Delete(h) \/ Mkcol(h)
  BY <1>1 DEF Handle, At, CopyStat, DestParent, DestProbe, DestContain, Copy, Move
<1>. QED  BY <1>2, StatServes, ProbeServes, ContainServes, ShownServes, OpenServes, MetaServes,
             SendServes, UploadParentServes, CreateServes, BodyServes, BodyEndsServes,
             BodyBreaksServes, MeasureServes, DiscardServes, DeleteServes, MkcolServes

\* Only a handler that has something to do goes on.
LEMMA HandlesRunning ==
  ASSUME NEW h \in Handlers, Handle(h)
  PROVE  Running(h)
BY DEF Handle, Running, At, Stat, Probe, Contain, List, Collect, Describe, Open, Meta, Send,
       UploadParent, Create, Body, BodyEnds, BodyBreaks, Measure, Discard, Delete, Mkcol,
       CopyStat, DestParent, DestProbe, DestContain, Copy, Move

\* A handler that nothing happens to, while the disk stays as it is.
LEMMA ServesStays ==
  ASSUME NEW h \in Handlers, Serves(h), UNCHANGED <<share, disk>>,
         ask'[h] = ask[h], hand'[h] = hand[h], reply'[h] = reply[h]
  PROVE  Serves(h)'
BY DEF Serves

\* A handler without a request has not begun.
Rested == \A h \in Handlers : hand[h].step = "none" => hand[h].at = 0

\* That stays so.
LEMMA RestedStays ==
  ASSUME ServerOK, Rested, ServerMoves
  PROVE  Rested'
<1>1. ASSUME NEW h \in Handlers, Handle(h) PROVE Rested'
  BY <1>1, HandleMoves DEF OnlyItself, Rested
<1>2. ASSUME NEW h \in Handlers, NEW a, Submit(h, a) PROVE Rested'
  BY <1>2, SubmitMoves DEF OnlyItself, Rested
<1>3. ASSUME NEW h \in Handlers, Lose(h) PROVE Rested'
  BY <1>3, LoseMoves DEF Rested
<1>4. ASSUME Restart PROVE Rested'
  <2>1. \A h \in Handlers : hand'[h].step = "none" => ~Running(h)  BY <1>4, RestartMoves
  <2>. QED  BY <1>4, <2>1, RestartMoves DEF Rested
<1>5. ASSUME UNCHANGED vars PROVE Rested'  BY <1>5 DEF Rested, vars
<1>. QED  BY <1>1, <1>2, <1>3, <1>4, <1>5 DEF ServerMoves

\* An ordinary request is answered at once, or goes and looks.
LEMMA OrdinaryBegins ==
  ASSUME NEW a, Ordinary(a)
  PROVE  \/ AtOnce(a) = Answer(200) /\ a.method = "GET"
         \/ AtOnce(a) = Answer(401)
         \/ AtOnce(a) = Answer(403) /\ Access(a).paths = Nothing
         \/ AtOnce(a) = Go("stat")
<1> DEFINE g == Access(a)
           n == IF g.user = Nobody THEN 401 ELSE 403
<1>1. /\ a.query \in {"", "json", "q", "internal"} /\ (a.query = "internal" => a.method = "GET")
      /\ a.method # "CHECKAUTH" /\ a.method # "LOGOUT"
  BY DEF Ordinary
<1>2. CASE a.query = "internal"
  <2>1. AtOnce(a) = Answer(200)  BY <1>2 DEF AtOnce
  <2>. QED  BY <1>1, <1>2, <2>1
<1>3. CASE a.query # "internal" /\ g.paths = Nothing
  <2>1. AtOnce(a) = Answer(n)  BY <1>3 DEF AtOnce
  <2>2. n = 401 \/ n = 403  OBVIOUS
  <2> HIDE DEF n
  <2>. QED  BY <1>3, <2>1, <2>2
<1>4. CASE a.query # "internal" /\ g.paths # Nothing
  <2>1. a.query # "tokengen" /\ a.query # "internal"  BY <1>1, <1>4
  <2> HIDE DEF g
  <2>2. AtOnce(a) = Go("stat")  BY <1>1, <1>4, <2>1 DEF AtOnce, g
  <2>. QED  BY <2>2
<1>. QED  BY <1>2, <1>3, <1>4

\* A request is taken: what is told at once is the case.
LEMMA ServesSubmit ==
  ASSUME ServerOK, Untouched, Rested, NEW h \in Handlers, NEW a, Ordinary(a), Submit(h, a)
  PROVE  /\ Serves(h)' /\ hand'[h].at = 0
         /\ hand'[h].step = "stat" \/ (hand'[h].step = "done" /\ (Ok(reply'[h].status) => a.method = "GET"))
<1> DEFINE k == [hand[h] EXCEPT !.step = "stat"]
           l == [Free EXCEPT !.step = "done"]
<1>1. /\ hand[h].step = "none" /\ Follow(h, AtOnce(a)) /\ ask'[h] = a /\ UNCHANGED <<share, disk>>
  BY SubmitMoves DEF Submit
<1>2. reply[h].status = 0 /\ hand[h].at = 0
  BY <1>1 DEF Untouched, Rested, NoReply
<1>3. hand \in [Handlers -> Hands] /\ reply \in [Handlers -> Replies]  BY DEF ServerOK
<1>4. CASE AtOnce(a) = Go("stat")
  <2>1. Step(h, "stat")  BY <1>1, <1>4 DEF Follow, Go
  <2>2. hand'[h] = k /\ reply'[h] = reply[h]  BY <1>3, <2>1 DEF Step
  <2>3. k.step = "stat" /\ k.at = 0  BY <1>2, <1>3 DEF Hands
  <2> HIDE DEF k
  <2>4. \A e, d : Sees(a, k, e) /\ Uploads(a, k, e, d)  BY <2>3 DEF Sees, Uploads
  <2>5. ServesOn(share, a, k, reply[h], disk')  BY <1>2, <2>3, <2>4 DEF ServesOn
  <2>. QED  BY <1>1, <2>2, <2>3, <2>5 DEF Serves
<1>5. ASSUME NEW n \in {200, 401, 403}, AtOnce(a) = Answer(n), n = 200 => a.method = "GET",
             n = 403 => Access(a).paths = Nothing
      PROVE  /\ Serves(h)' /\ hand'[h].at = 0
             /\ hand'[h].step = "done" /\ (Ok(reply'[h].status) => a.method = "GET")
  <2> DEFINE r == Status(n)
  <2>1. Finish(h, r)  BY <1>1, <1>5 DEF Follow, Answer
  <2>2. hand'[h] = l /\ reply'[h] = r  BY <1>3, <2>1 DEF Finish
  <2>3. l.step = "done" /\ l.at = 0  BY DEF Free
  <2>4. r.status = n  BY DEF Status, NoReply
  <2>5. (Ok(n) => n = 200) /\ n # 404  BY <1>5 DEF Ok
  <2> HIDE DEF l, r
  <2>6. \A e, d : Sees(a, l, e) /\ Uploads(a, l, e, d)  BY <2>3 DEF Sees, Uploads
  <2>7. \A e, above, d : Tells(share, a, r, e, above, d)
    BY <1>5, <2>4, <2>5 DEF Tells, Access
  <2>8. ServesOn(share, a, l, r, disk')  BY <2>3, <2>6, <2>7 DEF ServesOn
  <2>. QED  BY <1>1, <1>5, <2>2, <2>3, <2>4, <2>5, <2>8 DEF Serves
<1>. QED  BY <1>4, <1>5, OrdinaryBegins

\* The share starts again: no change has been told.
LEMMA ServesRestart ==
  ASSUME ServerOK, Restart, NEW h \in Handlers, Serves(h)
  PROVE  /\ Serves(h)'
         /\ Running(h) => hand'[h].step = "done" /\ (Ok(reply'[h].status) => ask[h].method = "GET")
<1> DEFINE a == ask[h]
           l == [Free EXCEPT !.step = "done"]
           r == [reply[h] EXCEPT !.whole = FALSE]
<1>1. UNCHANGED <<share, disk, ask>>  BY DEF Restart
<1>2. CASE ~Running(h)
  <2>1. hand'[h] = hand[h] /\ reply'[h] = reply[h]  BY <1>2, RestartMoves
  <2>. QED  BY <1>1, <1>2, <2>1, ServesStays
<1>3. CASE Running(h)
  <2>1. hand'[h] = l /\ reply'[h] = r  BY <1>3 DEF Restart
  <2>2. l.step = "done" /\ l.at = 0  BY DEF Free
  <2>3. r.status = reply[h].status  BY DEF ServerOK, Replies
  <2>4. \/ r.status = 0
        \/ r.status \in {200, 206} /\ a.method = "GET"
    BY <1>3, <2>3 DEF Running, Serves, ServesOn, Sees
  <2>5. ~Ok(0)  BY DEF Ok
  <2> HIDE DEF l, r
  <2>6. \A e, d : Sees(a, l, e) /\ Uploads(a, l, e, d)  BY <2>2 DEF Sees, Uploads
  <2>7. \A s, e, above, d : Tells(s, a, r, e, above, d)  BY <2>4, <2>5 DEF Tells
  <2> HIDE DEF a
  <2>8. ServesOn(share, a, l, r, disk)  BY <2>2, <2>6, <2>7 DEF ServesOn
  <2>9. Serves(h)'  BY <1>1, <2>1, <2>8 DEF Serves, a
  <2>. QED  BY <2>1, <2>2, <2>4, <2>5, <2>9 DEF a
<1>. QED  BY <1>2, <1>3

-----------------------------------------------------------------------------
(* The agent alone.                                                        *)

AgentAlone == share.clients = {"agent"} /\ \A h \in Handlers : ~gone[h]

\* What the agent tells of a call of tool, having got local, is so.
Truth(tool, told, local) ==
  LET e == disk.entry[Target] IN
  /\ told = "ok" =>
       /\ tool = "upload" => DataAt(Target) = AgentFile
       /\ tool = "download" => e = Folder \/ (IsFile(e) /\ local = DataAt(Target))
       /\ tool = "delete" => e = Absent
       /\ tool = "make_dir" => e = Folder
  /\ told = "switch" =>
       \/ ~share.upload \/ ~share.delete \/ e = Folder
       \/ Access(Tool(tool)).paths = Nothing
  /\ told = "path" =>
       e = Absent /\ (tool = "upload" => disk.entry[Parent(Target)] = Absent)

\* Only the handler of its call runs, and what it tells is so.
AgentServed ==
  /\ PageIdles /\ browser.st = "idle"
  /\ \A h \in Handlers : Running(h) => agent.st = "waiting" /\ h = agent.h
  /\ agent.st = "waiting" =>
       /\ agent.tool \in Tools /\ ask[agent.h] = Tool(agent.tool)
       /\ hand[agent.h].step # "none"
       /\ Serves(agent.h)
       /\ agent.tool = "download" => Reading(agent.h)
  /\ agent.st = "idle" => Truth(agent.tool, agent.told, agent.local)
AgentInv == AgentAlone => AgentServed

\* The tools ask for what the server does without much ado.
LEMMA ToolsAsk ==
  ASSUME ServerOK, NEW tool \in Tools
  PROVE  /\ Ordinary(Tool(tool)) /\ Tool(tool).path = Target
         /\ tool = "upload" => Tool(tool).method = "PUT" /\ Tool(tool).body = AgentFile
         /\ tool = "download" => Downloads(Tool(tool)) /\ Tool(tool).range = NoRange
         /\ tool = "delete" => Tool(tool).method = "DELETE"
         /\ tool = "make_dir" => Tool(tool).method = "MKCOL"
<1>1. CASE tool = "upload"
  <2> DEFINE r == Request("agent", "PUT", Target)
             a == [r EXCEPT !.body = AgentFile]
  <2>1. Tool(tool) = a  BY <1>1 DEF Tool
  <2>2. a.path = Target /\ a.method = "PUT" /\ a.query = "" /\ a.body = AgentFile
    BY DEF Request, RequestOf
  <2>3. tool \notin {"download", "delete", "make_dir"}  BY <1>1
  <2> HIDE DEF a
  <2>. QED  BY <2>1, <2>2, <2>3 DEF Ordinary
<1>2. CASE tool \in {"download", "delete", "make_dir"}
  <2> DEFINE Plain(m) == Request("agent", m, Target)
  <2>1. \A m : /\ Plain(m).path = Target /\ Plain(m).method = m /\ Plain(m).query = ""
               /\ Plain(m).range = NoRange
    BY DEF Request, RequestOf
  <2>2. /\ tool = "download" => Tool(tool) = Plain("GET")
        /\ tool = "delete" => Tool(tool) = Plain("DELETE")
        /\ tool = "make_dir" => Tool(tool) = Plain("MKCOL")
    BY DEF Tool
  <2> HIDE DEF Plain
  <2>3. CASE tool = "download"  BY <2>1, <2>2, <2>3 DEF Ordinary, Downloads
  <2>4. CASE tool = "delete"  BY <2>1, <2>2, <2>4 DEF Ordinary
  <2>5. CASE tool = "make_dir"  BY <2>1, <2>2, <2>5 DEF Ordinary
  <2>. QED  BY <1>2, <2>3, <2>4, <2>5
<1>3. CASE tool \in {"list", "search", "status"}
  <2> DEFINE Ask(q) == [Request("agent", "GET", Target) EXCEPT !.query = q]
  <2>1. \A q : Ask(q).path = Target /\ Ask(q).method = "GET" /\ Ask(q).query = q
    BY DEF Request, RequestOf
  <2>2. \E q \in {"json", "q", "internal"} : Tool(tool) = Ask(q)  BY <1>3 DEF Tool
  <2> HIDE DEF Ask
  <2>3. tool \notin {"upload", "download", "delete", "make_dir"}  BY <1>3
  <2>. QED  BY <2>1, <2>2, <2>3 DEF Ordinary
<1>. QED  BY <1>1, <1>2, <1>3 DEF Tools

\* The tools ask for the same as long as the share is the same.
LEMMA ToolsStay ==
  ASSUME share' = share
  PROVE  /\ Target' = Target
         /\ \A tool : Tool(tool)' = Tool(tool) /\ Access(Tool(tool))' = Access(Tool(tool))
<1>1. Target' = Target  BY DEF Target
<1>2. \A by, m : Request(by, m, Target)' = Request(by, m, Target)
  BY <1>1 DEF Request, RequestOf
<1>3. \A tool : Tool(tool)' = Tool(tool)  BY <1>2 DEF Tool
<1>. QED  BY <1>1, <1>3 DEF Access

\* What is so stays so, as long as the disk stays as it is.
LEMMA TruthStays ==
  ASSUME UNCHANGED <<share, disk>>, NEW tool, NEW told, NEW local, Truth(tool, told, local)
  PROVE  Truth(tool, told, local)'
<1>1. Target' = Target /\ Access(Tool(tool))' = Access(Tool(tool))  BY ToolsStay
<1>2. DataAt(Target)' = DataAt(Target)  BY <1>1 DEF DataAt
<1>. QED  BY <1>1, <1>2 DEF Truth

\* What is in the file at a path, again.
LEMMA SameData == \A p : DataAt(p) = DataIn(disk, p)
BY DEF DataAt, DataIn

\* What a status is said to mean.
LEMMA EnsureOkMeans ==
  ASSUME NEW n
  PROVE  /\ EnsureOk(n) = "ok" => Ok(n)
         /\ EnsureOk(n) = "switch" => n = 403
         /\ EnsureOk(n) = "path" => n = 404
<1>1. ~Ok(0) /\ ~Ok(401) /\ ~Ok(403) /\ ~Ok(404)  BY DEF Ok
<1>2. CASE Ok(n)
  <2>1. EnsureOk(n) = "ok"  BY <1>1, <1>2 DEF EnsureOk
  <2>. QED  BY <1>2, <2>1
<1>3. CASE n = 0
  <2>1. EnsureOk(n) = "offline"  BY <1>1, <1>3 DEF EnsureOk
  <2>. QED  BY <2>1
<1>4. CASE n = 401
  <2>1. EnsureOk(n) = "login"  BY <1>1, <1>4 DEF EnsureOk
  <2>. QED  BY <2>1
<1>5. CASE n = 403
  <2>1. EnsureOk(n) = "switch"  BY <1>1, <1>5 DEF EnsureOk
  <2>. QED  BY <1>5, <2>1
<1>6. CASE n = 404
  <2>1. EnsureOk(n) = "path"  BY <1>1, <1>6 DEF EnsureOk
  <2>. QED  BY <1>6, <2>1
<1>7. CASE ~Ok(n) /\ n # 0 /\ n # 401 /\ n # 403 /\ n # 404
  <2>1. EnsureOk(n) = "http"  BY <1>7, Zenon DEF EnsureOk
  <2>. QED  BY <2>1
<1>. QED  BY <1>2, <1>3, <1>4, <1>5, <1>6, <1>7

\* The answer to a call is told as it is.
LEMMA AgentHeard ==
  ASSUME ServerOK, VersionsOK, agent.st = "waiting", agent.h \in Handlers, agent.tool \in Tools,
         ask[agent.h] = Tool(agent.tool), hand[agent.h].step = "done", Serves(agent.h),
         agent.tool = "download" => Reading(agent.h)
  PROVE  LET r == reply[agent.h]
             told == IF Ok(r.status) /\ ~r.whole THEN "offline" ELSE EnsureOk(r.status)
             local == IF agent.tool = "download" /\ r.status = 200 THEN r.part ELSE agent.local
         IN  Truth(agent.tool, told, local)
<1> DEFINE r == reply[agent.h]
           told == IF Ok(r.status) /\ ~r.whole THEN "offline" ELSE EnsureOk(r.status)
           local == IF agent.tool = "download" /\ r.status = 200 THEN r.part ELSE agent.local
           a == Tool(agent.tool)
           e == disk.entry[Target]
           d == DataAt(Target)
<1>1. /\ a.path = Target /\ Ordinary(a)
      /\ agent.tool = "upload" => a.method = "PUT" /\ a.body = AgentFile
      /\ agent.tool = "download" => Downloads(a) /\ a.range = NoRange
      /\ agent.tool = "delete" => a.method = "DELETE"
      /\ agent.tool = "make_dir" => a.method = "MKCOL"
  BY ToolsAsk
<1>2. Tells(share, a, r, e, disk.entry[Parent(Target)], d)
  BY <1>1, SameData DEF Serves, ServesOn
<1>3. told = "ok" => Ok(r.status) /\ r.whole
  <2>1. ASSUME Ok(r.status), ~r.whole PROVE told = "offline"  BY <2>1
  <2>2. ASSUME ~(Ok(r.status) /\ ~r.whole) PROVE told = EnsureOk(r.status)  BY <2>2
  <2> HIDE DEF told
  <2>. QED  BY <2>1, <2>2, EnsureOkMeans
<1>4. (told = "switch" => r.status = 403) /\ (told = "path" => r.status = 404)
  <2>1. told = "offline" \/ told = EnsureOk(r.status)  OBVIOUS
  <2> HIDE DEF told
  <2>. QED  BY <2>1, EnsureOkMeans
<1>5. ASSUME agent.tool = "download", Ok(r.status), r.whole
      PROVE  e = Folder \/ (IsFile(e) /\ local = d)
  <2>1. a.method = "GET" /\ a.range = NoRange  BY <1>1, <1>5 DEF Downloads
  <2>2. r.status \in {200, 206}  BY <1>2, <1>5, <2>1 DEF Tells
  <2>3. Reads(a, hand[agent.h], r, e, d)  BY <1>1, <1>5 DEF Reading
  <2>4. \/ IsFile(e) /\ Gives(a, r, d) /\ Given(a, r, d) = PartTo(a, r.status, d)
        \/ e = Folder
    BY <1>5, <2>2, <2>3 DEF Reads
  <2>5. ASSUME IsFile(e), Gives(a, r, d), Given(a, r, d) = PartTo(a, r.status, d)
        PROVE  local = d
    <3>1. r.status = 200  BY <2>1, <2>2, <2>5 DEF Gives
    <3>2. r.part = SubSeq(d, 0 + 1, Len(d))  BY <2>5, <3>1 DEF Gives, PartFrom, PartTo
    <3>3. Target \in Paths  BY ShareClientsAssumption DEF ServerOK, UsesOK, Target
    <3>4. d \in Seq(Blocks)  BY <2>5, <3>3, FileThere
    <3>5. local = r.part  BY <1>5, <3>1
    <3> HIDE DEF d, local
    <3>6. SubSeq(d, 1, Len(d)) = d /\ 0 + 1 = 1  BY <3>4, PieceIsAll
    <3>. QED  BY <3>2, <3>5, <3>6
  <2>. QED  BY <2>4, <2>5
<1>6. Access(a) = Guard(share.rules, a.path, a.method, a.who)  BY DEF Access
<1> HIDE DEF r, told, local, a, e, d
<1>7. told = "ok" => /\ agent.tool = "upload" => d = AgentFile
                     /\ agent.tool = "download" => e = Folder \/ (IsFile(e) /\ local = d)
                     /\ agent.tool = "delete" => e = Absent
                     /\ agent.tool = "make_dir" => e = Folder
  BY <1>1, <1>2, <1>3, <1>5 DEF Tells
<1>8. told = "switch" => ~share.upload \/ ~share.delete \/ e = Folder \/ Access(a).paths = Nothing
  BY <1>2, <1>4, <1>6 DEF Tells
<1>9. told = "path" => e = Absent /\ (agent.tool = "upload" => disk.entry[Parent(Target)] = Absent)
  BY <1>1, <1>2, <1>4 DEF Tells
<1>10. Truth(agent.tool, told, local)  BY <1>7, <1>8, <1>9 DEF Truth, a, e, d
<1>. QED  BY <1>10 DEF r, told, local

\* No connection has been lost, if none is.
LEMMA GoneStays ==
  ASSUME ServerOK, ServerMoves, \A h \in Handlers : ~gone'[h]
  PROVE  (\A h \in Handlers : ~gone[h]) /\ ~(\E h \in Handlers : Lose(h))
<1>1. ~(\E h \in Handlers : Lose(h))  BY LoseMoves
<1>2. gone' = gone
  BY <1>1, HandleMoves DEF ServerMoves, Submit, Restart, vars
<1>. QED  BY <1>1, <1>2

\* The handler of the agent's call goes on.
LEMMA AgentGoesOn ==
  ASSUME ServerOK, VersionsOK, AgentOK, AgentServed, UNCHANGED clientVars, ServerStep
  PROVE  AgentServed'
<1>1. UNCHANGED <<page, agent, browser>>  BY DEF clientVars
<1>2. share' = share  BY ShareStays DEF ServerMoves, ServerStep
<1>3. agent.st = "waiting" => agent.h \in Handlers  BY DEF AgentOK
<1>4. agent.st \in {"idle", "waiting"}  BY DEF AgentOK
<1>5. ASSUME NEW i \in Handlers, Handle(i) PROVE AgentServed'
  <2>1. agent.st = "waiting" /\ agent.h = i  BY <1>5, HandlesRunning DEF AgentServed
  <2>2. /\ OnlyItself(i) /\ ask' = ask  BY <1>5, HandleMoves
  <2>3. agent.tool \in Tools /\ ask[i] = Tool(agent.tool) /\ Serves(i)
        /\ (agent.tool = "download" => Reading(i))
    BY <2>1 DEF AgentServed
  <2>4. Ordinary(ask[i]) /\ (agent.tool = "download" => Downloads(ask[i]))  BY <2>3, ToolsAsk
  <2>5. Serves(i)'  BY <1>5, <2>3, <2>4, ServesHandle
  <2>6. agent.tool = "download" => Reading(i)'  BY <1>5, <2>3, <2>4, OwnStep
  <2>7. \A h \in Handlers : Running(h)' => h = i
    BY <2>1, <2>2 DEF OnlyItself, Running, AgentServed
  <2>8. Tool(agent.tool)' = Tool(agent.tool)
    <3>1. \A tool : Tool(tool)' = Tool(tool)  BY <1>2, ToolsStay
    <3>2. agent' = agent  BY <1>1
    <3>. QED  BY <1>2, <3>2 DEF Tool, Request, RequestOf, Target
  <2>9. /\ PageIdles' /\ browser'.st = "idle" /\ agent'.st = "waiting" /\ agent'.h = i
        /\ agent'.tool = agent.tool
    BY <1>1, <2>1 DEF AgentServed, PageIdles
  <2>10. hand'[i].step # "none" /\ ask'[i] = ask[i]  BY <2>2 DEF OnlyItself
  <2>11. (agent.h)' = agent.h  BY <1>1
  <2>. QED  BY <2>1, <2>3, <2>5, <2>6, <2>7, <2>8, <2>9, <2>10, <2>11 DEF AgentServed
<1>6. CASE Restart
  <2>1. UNCHANGED <<share, disk, clock, ask, gone>>  BY <1>6, RestartMoves
  <2>2. \A h \in Handlers : ~Running(h)'  BY <1>6, RestartMoves DEF Running
  <2>3. CASE agent.st = "idle"
    <3>1. Truth(agent.tool, agent.told, agent.local)  BY <2>3 DEF AgentServed
    <3>2. \A t, o, l : Truth(t, o, l) => Truth(t, o, l)'  BY <2>1, TruthStays
    <3>3. agent'.st = "idle" /\ PageIdles' /\ browser'.st = "idle"
      BY <1>1, <2>3 DEF AgentServed, PageIdles
    <3>4. Truth(agent.tool, agent.told, agent.local)'
      <4> DEFINE t == agent.tool
                 o == agent.told
                 l == agent.local
      <4>1. t' = t /\ o' = o /\ l' = l  BY <1>1
      <4>2. UNCHANGED <<share, disk>>  BY <2>1
      <4>3. Target' = Target /\ Access(Tool(t))' = Access(Tool(t)) /\ DataAt(Target)' = DataAt(Target)
        BY <4>1, <4>2 DEF Target, Access, Tool, Request, RequestOf, DataAt
      <4>. QED  BY <3>1, <4>1, <4>2, <4>3 DEF Truth
    <3>. QED  BY <2>2, <3>3, <3>4 DEF AgentServed
  <2>4. CASE agent.st = "waiting"
    <3> DEFINE h == agent.h
    <3>1. h \in Handlers /\ Serves(h) /\ hand[h].step # "none" /\ agent.tool \in Tools
          /\ ask[h] = Tool(agent.tool) /\ (agent.tool = "download" => Reading(h))
      BY <1>3, <2>4 DEF AgentServed
    <3>2. h' = h /\ agent'.tool = agent.tool /\ agent'.st = "waiting" /\ PageIdles'
          /\ browser'.st = "idle"
      BY <1>1, <2>4 DEF AgentServed, PageIdles
    <3> HIDE DEF h
    <3>3. Serves(h)'
      <4>1. \A i \in Handlers : Serves(i) => Serves(i)'  BY <1>6, ServesRestart
      <4>. QED  BY <3>1, <3>2, <4>1 DEF Serves
    <3>4. agent.tool = "download" => Reading(h)'
      <4>1. \A i \in Handlers : Reading(i) => Reading(i)'  BY <1>6, RestartReads
      <4>. QED  BY <3>1, <3>2, <4>1 DEF Reading, Version, DataAt
    <3>5. hand'[h].step # "none"  BY <1>6, <3>1, RestartMoves DEF Running
    <3>6. Tool(agent.tool)' = Tool(agent.tool)
      BY <2>1, <3>2 DEF Tool, Request, RequestOf, Target
    <3>. QED  BY <2>1, <2>2, <3>1, <3>2, <3>3, <3>4, <3>5, <3>6 DEF AgentServed, h
  <2>. QED  BY <1>4, <2>3, <2>4
<1>. QED  BY <1>5, <1>6 DEF ServerStep

\* The agent calls a tool: nobody else's handler runs.
LEMMA AgentBegins ==
  ASSUME ServerOK, Untouched, Rested, AgentOK, AgentServed, NEW tool \in Tools, AgentCalls(tool)
  PROVE  AgentServed'
<1> DEFINE All == [st : {"idle", "waiting"}, h : Waits, calls : Nat, tool : Tools \cup {"none"},
                   told : {"nothing", "ok", "offline", "login", "switch", "path", "http"},
                   local : Seq(Blocks)]
<1>1. PICK h \in Handlers :
        /\ Submit(h, Tool(tool))
        /\ agent' = [agent EXCEPT !.st = "waiting", !.h = h, !.calls = @ + 1,
                                  !.tool = tool, !.told = "nothing"]
  BY DEF AgentCalls
<1>2. agent.st = "idle" /\ UNCHANGED <<page, browser>>  BY DEF AgentCalls
<1>3. agent'.st = "waiting" /\ agent'.h = h /\ agent'.tool = tool
  <2> DEFINE u == [agent EXCEPT !.st = "waiting"]
             v == [u EXCEPT !.h = h]
             c == agent.calls + 1
             w == [v EXCEPT !.calls = c]
             x == [w EXCEPT !.tool = tool]
             y == [x EXCEPT !.told = "nothing"]
  <2>1. agent' = y  BY <1>1
  <2>2. agent \in All  BY DEF AgentOK
  <2>3. u \in All /\ u.st = "waiting"  BY <2>2
  <2> HIDE DEF u
  <2>4. v \in All /\ v.st = "waiting" /\ v.h = h  BY <2>3 DEF Waits
  <2>5. c \in Nat  BY <2>2
  <2> HIDE DEF v, c
  <2>6. w \in All /\ w.st = "waiting" /\ w.h = h  BY <2>4, <2>5
  <2> HIDE DEF w
  <2>7. x \in All /\ x.st = "waiting" /\ x.h = h /\ x.tool = tool  BY <2>6
  <2> HIDE DEF x
  <2>8. y.st = "waiting" /\ y.h = h /\ y.tool = tool  BY <2>7
  <2>. QED  BY <2>1, <2>8
<1>4. OnlyItself(h) /\ hand[h].step = "none" /\ ask'[h] = Tool(tool) /\ share' = share
  BY <1>1, SubmitMoves
<1>5. Ordinary(Tool(tool)) /\ (tool = "download" => Downloads(Tool(tool)))  BY ToolsAsk
<1>6. Serves(h)'  BY <1>1, <1>5, ServesSubmit
<1>7. tool = "download" => Reading(h)'  BY <1>1, <1>5, SubmitReads
<1>8. \A i \in Handlers : Running(i)' => i = h
  BY <1>2, <1>4 DEF OnlyItself, Running, AgentServed
<1>9. Tool(agent.tool)' = Tool(tool)
  BY <1>3, <1>4 DEF Tool, Request, RequestOf, Target
<1>10. PageIdles' /\ browser'.st = "idle"  BY <1>2 DEF AgentServed, PageIdles
<1>11. hand'[h].step # "none"  BY <1>4 DEF OnlyItself
<1>12. (agent.h)' = h /\ (agent.tool)' = tool  BY <1>3
<1>13. Serves(agent.h)' /\ (tool = "download" => Reading(agent.h)')
  BY <1>6, <1>7, <1>12 DEF Serves, Reading, Version, DataAt
<1>. QED  BY <1>3, <1>4, <1>8, <1>9, <1>10, <1>11, <1>12, <1>13 DEF AgentServed

\* It hears of it.
LEMMA AgentEnds ==
  ASSUME ServerOK, VersionsOK, AgentOK, AgentServed, AgentHears
  PROVE  AgentServed'
<1> DEFINE r == reply[agent.h]
           told == IF Ok(r.status) /\ ~r.whole THEN "offline" ELSE EnsureOk(r.status)
           local == IF agent.tool = "download" /\ r.status = 200 THEN r.part ELSE agent.local
           u == [agent EXCEPT !.st = "idle"]
           v == [u EXCEPT !.told = told]
           w == [v EXCEPT !.local = local]
           All == [st : {"idle", "waiting"}, h : Waits, calls : Nat, tool : Tools \cup {"none"},
                   told : {"nothing", "ok", "offline", "login", "switch", "path", "http"},
                   local : Seq(Blocks)]
<1>1. /\ agent.st = "waiting" /\ hand[agent.h].step = "done" /\ UNCHANGED vars
      /\ UNCHANGED <<page, browser>> /\ agent' = w
  BY DEF AgentHears, Done
<1>2. agent.h \in Handlers /\ agent \in All  BY <1>1 DEF AgentOK
<1>3. Truth(agent.tool, told, local)
  BY <1>1, <1>2, AgentHeard DEF AgentServed
<1>4. told \in {"nothing", "ok", "offline", "login", "switch", "path", "http"}
  BY EnsureOkType
<1>5. local \in Seq(Blocks)  BY <1>2 DEF ServerOK, Replies
<1> HIDE DEF told, local
<1>6. u \in All /\ u.st = "idle" /\ u.tool = agent.tool  BY <1>2
<1> HIDE DEF u
<1>7. v \in All /\ v.st = "idle" /\ v.tool = agent.tool /\ v.told = told  BY <1>4, <1>6
<1> HIDE DEF v
<1>8. w.st = "idle" /\ w.tool = agent.tool /\ w.told = told /\ w.local = local  BY <1>5, <1>7
<1> HIDE DEF w
<1>9. /\ agent'.st = "idle" /\ agent'.tool = agent.tool /\ agent'.told = told
      /\ agent'.local = local
  BY <1>1, <1>8
<1>10. UNCHANGED <<share, disk>>  BY <1>1 DEF vars
<1>11. Truth(agent.tool, agent.told, agent.local)'
  <2> DEFINE t == agent.tool
  <2>1. /\ Target' = Target /\ Access(Tool(t))' = Access(Tool(t))
        /\ DataAt(Target)' = DataAt(Target)
    BY <1>9, <1>10 DEF Target, Access, Tool, Request, RequestOf, DataAt
  <2>. QED  BY <1>3, <1>9, <1>10, <2>1 DEF Truth
<1>12. \A h \in Handlers : ~Running(h)'
  BY <1>1 DEF Running, AgentServed, vars
<1>13. PageIdles' /\ browser'.st = "idle"  BY <1>1 DEF AgentServed, PageIdles
<1>. QED  BY <1>9, <1>11, <1>12, <1>13 DEF AgentServed

\* Nobody else does anything.
LEMMA AgentStays ==
  ASSUME ReadInv, Rested, AgentInv, [Next]_allVars
  PROVE  AgentInv'
<1> SUFFICES ASSUME AgentAlone' PROVE AgentServed'
  BY DEF AgentInv
<1>1. ServerOK /\ VersionsOK /\ Untouched /\ AgentOK  BY DEF ReadInv, ShareInv, ClientsOK
<1>2. ServerMoves  BY ServerHas DEF ReadInv
<1>3. share' = share  BY <1>1, <1>2, ShareStays
<1>4. \A h \in Handlers : ~gone[h] /\ ~Lose(h)  BY <1>1, <1>2, GoneStays DEF AgentAlone
<1>5. share.clients = {"agent"} /\ AgentServed  BY <1>3, <1>4 DEF AgentAlone, AgentInv
<1>6. PageIdles /\ browser.st = "idle"  BY <1>5 DEF AgentServed
<1>7. ~Uses("page") /\ ~Uses("guest") /\ ~Uses("browser")  BY <1>5 DEF Uses
<1>8. ~GuestLeaves  BY <1>4 DEF GuestLeaves, Guests
<1>9. ~AgentLoses  BY <1>1, <1>4 DEF AgentLoses, AgentOK
<1>10. CASE ServerStep /\ UNCHANGED clientVars  BY <1>1, <1>5, <1>10, AgentGoesOn
<1>11. ASSUME NEW tool \in Tools, AgentCalls(tool) PROVE AgentServed'
  BY <1>1, <1>5, <1>11, AgentBegins
<1>12. CASE AgentHears  BY <1>1, <1>5, <1>12, AgentEnds
<1>13. CASE UNCHANGED allVars
  <2>1. UNCHANGED <<share, disk, clock, ask, hand, reply, page, agent, browser>>
    BY <1>13 DEF allVars
  <2>2. DataAt(Target)' = DataAt(Target) /\ DataAt(ask[agent.h].path)' = DataAt(ask[agent.h].path)
    BY <2>1 DEF DataAt, Target
  <2>3. Tool(agent.tool)' = Tool(agent.tool)
    BY <2>1 DEF Tool, Request, RequestOf, Target
  <2>4. Truth(agent.tool, agent.told, agent.local)
        => Truth(agent.tool, agent.told, agent.local)'
    BY <2>1, <2>2, <2>3 DEF Truth, Target, Access
  <2>5. Serves(agent.h) => Serves(agent.h)'  BY <2>1 DEF Serves
  <2>6. Reading(agent.h) => Reading(agent.h)'  BY <2>1, <2>2 DEF Reading, Version
  <2>7. \A h \in Handlers : Running(h)' <=> Running(h)  BY <2>1 DEF Running
  <2>8. PageIdles' /\ browser'.st = "idle"  BY <1>6, <2>1 DEF PageIdles
  <2>. QED  BY <1>5, <2>1, <2>3, <2>4, <2>5, <2>6, <2>7, <2>8 DEF AgentServed
<1>14. \/ ServerStep /\ UNCHANGED clientVars
       \/ \E tool \in Tools : AgentCalls(tool)
       \/ AgentHears \/ UNCHANGED allVars
  BY <1>6, <1>7, <1>8, <1>9 DEF Next, Moves, GuestSends, PageIdles, PageUploads, PageUnreached,
       PageHears, PageLoses, PageProgress, PageRetries, PageResumes, BrowserGets, BrowserLoses,
       BrowserTakes
<1>. QED  BY <1>10, <1>11, <1>12, <1>13, <1>14

\* What the agent relies on when it is alone, at all times.
THEOREM AgentInvariant == Spec => [](Rested /\ AgentInv)
<1>1. ASSUME Init PROVE Rested /\ AgentInv
  <2>1. /\ PageIdles /\ browser.st = "idle" /\ agent.st = "idle"
        /\ agent.told = "nothing"
        /\ \A h \in Handlers : hand[h].step = "none" /\ hand[h].at = 0
    BY <1>1 DEF Init, Free, PageIdles
  <2>2. Truth(agent.tool, agent.told, agent.local)  BY <2>1 DEF Truth
  <2>. QED  BY <2>1, <2>2 DEF Rested, AgentInv, AgentServed, Running
<1>2. ReadInv /\ Rested /\ AgentInv /\ [Next]_allVars => (Rested /\ AgentInv)'
  <2> SUFFICES ASSUME ReadInv, Rested, AgentInv, [Next]_allVars PROVE (Rested /\ AgentInv)'
    OBVIOUS
  <2>1. ServerOK /\ ServerMoves  BY ServerHas DEF ReadInv, ShareInv
  <2>. QED  BY <2>1, RestedStays, AgentStays
<1>. QED  BY <1>1, <1>2, ReadInvariant, PTL DEF Spec

\* Alone, and with no request lost, the agent tells its model what is the case:
\* what it says it has done is done, what it has got is what is there, and what
\* it puts a refusal down to is so (AgentTellsTheTruth).
THEOREM AgentIsTrue == Spec => []AgentTellsTheTruth
<1>1. AgentInv => AgentTellsTheTruth
  BY DEF AgentInv, AgentAlone, AgentServed, Truth, AgentTellsTheTruth
<1>. QED  BY <1>1, AgentInvariant, PTL

-----------------------------------------------------------------------------
(* The page alone, and nothing at its path to begin with.                  *)

FreshPage ==
  /\ share.clients = {"page"} /\ share.patient /\ share.prompt
  /\ share.tree[Target] = "none"

\* What handler k of the page's request a, with the answer r, means for the data
\* d at the path: a PATCH goes on where the file ends.
PageAsks(a, k, r, d) ==
  /\ k.step # "none"
  /\ Ordinary(a) /\ a.by = "page" /\ a.method \in {"HEAD", "PUT", "PATCH"}
  /\ a.method = "PUT" => a.body = PageFile
  /\ a.method = "PATCH" =>
       \E n \in 0..Len(PageFile) :
         /\ a.body = SubSeq(PageFile, n + 1, Len(PageFile))
         /\ k.step # "done" => d = SubSeq(PageFile, 1, n + k.at)
         /\ k.step = "done" /\ Ok(r.status) => d = PageFile

PageServed(h) ==
  /\ ask[h].path = Target /\ Serves(h)
  /\ PageAsks(ask[h], hand[h], reply[h], DataAt(Target))

\* The requests of the page that matter: those it waits for, and those it lost
\* that the server still has in its hands.
Current(h) == h \in Handlers /\ (Running(h) \/ h \in page.asked \cup page.sent)

\* There is one of them at most, and what is at the path is a beginning of the
\* file.
PageReads ==
  /\ agent.st = "idle" /\ browser.st = "idle"
  /\ Beginning(DataAt(Target), PageFile)
  /\ \A h, i \in Handlers : Current(h) /\ Current(i) => h = i
  /\ \A h \in Handlers : Running(h) => gone[h] \/ h \in page.asked \cup page.sent
  /\ \A h \in Handlers : Current(h) => PageServed(h) /\ page.st \notin {"idle", "ok"}
  /\ \A h \in page.asked : ask[h].method = "HEAD"
  /\ \A h \in page.sent : ask[h].method \in {"PUT", "PATCH"}
  /\ page.st = "ok" => DataAt(Target) = PageFile
PageInv == FreshPage => PageReads

\* A beginning of the page's file.
LEMMA BeginningOf ==
  ASSUME NEW m \in Nat, m =< Len(PageFile)
  PROVE  Beginning(SubSeq(PageFile, 1, m), PageFile) /\ Len(SubSeq(PageFile, 1, m)) = m
<1>1. PageFile \in Seq(Blocks)  BY PageFileType
<1>2. 0 \in Nat /\ 0 =< m /\ 0 + 1 = 1 /\ m - 0 = m  OBVIOUS
<1>3. Len(SubSeq(PageFile, 0 + 1, m)) = m - 0  BY <1>1, <1>2, PieceOf
<1>4. Len(SubSeq(PageFile, 1, m)) = m  BY <1>2, <1>3
<1>. QED  BY <1>4 DEF Beginning

\* The handler of the page's request goes on.
LEMMA PageHandles ==
  ASSUME ServerOK, NEW h \in Handlers, PageServed(h), Beginning(DataAt(Target), PageFile),
         Handle(h)
  PROVE  PageServed(h)' /\ Beginning(DataAt(Target)', PageFile)
<1> DEFINE a == ask[h]
           k == hand[h]
           l == hand'[h]
           r == reply'[h]
           d == DataIn(disk, a.path)
           y == DataIn(disk', a.path)
<1>1. OnlyItself(h) /\ UNCHANGED <<share, ask>>  BY HandleMoves
<1>2. a.path = Target /\ Serves(h) /\ PageAsks(a, k, reply[h], d)
  BY SameData DEF PageServed
<1>3. Ordinary(a) /\ a.by = "page" /\ a.method \in {"HEAD", "PUT", "PATCH"}
  BY <1>2 DEF PageAsks
<1>4. Serves(h)' /\ Effects(h)  BY <1>2, <1>3, ServesHandle
<1>5. Affects(a, k, l, r, disk, disk')  BY <1>4 DEF Effects
<1>6. Target' = Target /\ DataAt(Target)' = y
  BY <1>1, <1>2 DEF Target, DataAt, DataIn
<1>7. Beginning(d, PageFile)  BY <1>2, SameData
<1>8. Running(h) /\ k.step # "done"  BY HandlesRunning DEF Running
<1>9. l.step # "none" /\ l.at \in Nat /\ k.at \in Nat
  BY <1>1, HandleIsFine DEF OnlyItself, ServerOK, Hands
<1>10. PageFile \in Seq(Blocks) /\ Len(PageFile) \in Nat  BY PageFileType, LenProperties
<1>11. ASSUME PageAsks(a, l, r, y), Beginning(y, PageFile)
       PROVE  PageServed(h)' /\ Beginning(DataAt(Target)', PageFile)
  BY <1>1, <1>2, <1>4, <1>6, <1>11 DEF PageServed
<1>12. Uploads(a, l, disk'.entry[a.path], y) /\ Sees(a, l, disk'.entry[a.path])
  BY <1>1, <1>4 DEF Serves, ServesOn
<1>13. disk'.entry[a.path] = Absent => y = <<>>  BY DEF DataIn, IsFile, Absent
<1>14. Beginning(<<>>, PageFile)
  <2>1. SubSeq(PageFile, 1, 0) = <<>>  BY SubSeqEmpty
  <2>2. 0 \in Nat /\ 0 =< Len(PageFile)  BY <1>10
  <2>3. Beginning(SubSeq(PageFile, 1, 0), PageFile)  BY <2>2, BeginningOf
  <2>. QED  BY <2>1, <2>3
<1>15. CASE a.method = "HEAD"
  <2>1. y = d  BY <1>5, <1>15 DEF Affects
  <2>2. PageAsks(a, l, r, y)  BY <1>3, <1>9, <1>15 DEF PageAsks
  <2>. QED  BY <1>7, <1>11, <2>1, <2>2
<1>16. CASE a.method = "PUT"
  <2>1. a.body = PageFile  BY <1>2, <1>16 DEF PageAsks
  <2>2. PageAsks(a, l, r, y)  BY <1>3, <1>9, <1>16, <2>1 DEF PageAsks
  <2>3. y = d \/ l.step = "body" \/ disk'.entry[a.path] = Absent  BY <1>5, <1>16 DEF Affects
  <2>4. l.step = "body" => Beginning(y, PageFile)
    <3>1. l.step = "body" => y = SubSeq(PageFile, 1, l.at) /\ l.at =< Len(PageFile)
      BY <1>12, <1>16, <2>1 DEF Uploads
    <3>. QED  BY <1>9, <3>1, BeginningOf
  <2>. QED  BY <1>7, <1>11, <1>13, <1>14, <2>2, <2>3, <2>4
<1>17. CASE a.method = "PATCH"
  <2>1. PICK n \in 0..Len(PageFile) :
          /\ a.body = SubSeq(PageFile, n + 1, Len(PageFile))
          /\ d = SubSeq(PageFile, 1, n + k.at)
    BY <1>2, <1>8, <1>17 DEF PageAsks
  <2>2. n \in Nat /\ n =< Len(PageFile) /\ Len(PageFile) =< Len(PageFile)  BY <1>10
  <2>3. /\ Len(a.body) = Len(PageFile) - n
        /\ \A i \in 1..Len(PageFile) - n : a.body[i] = PageFile[n + i]
    BY <1>10, <2>1, <2>2, PieceOf
  <2>4. ASSUME l.step # "done" => y = SubSeq(PageFile, 1, n + l.at),
               l.step = "done" /\ Ok(r.status) => y = PageFile
        PROVE  PageAsks(a, l, r, y)
    BY <1>3, <1>9, <1>17, <2>1, <2>4 DEF PageAsks
  <2>5. CASE /\ y = d
             /\ l.step = "done" \/ l.at = k.at
             /\ l.step = "done" /\ Ok(r.status) => k.step = "body" /\ k.at = Len(a.body)
    <3>1. l.step = "done" /\ Ok(r.status) => y = PageFile
      <4>1. k.at = Len(a.body) => n + k.at = Len(PageFile)  BY <1>10, <2>2, <2>3
      <4>2. SubSeq(PageFile, 1, Len(PageFile)) = PageFile  BY <1>10, SubSeqFull
      <4>. QED  BY <2>1, <2>5, <4>1, <4>2
    <3>2. l.step # "done" => y = SubSeq(PageFile, 1, n + l.at)  BY <2>1, <2>5
    <3>. QED  BY <1>7, <1>11, <2>4, <2>5, <3>1, <3>2
  <2>6. CASE /\ l.step = "body" /\ k.at < Len(a.body) /\ l.at = k.at + 1
             /\ y = Append(d, a.body[k.at + 1])
    <3> DEFINE m == n + k.at
    <3>1. m \in Nat /\ m < Len(PageFile) /\ 0 =< m /\ m + 1 =< Len(PageFile)
      BY <1>9, <1>10, <2>2, <2>3, <2>6
    <3>2. a.body[k.at + 1] = PageFile[m + 1]
      <4> DEFINE i == k.at + 1
      <4>1. i \in 1..Len(PageFile) - n  BY <1>9, <1>10, <2>2, <2>3, <2>6
      <4>2. n + i = m + 1  BY <1>9, <2>2
      <4> HIDE DEF i, m
      <4>3. a.body[i] = PageFile[n + i]  BY <2>3, <4>1
      <4>4. a.body[i] = PageFile[m + 1]  BY <4>2, <4>3
      <4>. QED  BY <4>4 DEF i
    <3>3. n + l.at = m + 1  BY <1>9, <2>2, <2>6
    <3> HIDE DEF m
    <3>4. y = SubSeq(PageFile, 1, m + 1)
      <4>1. Append(SubSeq(PageFile, 0 + 1, m), PageFile[m + 1]) = SubSeq(PageFile, 0 + 1, m + 1)
        BY <1>10, <3>1, PieceGrows
      <4>2. d = SubSeq(PageFile, 1, m)  BY <2>1 DEF m
      <4>3. 0 + 1 = 1  OBVIOUS
      <4>. QED  BY <2>6, <3>2, <4>1, <4>2, <4>3
    <3>5. PageAsks(a, l, r, y)  BY <2>4, <2>6, <3>3, <3>4
    <3>6. Beginning(y, PageFile)
      <4> DEFINE j == m + 1
      <4>1. j \in Nat /\ j =< Len(PageFile)  BY <3>1
      <4> HIDE DEF j
      <4>2. Beginning(SubSeq(PageFile, 1, j), PageFile)  BY <4>1, BeginningOf
      <4>. QED  BY <3>4, <4>2 DEF j
    <3>. QED  BY <1>11, <3>5, <3>6
  <2>. QED  BY <1>5, <1>17, <2>5, <2>6 DEF Affects
<1>. QED  BY <1>3, <1>15, <1>16, <1>17

\* What the page asks for.
LEMMA PageRequests ==
  /\ Ordinary(Put) /\ Put.path = Target /\ Put.by = "page" /\ Put.method = "PUT"
  /\ Put.body = PageFile
  /\ LET a == Request("page", "HEAD", Target) IN
     Ordinary(a) /\ a.path = Target /\ a.by = "page" /\ a.method = "HEAD"
  /\ \A n \in Nat :
       LET a == AppendRest(n) IN
       /\ Ordinary(a) /\ a.path = Target /\ a.by = "page" /\ a.method = "PATCH"
       /\ a.body = SubSeq(PageFile, n + 1, Len(PageFile))
<1>1. /\ Ordinary(Put) /\ Put.path = Target /\ Put.by = "page" /\ Put.method = "PUT"
      /\ Put.body = PageFile
  <2> DEFINE r == Request("page", "PUT", Target)
             a == [r EXCEPT !.body = PageFile]
  <2>1. Put = a  BY DEF Put
  <2>2. a.path = Target /\ a.by = "page" /\ a.method = "PUT" /\ a.query = "" /\ a.body = PageFile
    BY DEF Request, RequestOf
  <2> HIDE DEF a
  <2>. QED  BY <2>1, <2>2 DEF Ordinary
<1>2. LET a == Request("page", "HEAD", Target) IN
      Ordinary(a) /\ a.path = Target /\ a.by = "page" /\ a.method = "HEAD"
  <2> DEFINE a == Request("page", "HEAD", Target)
  <2>1. /\ a.path = Target /\ a.by = "page" /\ a.method = "HEAD" /\ a.query = ""
        /\ a.range = NoRange
    BY DEF Request, RequestOf
  <2> HIDE DEF a
  <2>2. Ordinary(a)  BY <2>1 DEF Ordinary
  <2>. QED  BY <2>1, <2>2 DEF a
<1>3. ASSUME NEW n \in Nat
      PROVE  LET a == AppendRest(n) IN
             /\ Ordinary(a) /\ a.path = Target /\ a.by = "page" /\ a.method = "PATCH"
             /\ a.body = SubSeq(PageFile, n + 1, Len(PageFile))
  <2> DEFINE range == [kind |-> "append", a |-> 0, b |-> 0]
             rest == SubSeq(PageFile, n + 1, Len(PageFile))
             r == Request("page", "PATCH", Target)
             a == [r EXCEPT !.range = range, !.body = rest]
  <2>1. AppendRest(n) = a  BY DEF AppendRest
  <2>2. range.kind = "append"  OBVIOUS
  <2> HIDE DEF range, rest
  <2>3. /\ a.path = Target /\ a.by = "page" /\ a.method = "PATCH" /\ a.query = ""
        /\ a.range = range /\ a.body = rest
    BY DEF Request, RequestOf
  <2> HIDE DEF a
  <2>4. Ordinary(a)  BY <2>2, <2>3 DEF Ordinary
  <2>. QED  BY <2>1, <2>3, <2>4 DEF rest
<1>. QED  BY <1>1, <1>2, <1>3

\* The page asks, and nobody else does.
LEMMA PageSubmits ==
  ASSUME ServerOK, Untouched, Rested, PageReads, \A i \in Handlers : ~Running(i),
         NEW h \in Handlers, NEW a, Ordinary(a), a.path = Target, a.by = "page",
         a.method \in {"HEAD", "PUT", "PATCH"},
         a.method = "PUT" => a.body = PageFile,
         a.method = "PATCH" =>
           \E n \in 0..Len(PageFile) :
             /\ a.body = SubSeq(PageFile, n + 1, Len(PageFile))
             /\ DataAt(Target) = SubSeq(PageFile, 1, n),
         Submit(h, a),
         UNCHANGED <<agent, browser>>, page'.st \notin {"idle", "ok"},
         \/ page'.asked = {} /\ page'.sent = {h} /\ a.method \in {"PUT", "PATCH"}
         \/ page'.asked = {h} /\ page'.sent = {} /\ a.method = "HEAD"
  PROVE  PageReads'
<1> DEFINE d == DataAt(Target)
           l == hand'[h]
           r == reply'[h]
<1>1. OnlyItself(h) /\ ask'[h] = a /\ UNCHANGED <<share, disk>>  BY SubmitMoves
<1>2. /\ Serves(h)' /\ l.at = 0
      /\ l.step = "stat" \/ (l.step = "done" /\ (Ok(r.status) => a.method = "GET"))
  BY ServesSubmit
<1>3. Target' = Target /\ d' = d  BY <1>1 DEF Target, DataAt
<1>4. l.step # "none" /\ (l.step = "done" => ~Ok(r.status))  BY <1>2
<1>5. a.method = "PATCH" =>
        \E n \in 0..Len(PageFile) :
          /\ a.body = SubSeq(PageFile, n + 1, Len(PageFile))
          /\ l.step # "done" => d = SubSeq(PageFile, 1, n + l.at)
          /\ l.step = "done" /\ Ok(r.status) => d = PageFile
  <2> SUFFICES ASSUME a.method = "PATCH"
               PROVE  \E n \in 0..Len(PageFile) :
                        /\ a.body = SubSeq(PageFile, n + 1, Len(PageFile))
                        /\ l.step # "done" => d = SubSeq(PageFile, 1, n + l.at)
                        /\ l.step = "done" /\ Ok(r.status) => d = PageFile
    OBVIOUS
  <2>1. PICK n \in 0..Len(PageFile) : /\ a.body = SubSeq(PageFile, n + 1, Len(PageFile))
                                      /\ d = SubSeq(PageFile, 1, n)
    OBVIOUS
  <2>2. n + l.at = n  BY <1>2
  <2>. QED  BY <1>4, <2>1, <2>2
<1> HIDE DEF l, r, d
<1>6. PageAsks(a, l, r, d)  BY <1>4, <1>5 DEF PageAsks
<1>7. PageServed(h)'  BY <1>1, <1>2, <1>3, <1>6 DEF PageServed, l, r, d
<1>8. \A i \in Handlers : Running(i)' => i = h  BY <1>1 DEF OnlyItself, Running
<1>9. \A i \in Handlers : Current(i)' => i = h  BY <1>8 DEF Current
<1>10. \A i \in Handlers : Current(i)' => PageServed(i)'  BY <1>7, <1>9
<1>11. Beginning(DataAt(Target)', PageFile)  BY <1>3 DEF PageReads, d
<1>12. agent'.st = "idle" /\ browser'.st = "idle"  BY DEF PageReads
<1>13. /\ \A i \in page'.asked : ask'[i].method = "HEAD"
       /\ \A i \in page'.sent : ask'[i].method \in {"PUT", "PATCH"}
       /\ h \in page'.asked \cup page'.sent
  BY <1>1
<1>. QED  BY <1>8, <1>9, <1>10, <1>11, <1>12, <1>13 DEF PageReads

\* The page waits for no more than before: the server is as it was.
LEMMA PageGivesUp ==
  ASSUME PageReads, UNCHANGED <<share, disk, ask, hand, reply, agent, browser>>,
         page'.asked \subseteq page.asked, page'.sent \subseteq page.sent,
         page'.st \in {"busy", "failed"} \/ page'.st = page.st,
         \A h \in Handlers : Running(h) => gone'[h] \/ h \in page'.asked \cup page'.sent
  PROVE  PageReads'
<1>1. Target' = Target /\ DataAt(Target)' = DataAt(Target)  BY DEF Target, DataAt
<1>2. \A h \in Handlers : Running(h)' <=> Running(h)  BY DEF Running
<1>3. \A h \in Handlers : Current(h)' => Current(h)  BY <1>2 DEF Current
<1>4. \A h \in Handlers : PageServed(h) => PageServed(h)'
  BY <1>1 DEF PageServed, Serves
<1>5. \A h \in Handlers : Current(h)' => PageServed(h)' /\ page'.st \notin {"idle", "ok"}
  BY <1>3, <1>4 DEF PageReads
<1>6. \A h, i \in Handlers : Current(h)' /\ Current(i)' => h = i  BY <1>3 DEF PageReads
<1>7. Beginning(DataAt(Target)', PageFile)  BY <1>1 DEF PageReads
<1>8. page'.st = "ok" => DataAt(Target)' = PageFile  BY <1>1 DEF PageReads
<1>9. /\ \A h \in page'.asked : ask'[h].method = "HEAD"
      /\ \A h \in page'.sent : ask'[h].method \in {"PUT", "PATCH"}
      /\ agent'.st = "idle" /\ browser'.st = "idle"
  BY DEF PageReads
<1>10. \A h \in Handlers : Running(h)' => gone'[h] \/ h \in page'.asked \cup page'.sent
  BY <1>2
<1>. QED  BY <1>5, <1>6, <1>7, <1>8, <1>9, <1>10 DEF PageReads

\* The page's request is answered, and it hears of the end.
LEMMA PageEnds ==
  ASSUME ServerOK, PageOK, PageReads, PageHears
  PROVE  PageReads'
<1>1. PICK i \in page.sent :
        /\ hand[i].step = "done"
        /\ page' = [page EXCEPT !.st = Show(IF Ok(reply[i].status) THEN "ok" ELSE "failed"),
                                !.sent = @ \ {i}]
        /\ UNCHANGED <<share, disk, ask, hand, gone, reply, agent, browser>>
  BY DEF PageHears, Done, vars
<1> DEFINE r == reply[i]
           d == DataAt(Target)
<1>2. i \in Handlers /\ Current(i) /\ ~Running(i)  BY <1>1 DEF PageOK, Current, Running
<1>3. PageServed(i) /\ page.st \notin {"idle", "ok"} /\ ask[i].method \in {"PUT", "PATCH"}
  BY <1>2 DEF PageReads
<1>4. /\ page'.st = IF Ok(r.status) THEN "ok" ELSE "failed"
      /\ page'.asked = page.asked /\ page'.sent = page.sent \ {i}
  BY <1>1, <1>3 DEF PageOK, Show
<1>5. \A h \in Handlers : Running(h) => gone'[h] \/ h \in page'.asked \cup page'.sent
  BY <1>1, <1>2, <1>4 DEF PageReads
<1>6. CASE ~Ok(r.status)
  <2>1. page'.st = "failed"  BY <1>4, <1>6
  <2>. QED  BY <1>1, <1>4, <1>5, <2>1, PageGivesUp
<1>7. CASE Ok(r.status)
  <2>1. page'.st = "ok"  BY <1>4, <1>7
  <2>2. PageAsks(ask[i], hand[i], r, d) /\ Serves(i) /\ ask[i].path = Target
    BY <1>3 DEF PageServed
  <2>3. ask[i].method = "PATCH" => d = PageFile  BY <1>1, <1>7, <2>2 DEF PageAsks
  <2>4. ASSUME ask[i].method = "PUT" PROVE d = PageFile
    <3>1. ask[i].body = PageFile  BY <2>2, <2>4 DEF PageAsks
    <3>2. d = ask[i].body
      BY <1>1, <1>7, <2>2, <2>4, SameData DEF Serves, ServesOn, Tells
    <3>. QED  BY <3>1, <3>2
  <2>5. d = PageFile  BY <1>3, <2>3, <2>4
  <2>6. \A h \in Handlers : ~Current(h)'
    <3>1. \A h \in Handlers : Current(h)' => Current(h)  BY <1>1, <1>4 DEF Current, Running
    <3>2. \A h \in Handlers : Current(h)' => h = i  BY <1>2, <3>1 DEF PageReads
    <3>3. i \notin page.asked  BY <1>3 DEF PageReads
    <3>4. ~Current(i)'  BY <1>1, <1>2, <1>4, <3>3 DEF Current, Running
    <3>. QED  BY <3>2, <3>4
  <2>7. Target' = Target /\ d' = d  BY <1>1 DEF Target, DataAt
  <2>8. Beginning(DataAt(Target)', PageFile)  BY <2>7 DEF PageReads
  <2>9. agent'.st = "idle" /\ browser'.st = "idle"  BY <1>1 DEF PageReads
  <2>10. /\ \A h \in page'.asked : ask'[h].method = "HEAD"
         /\ \A h \in page'.sent : ask'[h].method \in {"PUT", "PATCH"}
    BY <1>1, <1>4 DEF PageReads
  <2>11. \A h \in Handlers : Running(h)' => gone'[h] \/ h \in page'.asked \cup page'.sent
    BY <2>6 DEF Current
  <2>. QED  BY <2>5, <2>6, <2>7, <2>8, <2>9, <2>10, <2>11 DEF PageReads
<1>. QED  BY <1>6, <1>7

\* A request of the page is lost.
LEMMA PageForgets ==
  ASSUME ServerOK, PageOK, PageReads, PageLoses
  PROVE  PageReads'
<1>1. PICK i \in page.asked \cup page.sent :
        /\ Lose(i)
        /\ page' = [page EXCEPT !.st = IF i \in page.sent THEN Show("failed") ELSE @,
                                !.asked = @ \ {i}, !.sent = @ \ {i}]
        /\ UNCHANGED <<agent, browser>>
  BY DEF PageLoses
<1>2. i \in Handlers /\ Current(i)  BY DEF PageOK, Current
<1>3. page.st \notin {"idle", "ok"}  BY <1>2 DEF PageReads
<1>4. /\ page'.st = "failed" \/ page'.st = page.st
      /\ page'.asked = page.asked \ {i} /\ page'.sent = page.sent \ {i}
  BY <1>1, <1>3 DEF PageOK, Show
<1>5. /\ gone'[i] /\ \A h \in Handlers : h # i => gone'[h] = gone[h]
      /\ UNCHANGED <<share, disk, ask, hand, reply>>
  BY <1>1, <1>2, LoseMoves
<1>6. \A h \in Handlers : Running(h) => gone'[h] \/ h \in page'.asked \cup page'.sent
  BY <1>4, <1>5 DEF PageReads
<1>. QED  BY <1>1, <1>4, <1>5, <1>6, PageGivesUp

\* The page begins, or asks how far it came.
LEMMA PageBegins ==
  ASSUME ServerOK, Untouched, Rested, PageOK, PageReads, PageUploads \/ PageRetries,
         share.prompt, share.patient
  PROVE  PageReads'
<1>1. CASE PageUploads
  <2>1. PICK h \in Handlers :
          PageAjax(h, 0) /\ page' = [page EXCEPT !.st = "busy", !.sent = {h}]
    BY <1>1 DEF PageUploads
  <2>2. page.st = "idle" /\ UNCHANGED <<agent, browser>>  BY <1>1 DEF PageUploads
  <2>3. \A i \in Handlers : ~Current(i)  BY <2>2 DEF PageReads
  <2>4. page.asked = {} /\ \A i \in Handlers : ~Running(i)  BY <2>3 DEF Current, PageOK
  <2>5. page'.st = "busy" /\ page'.asked = {} /\ page'.sent = {h}  BY <2>1, <2>4 DEF PageOK
  <2>6. Submit(h, Put)  BY <2>1 DEF PageAjax
  <2>7. /\ Ordinary(Put) /\ Put.path = Target /\ Put.by = "page" /\ Put.method = "PUT"
        /\ Put.body = PageFile
    BY PageRequests
  <2>. QED  BY <2>2, <2>4, <2>5, <2>6, <2>7, PageSubmits
<1>2. CASE PageRetries
  <2> DEFINE a == Request("page", "HEAD", Target)
  <2>1. PICK h \in Handlers : /\ Submit(h, a)
                              /\ page' = [page EXCEPT !.asked = @ \cup {h}, !.tries = @ + 1]
    BY <1>2 DEF PageRetries
  <2>2. /\ page.st = "failed" /\ UNCHANGED <<agent, browser>>
        /\ page.asked \cup page.sent = {}
        /\ \A i \in Handlers : gone[i] => ~Running(i)
    BY <1>2 DEF PageRetries
  <2>3. page'.st = "failed" /\ page'.asked = {h} /\ page'.sent = {}
    <3> DEFINE asked == page.asked \cup {h}
               tries == page.tries + 1
               u == [page EXCEPT !.asked = asked]
    <3>1. page' = [u EXCEPT !.tries = tries]  BY <2>1
    <3>2. asked = {h}  BY <2>2
    <3> HIDE DEF asked
    <3>3. u.st = "failed" /\ u.asked = {h} /\ u.sent = {}
      BY <2>2, <3>2 DEF PageOK
    <3>4. page'.st = u.st /\ page'.asked = u.asked /\ page'.sent = u.sent
      BY <3>1 DEF PageOK
    <3>. QED  BY <3>3, <3>4
  <2>4. \A i \in Handlers : ~Running(i)  BY <2>2 DEF PageReads
  <2>5. Ordinary(a) /\ a.path = Target /\ a.by = "page" /\ a.method = "HEAD"
    BY PageRequests
  <2> HIDE DEF a
  <2>. QED  BY <2>1, <2>2, <2>3, <2>4, <2>5, PageSubmits
<1>. QED  BY <1>1, <1>2

\* The page goes on where the file ends.
LEMMA PageGoesOn ==
  ASSUME ServerOK, Untouched, Rested, PageOK, PageReads, PageResumes
  PROVE  PageReads'
<1>1. PICK i \in page.asked :
        /\ hand[i].step = "done"
        /\ \/ page' = [page EXCEPT !.asked = @ \ {i}] /\ UNCHANGED vars
           \/ \E h \in Handlers :
                /\ PageAjax(h, IF reply[i].status = 200 THEN reply[i].size ELSE 0)
                /\ page' = [page EXCEPT !.asked = @ \ {i}, !.sent = @ \cup {h}]
        /\ UNCHANGED <<agent, browser>>
  BY DEF PageResumes, Done
<1> DEFINE r == reply[i]
           n == IF r.status = 200 THEN r.size ELSE 0
           d == DataAt(Target)
<1>2. i \in Handlers /\ Current(i)  BY DEF PageOK, Current
<1>3. PageServed(i) /\ ask[i].method = "HEAD" /\ page.st \in {"busy", "failed"}
  BY <1>2 DEF PageReads, PageOK
<1>4. r.status = 200 => r.size = Len(d)
  BY <1>1, <1>3, SameData DEF PageServed, Serves, ServesOn, Tells
<1>5. Beginning(d, PageFile)  BY DEF PageReads
<1>6. r.size \in Nat  BY <1>2 DEF ServerOK, Replies
<1>7. n \in Nat /\ (n > 0 => n = Len(d))  BY <1>4, <1>6
<1>8. \A j \in Handlers : Current(j) => j = i  BY <1>2 DEF PageReads
<1>9. ~Running(i)  BY <1>1 DEF Running
<1>10. \A j \in Handlers : ~Running(j)  BY <1>8, <1>9 DEF Current
<1>11. page.asked = {i} /\ page.sent = {}
  <2>1. page.asked \cup page.sent \subseteq {i}  BY <1>8 DEF Current, PageOK
  <2>2. i \notin page.sent  BY <1>3 DEF PageReads
  <2>. QED  BY <2>1, <2>2
<1>12. Len(PageFile) \in Nat  BY PageFileType, LenProperties
<1> HIDE DEF r, n
<1>13. CASE page' = [page EXCEPT !.asked = @ \ {i}] /\ UNCHANGED vars
  <2>1. page'.st = page.st /\ page'.asked = page.asked \ {i} /\ page'.sent = page.sent
    BY <1>13 DEF PageOK
  <2>2. UNCHANGED <<share, disk, ask, hand, reply>>  BY <1>13 DEF vars
  <2>. QED  BY <1>1, <1>10, <2>1, <2>2, PageGivesUp
<1>14. ASSUME NEW h \in Handlers, PageAjax(h, n),
              page' = [page EXCEPT !.asked = @ \ {i}, !.sent = @ \cup {h}]
       PROVE  PageReads'
  <2>1. page'.st \notin {"idle", "ok"} /\ page'.asked = {} /\ page'.sent = {h}
    <3>1. /\ page'.st = page.st /\ page'.asked = page.asked \ {i}
          /\ page'.sent = page.sent \cup {h}
      BY <1>14 DEF PageOK
    <3>. QED  BY <1>3, <1>11, <3>1
  <2>2. CASE n = 0
    <3>1. Submit(h, Put)  BY <1>14, <2>2 DEF PageAjax
    <3>2. /\ Ordinary(Put) /\ Put.path = Target /\ Put.by = "page" /\ Put.method = "PUT"
          /\ Put.body = PageFile
      BY PageRequests
    <3>. QED  BY <1>1, <1>10, <2>1, <3>1, <3>2, PageSubmits
  <2>3. CASE n > 0
    <3> DEFINE a == AppendRest(n)
    <3>1. Submit(h, a)  BY <1>14, <2>3 DEF PageAjax
    <3>2. /\ Ordinary(a) /\ a.path = Target /\ a.by = "page" /\ a.method = "PATCH"
          /\ a.body = SubSeq(PageFile, n + 1, Len(PageFile))
      BY <1>7, PageRequests
    <3>3. n =< Len(PageFile) /\ d = SubSeq(PageFile, 1, n)  BY <1>5, <1>7, <2>3 DEF Beginning
    <3>4. n \in 0..Len(PageFile)  BY <1>7, <1>12, <3>3
    <3> HIDE DEF a
    <3>. QED  BY <1>1, <1>10, <2>1, <3>1, <3>2, <3>3, <3>4, PageSubmits
  <2>. QED  BY <1>7, <2>2, <2>3
<1>. QED  BY <1>1, <1>13, <1>14 DEF r, n

\* The server goes on, with nobody but the page asking.
LEMMA PageWaits ==
  ASSUME ServerOK, PageOK, PageReads, UNCHANGED clientVars, ServerStep
  PROVE  PageReads'
<1>1. UNCHANGED <<page, agent, browser>>  BY DEF clientVars
<1>2. share' = share /\ Target' = Target  BY ShareStays DEF ServerMoves, ServerStep, Target
<1>3. agent'.st = "idle" /\ browser'.st = "idle"  BY <1>1 DEF PageReads
<1>4. ASSUME NEW i \in Handlers, Handle(i) PROVE PageReads'
  <2>1. Running(i) /\ Current(i)  BY <1>4, HandlesRunning DEF Current
  <2>2. PageServed(i) /\ page.st \notin {"idle", "ok"} /\ Beginning(DataAt(Target), PageFile)
    BY <2>1 DEF PageReads
  <2>3. PageServed(i)' /\ Beginning(DataAt(Target)', PageFile)  BY <1>4, <2>2, PageHandles
  <2>4. OnlyItself(i) /\ ask' = ask /\ gone' = gone  BY <1>4, HandleMoves
  <2>5. \A h \in Handlers : Current(h)' => h = i
    BY <1>1, <2>1, <2>4 DEF OnlyItself, Running, Current, PageReads
  <2>6. \A h \in Handlers : Current(h)' => PageServed(h)'  BY <2>3, <2>5
  <2>7. \A h \in Handlers : Running(h)' => gone'[h] \/ h \in page'.asked \cup page'.sent
    <3>1. \A h \in Handlers : Running(h)' => h = i  BY <2>5 DEF Current
    <3>. QED  BY <1>1, <2>1, <2>4, <3>1 DEF PageReads
  <2>8. /\ \A h \in page'.asked : ask'[h].method = "HEAD"
        /\ \A h \in page'.sent : ask'[h].method \in {"PUT", "PATCH"}
        /\ page'.st \notin {"idle", "ok"}
    BY <1>1, <2>2, <2>4 DEF PageReads
  <2>. QED  BY <1>3, <2>3, <2>5, <2>6, <2>7, <2>8 DEF PageReads
<1>5. CASE Restart
  <2>1. UNCHANGED <<share, disk, ask>>  BY <1>5, RestartMoves
  <2>2. \A h \in Handlers : ~Running(h)'  BY <1>5, RestartMoves DEF Running
  <2>3. DataAt(Target)' = DataAt(Target)  BY <1>2, <2>1 DEF DataAt
  <2>4. Beginning(DataAt(Target)', PageFile)  BY <2>3 DEF PageReads
  <2>5. ASSUME NEW h \in Handlers, PageServed(h) PROVE PageServed(h)'
    <3> DEFINE a == ask[h]
               d == DataAt(Target)
    <3>1. a.path = Target /\ Serves(h) /\ PageAsks(a, hand[h], reply[h], d)
      BY <2>5 DEF PageServed
    <3>2. Serves(h)'  BY <1>5, <3>1, ServesRestart
    <3>3. PageAsks(a, hand'[h], reply'[h], d)
      <4>1. CASE ~Running(h)  BY <1>5, <3>1, <4>1, RestartMoves
      <4>2. CASE Running(h)
        <5>1. hand'[h].step = "done" /\ (Ok(reply'[h].status) => a.method = "GET")
          BY <1>5, <3>1, <4>2, ServesRestart
        <5>. QED  BY <3>1, <5>1 DEF PageAsks
      <4>. QED  BY <4>1, <4>2
    <3>. QED  BY <1>2, <2>1, <2>3, <3>1, <3>2, <3>3 DEF PageServed
  <2>6. \A h \in Handlers : Current(h)' => Current(h)  BY <1>1, <2>2 DEF Current
  <2>7. \A h \in Handlers : Current(h)' => PageServed(h)' /\ page'.st \notin {"idle", "ok"}
    BY <1>1, <2>5, <2>6 DEF PageReads
  <2>8. \A h, i \in Handlers : Current(h)' /\ Current(i)' => h = i  BY <2>6 DEF PageReads
  <2>9. /\ \A h \in page'.asked : ask'[h].method = "HEAD"
        /\ \A h \in page'.sent : ask'[h].method \in {"PUT", "PATCH"}
        /\ page'.st = "ok" => DataAt(Target)' = PageFile
    BY <1>1, <2>1, <2>3 DEF PageReads
  <2>. QED  BY <1>3, <2>2, <2>4, <2>7, <2>8, <2>9 DEF PageReads
<1>. QED  BY <1>4, <1>5 DEF ServerStep

\* Nobody else does anything.
LEMMA PageStays ==
  ASSUME ReadInv, Rested, PageInv, [Next]_allVars
  PROVE  PageInv'
<1> SUFFICES ASSUME FreshPage' PROVE PageReads'
  BY DEF PageInv
<1>1. ServerOK /\ Untouched /\ PageOK  BY DEF ReadInv, ShareInv, ClientsOK
<1>2. ServerMoves  BY ServerHas DEF ReadInv
<1>3. share' = share /\ Target' = Target  BY <1>1, <1>2, ShareStays DEF Target
<1>4. FreshPage /\ PageReads  BY <1>3 DEF FreshPage, PageInv
<1>5. agent.st = "idle" /\ browser.st = "idle"  BY <1>4 DEF PageReads
<1>6. ~Uses("agent") /\ ~Uses("guest") /\ ~Uses("browser") /\ share.prompt /\ share.patient
  BY <1>4 DEF FreshPage, Uses
<1>7. ~GuestLeaves
  <2> SUFFICES ASSUME NEW h \in Handlers, ask[h].by = "guest", At(h, "body") PROVE FALSE
    BY DEF GuestLeaves, Guests
  <2>1. Current(h)  BY DEF At, Running, Current
  <2>2. ask[h].by = "page"  BY <1>4, <2>1 DEF PageReads, PageServed, PageAsks
  <2>. QED  BY <2>2
<1>8. CASE ServerStep /\ UNCHANGED clientVars  BY <1>1, <1>4, <1>8, PageWaits
<1>9. CASE PageUploads \/ PageRetries  BY <1>1, <1>4, <1>6, <1>9, PageBegins
<1>10. ASSUME UNCHANGED <<share, disk, ask, hand, gone, reply, agent, browser>>,
              page'.st \in {"busy", "failed"} \/ page'.st = page.st,
              page'.asked = page.asked, page'.sent = page.sent
       PROVE  PageReads'
  <2>1. \A h \in Handlers : Running(h) => gone'[h] \/ h \in page'.asked \cup page'.sent
    BY <1>4, <1>10 DEF PageReads
  <2>. QED  BY <1>4, <1>10, <2>1, PageGivesUp
<1>11. CASE PageUnreached \/ PageProgress
  <2>1. page'.st \in {"busy", "failed"} /\ page'.asked = page.asked /\ page'.sent = page.sent
    BY <1>1, <1>11 DEF PageUnreached, PageProgress, PageOK
  <2>2. UNCHANGED <<share, disk, ask, hand, gone, reply, agent, browser>>
    BY <1>11 DEF PageUnreached, PageProgress, vars
  <2>. QED  BY <1>10, <2>1, <2>2
<1>12. CASE PageHears  BY <1>1, <1>4, <1>12, PageEnds
<1>13. CASE PageLoses  BY <1>1, <1>4, <1>13, PageForgets
<1>14. CASE PageResumes  BY <1>1, <1>4, <1>14, PageGoesOn
<1>15. CASE UNCHANGED allVars
  <2>1. UNCHANGED <<share, disk, ask, hand, gone, reply, agent, browser, page>>
    BY <1>15 DEF allVars
  <2>2. page'.st = page.st /\ page'.asked = page.asked /\ page'.sent = page.sent  BY <2>1
  <2>. QED  BY <1>10, <2>1, <2>2
<1>16. \/ ServerStep /\ UNCHANGED clientVars
       \/ PageUploads \/ PageRetries \/ PageUnreached \/ PageProgress \/ PageHears
       \/ PageLoses \/ PageResumes \/ UNCHANGED allVars
  BY <1>5, <1>6, <1>7 DEF Next, Moves, GuestSends, AgentCalls, AgentHears, AgentLoses,
     BrowserGets, BrowserLoses, BrowserTakes
<1>. QED  BY <1>8, <1>9, <1>11, <1>12, <1>13, <1>14, <1>15, <1>16

\* What the page relies on when it is alone, at all times: a patient user's page
\* has one request under way, and goes on where the file ends.
THEOREM PageInvariant == Spec => []PageInv
<1>1. ASSUME Init PROVE PageInv
  <2> SUFFICES ASSUME FreshPage PROVE PageReads
    BY DEF PageInv
  <2>1. /\ page.st = "idle" /\ page.asked = {} /\ page.sent = {}
        /\ browser.st = "idle" /\ agent.st = "idle"
        /\ \A h \in Handlers : hand[h].step = "none"
    BY <1>1 DEF Init, Free
  <2>2. Target \in Paths  BY <1>1, ShareClientsAssumption DEF Init, UsesOK, Target
  <2>3. disk.entry[Target] = Absent  BY <1>1, <2>2 DEF Init, InitDisk, FreshPage
  <2>4. DataAt(Target) = <<>>  BY <2>3 DEF DataAt, IsFile, Absent
  <2>5. Beginning(<<>>, PageFile)
    <3>1. 0 \in Nat /\ 0 =< Len(PageFile)  BY PageFileType, LenProperties
    <3>2. SubSeq(PageFile, 1, 0) = <<>>  BY SubSeqEmpty
    <3>3. Beginning(SubSeq(PageFile, 1, 0), PageFile)  BY <3>1, BeginningOf
    <3>. QED  BY <3>2, <3>3
  <2>6. \A h \in Handlers : ~Running(h) /\ ~Current(h)  BY <2>1 DEF Running, Current
  <2>. QED  BY <2>1, <2>4, <2>5, <2>6 DEF PageReads
<1>2. ReadInv /\ Rested /\ PageInv /\ [Next]_allVars => PageInv'  BY PageStays
<1>. QED  BY <1>1, <1>2, ReadInvariant, AgentInvariant, PTL DEF Spec

\* An upload that the page of a patient user marks as complete is there, block for
\* block, however often it broke or the share was restarted, if nothing was there
\* before and nobody else changes the share (FreshUploadIsWhole).
THEOREM FreshUploadsAreWhole == Spec => []FreshUploadIsWhole
<1>1. PageInv => FreshUploadIsWhole
  BY DEF PageInv, FreshPage, PageReads, FreshUploadIsWhole
<1>. QED  BY <1>1, PageInvariant, PTL

-----------------------------------------------------------------------------
(* What the rules of a share show.                                         *)

\* The rules of a share are made of its grants.
LEMMA RulesOfShare ==
  ASSUME ServerOK
  PROVE  RulesOK(share.own, share.visitors, share.rules)
BY FileRequestsAssumption DEF ServerOK, ShareOK

\* Rules for visitors add to what a user was given and never take away: what he
\* may is what he was given or the higher of that and what visitors may, and it
\* is the higher wherever the visitors' rules name a path or nothing was given to
\* him on the way (VisitorRulesAdd).
THEOREM VisitorRulesOnlyAdd == Spec => []VisitorRulesAdd
<1>1. ASSUME ShareInv PROVE VisitorRulesAdd
  <2> DEFINE own(u) == MergeGrants(share.own[u])
             visitor == share.rules.anon
             mine(u, p) == Granted(own(u), p)
             both(u, p) == Higher(mine(u, p), Granted(visitor, p))
             got(u, p) == PermOf(Find(share.rules.users[u], p))
  <2>1. RulesOK(share.own, share.visitors, share.rules)  BY <1>1, RulesOfShare DEF ShareInv
  <2>2. visitor = Nothing \/ IsTree(visitor)  BY <2>1, RulesHaveTrees
  <2>3. ASSUME NEW u \in DOMAIN share.own, NEW p \in Paths
        PROVE  /\ got(u, p) \in {mine(u, p), both(u, p)}
               /\ p \in DOMAIN visitor \/ mine(u, p) = IndexOnly => got(u, p) = both(u, p)
    <3> DEFINE t == own(u)
               below == \E q \in Prefixes(p) \ DOMAIN visitor : q \in DOMAIN t /\ t[q] # IndexOnly
    <3>1. p \in Seq(STRING)  BY PathTypes
    <3>2. IsTree(t)  BY <2>1, GrantsTree DEF RulesOK
    <3>3. got(u, p) = IF visitor = Nothing \/ below THEN mine(u, p) ELSE both(u, p)
      BY <2>1, <3>1, MergedIs DEF PermOf
    <3>4. visitor = Nothing => p \notin DOMAIN visitor /\ Granted(visitor, p) = IndexOnly
      BY DEF Nothing, Granted
    <3>5. below => p \notin DOMAIN visitor
      <4>1. visitor # Nothing /\ p \in DOMAIN visitor => Prefixes(p) \subseteq DOMAIN visitor
        BY <2>2 DEF IsTree
      <4>. QED  BY <3>4, <4>1
    <3>6. below => mine(u, p) # IndexOnly
      <4>1. below => Having(t, p) # {}  BY DEF Having
      <4>. QED  BY <3>1, <3>2, <4>1, GrantedIs
    <3>7. Higher(IndexOnly, IndexOnly) = IndexOnly  BY DEF Higher
    <3> HIDE DEF below, got, mine, visitor
    <3>8. visitor = Nothing /\ mine(u, p) = IndexOnly => both(u, p) = mine(u, p)
      BY <3>4, <3>7
    <3> HIDE DEF both
    <3>. QED  BY <3>3, <3>4, <3>5, <3>6, <3>8
  <2>. QED  BY <2>3 DEF VisitorRulesAdd
<1>. QED  BY <1>1, ShareInvariant, PTL

\* Whoever has a grant can list every directory above it and sees the next one
\* there (GrantsAreReachable).
THEOREM GrantsLeadThere == Spec => []GrantsAreReachable
<1>1. ASSUME ShareInv PROVE GrantsAreReachable
  <2>1. RulesOK(share.own, share.visitors, share.rules)  BY <1>1, RulesOfShare DEF ShareInv
  <2>2. \A t \in Trees \ {Nothing} : IsTree(t)  BY <2>1, RulesHaveTrees DEF Trees
  <2>3. ASSUME NEW t \in Trees \ {Nothing}, NEW p \in Paths, Granted(t, p) # IndexOnly,
               NEW q \in Prefixes(p) \ {p}
        PROVE  /\ Find(t, q) # Nothing
               /\ Find(t, q)[<<>>] = IndexOnly => p[Len(q) + 1] \in ChildNames(Find(t, q))
    <3>1. p \in Seq(STRING)  BY PathTypes
    <3>. QED  BY <2>2, <2>3, <3>1, WayToGrant
  <2>. QED  BY <2>3 DEF GrantsAreReachable
<1>. QED  BY <1>1, ShareInvariant, PTL

\* The methods that show paths, and the steps that do.
Readers   == {"GET", "HEAD", "PROPFIND"}
ShowSteps == {"list", "search", "zip", "json"}

\* The one who asked may open q, or asked for a directory on the way to a grant
\* without a name.
MayOpen(a, q) ==
  \/ Guard(share.rules, q, "GET", Reader(a)).paths # Nothing
  \/ a.method = "PROPFIND" /\ a.who.login = Nobody /\ Access(a).paths[<<>>] = IndexOnly

\* A listing, a search and an archive go by the tree of the one who asked, and so
\* does what he may open.
LEMMA ReaderOpens ==
  ASSUME ServerOK, NEW a, AskOK(a), a.method \in Readers, Access(a).paths # Nothing,
         NEW q \in Paths,
         \/ q = a.path
         \/ q \in Listed(disk, a.path, ListingAccess(a))
         \/ \E e \in EntryPaths(Access(a).paths) : IsPrefix(a.path \o e, q)
  PROVE  MayOpen(a, q)
<1> DEFINE p == a.path
           rules == share.rules
<1>1. /\ p \in Seq(STRING) /\ q \in Seq(STRING) /\ IsVisitor(a.who)
  BY PathTypes DEF AskOK
<1>2. CASE rules.open
  <2>1. Guard(rules, q, "GET", Reader(a)).paths = Single(ReadWrite)  BY <1>2 DEF Guard
  <2>2. Single(ReadWrite) # Nothing
    <3>1. <<>> \in DOMAIN Single(ReadWrite)  BY DEF Single
    <3>2. DOMAIN Nothing = {}  BY DEF Nothing
    <3>. QED  BY <3>1, <3>2
  <2>. QED  BY <2>1, <2>2 DEF MayOpen
<1>3. CASE ~rules.open
  <2>1. PICK t : /\ IsTree(t) /\ Access(a).paths = Find(t, p)
                 /\ \A r : Guard(rules, r, "GET", Reader(a)).paths = Find(t, r)
    <3>1. RulesOK(share.own, share.visitors, rules)  BY RulesOfShare
    <3>2. a.method \in {"GET", "HEAD", "PROPFIND"} /\ Access(a) = Guard(rules, p, a.method, a.who)
      BY DEF Readers, Access
    <3>3. Reader(a) = ReaderOf(rules, p, a.method, a.who)  BY DEF Reader, ReaderOf
    <3>4. a.who = [login |-> a.who.login, right |-> a.who.right, token |-> a.who.token]
      BY <1>1 DEF IsVisitor
    <3>. QED  BY <1>3, <3>1, <3>2, <3>3, <3>4, ReaderHasTree
  <2>2. Find(t, p) # Nothing  BY <2>1
  <2>3. CASE q = p  BY <2>1, <2>2, <2>3 DEF MayOpen
  <2>4. CASE q \in Listed(disk, p, ListingAccess(a))
    <3>1. CASE a.method = "PROPFIND" /\ Access(a).paths[<<>>] = IndexOnly /\ a.who.login = Nobody
      BY <3>1 DEF MayOpen
    <3>2. CASE ~(a.method = "PROPFIND" /\ Access(a).paths[<<>>] = IndexOnly
                 /\ a.who.login = Nobody)
      <4>1. ListingAccess(a) = Find(t, p)  BY <2>1, <3>2 DEF ListingAccess
      <4>2. /\ Len(q) = Len(p) + 1 /\ IsPrefix(p, q)
            /\ Find(t, p)[<<>>] = IndexOnly => q[Len(q)] \in ChildNames(Find(t, p))
        BY <2>4, <4>1 DEF Listed, Children
      <4>3. Find(t, q) # Nothing  BY <1>1, <2>1, <2>2, <4>2, ListedOpens
      <4>. QED  BY <2>1, <4>3 DEF MayOpen
    <3>. QED  BY <3>1, <3>2
  <2>5. CASE \E e \in EntryPaths(Access(a).paths) : IsPrefix(p \o e, q)
    <3>1. PICK e \in EntryPaths(Find(t, p)) : IsPrefix(p \o e, q)  BY <2>1, <2>5
    <3>2. Find(t, q) # Nothing  BY <1>1, <2>1, <2>2, <3>1, CollectedOpens
    <3>. QED  BY <2>1, <3>2 DEF MayOpen
  <2>. QED  BY <2>3, <2>4, <2>5
<1>. QED  BY <1>2, <1>3

\* Only a request that reads comes to a step that shows.
LEMMA DispatchShows ==
  ASSUME NEW a, NEW kind, NEW size, Dispatch(a, kind, size).to \in ShowSteps
  PROVE  a.method \in Readers
<1>1. \A n : Answer(n).to = "done"  BY DEF Answer
<1>2. \A t : Go(t).to = t  BY DEF Go
<1>3. OnPut(kind, size).to \notin ShowSteps /\ OnPatch(a, kind, size).to \notin ShowSteps
  BY <1>1, <1>2 DEF OnPut, OnPatch, ShowSteps
<1>4. OnDelete(kind).to \notin ShowSteps /\ OnMkcol(kind).to \notin ShowSteps
  BY <1>1, <1>2 DEF OnDelete, OnMkcol, ShowSteps
<1>5. OnCopy(a, kind).to \notin ShowSteps /\ OnMove(a, kind).to \notin ShowSteps
  BY <1>1, <1>2 DEF OnCopy, OnMove, ShowSteps
<1>6. OnOther(a, kind).to \notin ShowSteps  BY <1>1 DEF OnOther, ShowSteps
<1>. QED  BY <1>3, <1>4, <1>5, <1>6 DEF Dispatch, Readers

\* Handler k of request a, with the answer r.
Shows(a, k, r) ==
  /\ k.step \in ShowSteps => a.method \in Readers
  /\ k.step # "done" => r.shown = {}
  /\ \A q \in r.shown : MayOpen(a, q)
ShownInv == \A h \in Handlers : Shows(ask[h], hand[h], reply[h])

\* A handler that is done with an answer.
LEMMA FinishShows ==
  ASSUME ServerOK, NEW h \in Handlers, NEW a, NEW r, Finish(h, r),
         \A q \in r.shown : MayOpen(a, q)
  PROVE  Shows(a, hand'[h], reply'[h])
<1>1. hand \in [Handlers -> Hands] /\ reply \in [Handlers -> Replies]  BY DEF ServerOK
<1>2. [Free EXCEPT !.step = "done"].step = "done"  BY FreeHand
<1>3. reply'[h] = r /\ hand'[h].step = "done"  BY <1>1, <1>2 DEF Finish
<1>. QED  BY <1>3 DEF Shows, ShowSteps

\* A status alone shows nothing.
LEMMA StatusShows ==
  ASSUME ServerOK, NEW h \in Handlers, NEW a, NEW n, Finish(h, Status(n))
  PROVE  Shows(a, hand'[h], reply'[h])
<1>1. Status(n).shown = {}  BY DEF Status, NoReply
<1>. QED  BY <1>1, FinishShows

\* A handler that goes on.
LEMMA StepShows ==
  ASSUME ServerOK, NEW h \in Handlers, NEW a, NEW t, Step(h, t), reply[h].shown = {},
         t \in ShowSteps => a.method \in Readers
  PROVE  Shows(a, hand'[h], reply'[h])
<1>1. hand \in [Handlers -> Hands]  BY DEF ServerOK
<1>2. hand'[h].step = t /\ reply' = reply  BY <1>1 DEF Step, Hands
<1>. QED  BY <1>2 DEF Shows

\* A handler that does not go to a step that shows, and whose answer is as empty
\* as before.
LEMMA PlainShows ==
  ASSUME NEW a, NEW k, NEW r, r.shown = {}, k.step \notin ShowSteps
  PROVE  Shows(a, k, r)
BY DEF Shows

\* A handler's step shows only what the one who asked may open.
LEMMA HandleShows ==
  ASSUME ServerOK, ShownInv, NEW h \in Handlers, Handle(h)
  PROVE  Shows(ask[h], hand'[h], reply'[h])
<1> DEFINE a == ask[h]
           s == hand[h].step
           Goal == Shows(a, hand'[h], reply'[h])
<1>1. /\ hand \in [Handlers -> Hands] /\ reply \in [Handlers -> Replies]
      /\ hand[h] \in Hands /\ reply[h] \in Replies
  BY DEF ServerOK
<1>2. s \notin {"none", "done"}
  BY DEF Handle, At, Stat, Probe, Contain, List, Collect, Describe, Open, Meta, Send,
         UploadParent, Create, Body, BodyEnds, BodyBreaks, Measure, Discard, Delete, Mkcol,
         CopyStat, DestParent, DestProbe, DestContain, Copy, Move
<1>3. reply[h].shown = {} /\ (s \in ShowSteps => a.method \in Readers)
  BY <1>2 DEF ShownInv, Shows
<1>4. AskOK(a) /\ a.path \in Paths /\ Access(a).paths # Nothing
  BY <1>2, Handler DEF StepFits, Access
<1>5. ASSUME NEW n, Finish(h, Status(n)) PROVE Goal  BY <1>5, StatusShows
<1>6. ASSUME NEW t, Step(h, t), t \notin ShowSteps PROVE Goal  BY <1>3, <1>6, StepShows
<1>7. Fail(h) => Goal  BY <1>5 DEF Fail
<1>8. ASSUME reply'[h].shown = {}, hand'[h].step \notin ShowSteps PROVE Goal
  BY <1>8, PlainShows
<1> SUFFICES Goal  OBVIOUS
<1> HIDE DEF Goal
<1>9. CASE Stat(h)
  <2>1. reply' = reply /\ hand'[h].step = "probe"  BY <1>1, <1>9 DEF Stat, Hands
  <2>. QED  BY <1>3, <1>8, <2>1 DEF ShowSteps
<1>10. CASE Probe(h) \/ DestProbe(h)
  <2>1. \/ \E n : Finish(h, Status(n))
        \/ \E t \in {"contain", "containparent", "destcontain", "destcontainparent"} : Step(h, t)
    BY <1>10 DEF Probe, DestProbe, Judge
  <2>. QED  BY <1>5, <1>6, <2>1 DEF ShowSteps
<1>11. CASE Contain(h)
  <2> DEFINE d == Dispatch(a, hand[h].kind, hand[h].size)
  <2>1. Finish(h, Status(404)) \/ Follow(h, d)  BY <1>11 DEF Contain
  <2>2. d.to \in ShowSteps => a.method \in Readers  BY DispatchShows
  <2> HIDE DEF d
  <2>3. CASE Follow(h, d)
    <3>1. Finish(h, Status(d.status)) \/ Step(h, d.to)  BY <2>3 DEF Follow
    <3>2. Step(h, d.to) => Goal  BY <1>3, <2>2, StepShows DEF Goal
    <3>. QED  BY <1>5, <3>1, <3>2
  <2>. QED  BY <1>5, <2>1, <2>3
<1>12. CASE List(h)
  <2> DEFINE names == Listed(disk, a.path, ListingAccess(a))
  <2>1. s = "list"  BY <1>12 DEF List, At
  <2>2. \/ Fail(h)
        \/ \E n : Finish(h, Status(n))
        \/ \E n : Finish(h, [Status(n) EXCEPT !.shown = names])
    BY <1>12 DEF List
  <2>3. names \subseteq Paths  BY DEF Listed, Children
  <2>4. \A q \in names : MayOpen(a, q)
    BY <1>3, <1>4, <2>1, <2>3, ReaderOpens DEF ShowSteps
  <2> HIDE DEF names
  <2>5. ASSUME NEW n, Finish(h, [Status(n) EXCEPT !.shown = names]) PROVE Goal
    <3>1. [Status(n) EXCEPT !.shown = names].shown = names  BY DEF Status, NoReply
    <3>. QED  BY <2>4, <2>5, <3>1, FinishShows DEF Goal
  <2>. QED  BY <1>5, <1>7, <2>2, <2>5
<1>13. CASE Collect(h)
  <2> DEFINE found == Collected(disk, a.path, Access(a).paths)
             names == IF At(h, "zip") THEN {q \in found : IsFile(disk.entry[q])} ELSE found
  <2>1. s \in {"search", "zip"}  BY <1>13 DEF Collect, At
  <2>2. \/ Finish(h, Status(200))
        \/ Finish(h, [Status(200) EXCEPT !.shown = names])
    BY <1>13 DEF Collect
  <2>3. \A q \in found : /\ q \in Paths
                         /\ \E e \in EntryPaths(Access(a).paths) : IsPrefix(a.path \o e, q)
    BY DEF Collected, IsStrictPrefix
  <2>4. \A q \in found : MayOpen(a, q)
    <3> HIDE DEF found
    <3>. QED  BY <1>3, <1>4, <2>1, <2>3, ReaderOpens DEF ShowSteps
  <2>5. \A q \in names : q \in found  OBVIOUS
  <2> HIDE DEF found, names
  <2>6. [Status(200) EXCEPT !.shown = names].shown = names  BY DEF Status, NoReply
  <2>7. Finish(h, [Status(200) EXCEPT !.shown = names]) => Goal
    BY <2>4, <2>5, <2>6, FinishShows DEF Goal
  <2>. QED  BY <1>5, <2>2, <2>7
<1>14. CASE Describe(h)
  <2> DEFINE p == a.path
             size == SizeAt(disk, p)
  <2>1. s = "json"  BY <1>14 DEF Describe, At
  <2>2. \/ Fail(h)
        \/ \E n : Finish(h, [Status(n) EXCEPT !.shown = {p}, !.size = size])
    BY <1>14 DEF Describe
  <2>3. MayOpen(a, p)  BY <1>3, <1>4, <2>1, ReaderOpens DEF ShowSteps
  <2> HIDE DEF p, size
  <2>4. ASSUME NEW n, Finish(h, [Status(n) EXCEPT !.shown = {p}, !.size = size]) PROVE Goal
    <3>1. [Status(n) EXCEPT !.shown = {p}, !.size = size].shown = {p}  BY DEF Status, NoReply
    <3>. QED  BY <2>3, <2>4, <3>1, FinishShows DEF Goal
  <2>. QED  BY <1>7, <2>2, <2>4
<1>15. CASE Open(h)
  <2>1. \/ Fail(h)
        \/ \E e : hand' = [hand EXCEPT ![h].step = "meta", ![h].file = e] /\ reply' = reply
    BY <1>15 DEF Open
  <2>2. ASSUME NEW e, hand' = [hand EXCEPT ![h].step = "meta", ![h].file = e] PROVE hand'[h].step = "meta"
    BY <1>1, <2>2 DEF Hands
  <2>. QED  BY <1>3, <1>7, <1>8, <2>1, <2>2 DEF ShowSteps
<1>16. CASE Meta(h)
  <2>1. \/ \E n : Finish(h, Status(n))
        \/ \E r : Finish(h, r) /\ r.shown = {}
        \/ /\ \E x, n : hand' = [hand EXCEPT ![h].step = "send", ![h].at = x, ![h].goal = n]
           /\ \E r : reply' = [reply EXCEPT ![h] = r] /\ r.shown = {}
    <3> DEFINE e == disk.entry[a.path]
               head == [NoReply EXCEPT !.size = SizeAt(disk, a.path), !.stamp = disk.stamp[e],
                                       !.whole = FALSE]
    <3>1. /\ \A n : [head EXCEPT !.status = n].shown = {}
          /\ \A n : [head EXCEPT !.status = n, !.whole = TRUE].shown = {}
      BY DEF NoReply
    <3> HIDE DEF head
    <3>2. \/ Fail(h)
          \/ \E n : Finish(h, [head EXCEPT !.status = n, !.whole = TRUE])
          \/ /\ \E x, n : hand' = [hand EXCEPT ![h].step = "send", ![h].at = x, ![h].goal = n]
             /\ \E n : reply' = [reply EXCEPT ![h] = [head EXCEPT !.status = n]]
      BY ZenonT(60), <1>16 DEF Meta, head
    <3>. QED  BY <3>1, <3>2 DEF Fail
  <2>2. ASSUME NEW r, Finish(h, r), r.shown = {} PROVE Goal
    BY <2>2, FinishShows DEF Goal
  <2>3. ASSUME NEW x, NEW n,
               hand' = [hand EXCEPT ![h].step = "send", ![h].at = x, ![h].goal = n]
        PROVE  hand'[h].step = "send"
    BY <1>1, <2>3 DEF Hands
  <2>4. ASSUME NEW r, reply' = [reply EXCEPT ![h] = r], r.shown = {} PROVE reply'[h].shown = {}
    BY <1>1, <2>4
  <2>. QED  BY <1>5, <1>8, <2>1, <2>2, <2>3, <2>4 DEF ShowSteps
<1>17. CASE Send(h)
  <2>1. s = "send"  BY <1>17 DEF Send, At
  <2>2. \/ \E b : Finish(h, [reply[h] EXCEPT !.whole = b])
        \/ /\ hand' = [hand EXCEPT ![h].at = @ + 1, ![h].goal = @ - 1]
           /\ \E b : reply' = [reply EXCEPT ![h].part = b]
    BY <1>17 DEF Send
  <2>3. \A b : [reply[h] EXCEPT !.whole = b].shown = {}  BY <1>1, <1>3 DEF Replies
  <2>4. ASSUME NEW b, Finish(h, [reply[h] EXCEPT !.whole = b]) PROVE Goal
    BY <2>3, <2>4, FinishShows DEF Goal
  <2>5. ASSUME hand' = [hand EXCEPT ![h].at = @ + 1, ![h].goal = @ - 1],
               NEW b, reply' = [reply EXCEPT ![h].part = b]
        PROVE  Goal
    <3>1. hand'[h].step = "send"  BY <1>1, <2>1, <2>5 DEF Hands
    <3>2. reply'[h].shown = {}  BY <1>1, <1>3, <2>5 DEF Replies
    <3>. QED  BY <1>8, <3>1, <3>2 DEF ShowSteps
  <2>. QED  BY <2>2, <2>4, <2>5
<1>18. CASE \/ UploadParent(h) \/ BodyEnds(h) \/ BodyBreaks(h) \/ Measure(h) \/ Discard(h)
            \/ Delete(h) \/ Mkcol(h) \/ CopyStat(h) \/ DestParent(h) \/ DestContain(h)
            \/ Copy(h) \/ Move(h)
  <2>1. \/ \E n : Finish(h, Status(n))
        \/ \E t \in {"create", "measure", "discard", "destparent", "destprobe", "transfer"} :
             Step(h, t)
    BY <1>18 DEF UploadParent, BodyEnds, BodyBreaks, Measure, Discard, Delete, Mkcol, CopyStat,
                 DestParent, DestContain, Copy, CreateAt, Move, Fail
  <2>. QED  BY <1>5, <1>6, <2>1 DEF ShowSteps
<1>19. CASE Create(h)
  <2>1. \/ Fail(h)
        \/ /\ \E f, n : hand' = [hand EXCEPT ![h].step = "body", ![h].file = f, ![h].goal = n]
           /\ reply' = reply
    BY <1>19 DEF Create, CreateAt
  <2>2. ASSUME NEW f, NEW n,
               hand' = [hand EXCEPT ![h].step = "body", ![h].file = f, ![h].goal = n]
        PROVE  hand'[h].step = "body"
    BY <1>1, <2>2 DEF Hands
  <2>. QED  BY <1>3, <1>7, <1>8, <2>1, <2>2 DEF ShowSteps
<1>20. CASE Body(h)
  <2>1. hand' = [hand EXCEPT ![h].at = @ + 1] /\ reply' = reply /\ s = "body"
    BY <1>20 DEF Body, At
  <2>2. hand'[h].step = "body"  BY <1>1, <2>1 DEF Hands
  <2>. QED  BY <1>3, <1>8, <2>1, <2>2 DEF ShowSteps
<1>. QED  BY <1>9, <1>10, <1>11, <1>12, <1>13, <1>14, <1>15, <1>16, <1>17, <1>18, <1>19, <1>20
          DEF Handle

\* A request that was just taken shows nothing.
LEMMA SubmitShows ==
  ASSUME ServerOK, Untouched, NEW h \in Handlers, NEW a, Submit(h, a)
  PROVE  Shows(a, hand'[h], reply'[h])
<1> DEFINE d == AtOnce(a)
<1>1. hand[h].step = "none" /\ Follow(h, d)  BY DEF Submit, NextHandler
<1>2. reply[h].shown = {}  BY <1>1 DEF Untouched, NoReply
<1>3. d.to \notin ShowSteps  BY DEF AtOnce, Answer, Go, ShowSteps
<1> HIDE DEF d
<1>4. Finish(h, Status(d.status)) \/ Step(h, d.to)  BY <1>1 DEF Follow
<1>. QED  BY <1>2, <1>3, <1>4, StatusShows, StepShows

\* Every step keeps it.
LEMMA ShownStays ==
  ASSUME ServerOK, Untouched, ShownInv, ServerMoves
  PROVE  ShownInv'
<1>1. ASSUME UNCHANGED share, NEW a, NEW k, NEW r, Shows(a, k, r)
      PROVE  /\ k.step \in ShowSteps => a.method \in Readers
             /\ k.step # "done" => r.shown = {}
             /\ \A q \in r.shown : MayOpen(a, q)'
  BY <1>1 DEF Shows, MayOpen, Reader, Access
<1>2. ASSUME UNCHANGED share, \A i \in Handlers : Shows(ask'[i], hand'[i], reply'[i])
      PROVE  ShownInv'
  BY <1>1, <1>2 DEF Shows, ShownInv
<1>3. \A i \in Handlers : Shows(ask[i], hand[i], reply[i])  BY DEF ShownInv
<1>4. ASSUME NEW h \in Handlers, Handle(h) PROVE ShownInv'
  <2>1. OnlyItself(h) /\ UNCHANGED <<share, ask>>  BY <1>4, HandleMoves
  <2>2. Shows(ask[h], hand'[h], reply'[h])  BY <1>4, HandleShows
  <2>3. \A i \in Handlers : Shows(ask'[i], hand'[i], reply'[i])
    BY <1>3, <2>1, <2>2 DEF OnlyItself
  <2>. QED  BY <1>2, <2>1, <2>3
<1>5. ASSUME NEW h \in Handlers, NEW a, Submit(h, a) PROVE ShownInv'
  <2>1. /\ OnlyItself(h) /\ UNCHANGED share /\ ask'[h] = a
        /\ \A i \in Handlers : i # h => ask'[i] = ask[i]
    BY <1>5, SubmitMoves
  <2>2. Shows(a, hand'[h], reply'[h])  BY <1>5, SubmitShows
  <2>3. \A i \in Handlers : Shows(ask'[i], hand'[i], reply'[i])
    BY <1>3, <2>1, <2>2 DEF OnlyItself
  <2>. QED  BY <1>2, <2>1, <2>3
<1>6. ASSUME NEW h \in Handlers, Lose(h) PROVE ShownInv'
  <2>1. UNCHANGED <<share, ask, hand, reply>>  BY <1>6, LoseMoves
  <2>. QED  BY <1>2, <1>3, <2>1
<1>7. ASSUME Restart PROVE ShownInv'
  <2>1. /\ UNCHANGED <<share, ask>>
        /\ \A i \in Handlers : ~Running(i) => hand'[i] = hand[i] /\ reply'[i] = reply[i]
        /\ \A i \in Handlers : Running(i) =>
             hand'[i].step = "done" /\ reply'[i] = [reply[i] EXCEPT !.whole = FALSE]
    BY <1>7, RestartMoves
  <2>2. \A i \in Handlers : [reply[i] EXCEPT !.whole = FALSE].shown = reply[i].shown
    BY DEF ServerOK, Replies
  <2>3. ASSUME NEW i \in Handlers PROVE Shows(ask'[i], hand'[i], reply'[i])
    <3>1. CASE ~Running(i)  BY <1>3, <2>1, <3>1
    <3>2. CASE Running(i)
      <4>1. hand'[i].step = "done" /\ reply'[i].shown = reply[i].shown  BY <2>1, <2>2, <3>2
      <4>. QED  BY <1>3, <2>1, <4>1 DEF Shows, ShowSteps
    <3>. QED  BY <3>1, <3>2
  <2>. QED  BY <1>2, <2>1, <2>3
<1>8. ASSUME UNCHANGED vars PROVE ShownInv'
  <2>1. UNCHANGED <<share, ask, hand, reply>>  BY <1>8 DEF vars
  <2>. QED  BY <1>2, <1>3, <2>1
<1>. QED  BY <1>4, <1>5, <1>6, <1>7, <1>8 DEF ServerMoves

\* Whatever a listing, a search or an archive shows, the one who asked may open,
\* but for an anonymous PROPFIND on the way to a grant (ListedIsOpen).
THEOREM ListingsAreOpen == Spec => []ListedIsOpen
<1>1. ASSUME Init PROVE ShownInv
  <2>1. \A h \in Handlers : hand[h] = Free /\ reply[h] = NoReply  BY <1>1 DEF Init
  <2>. QED  BY <2>1 DEF ShownInv, Shows, ShowSteps, Free, NoReply
<1>2. ReadInv /\ ShownInv /\ [Next]_allVars => ShownInv'
  <2> SUFFICES ASSUME ReadInv, ShownInv, [Next]_allVars PROVE ShownInv'
    OBVIOUS
  <2>1. ServerOK /\ Untouched /\ ServerMoves  BY ServerHas DEF ReadInv, ShareInv
  <2>. QED  BY <2>1, ShownStays
<1>3. ShownInv => ListedIsOpen  BY DEF ShownInv, Shows, MayOpen, ListedIsOpen
<1>. QED  BY <1>1, <1>2, <1>3, ReadInvariant, PTL DEF Spec
=============================================================================
