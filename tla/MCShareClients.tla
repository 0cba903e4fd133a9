--------------------------- MODULE MCShareClients ---------------------------
(***************************************************************************)
(* Instances of ShareClients for TLC.                                      *)
(***************************************************************************)
EXTENDS ShareClients, TLC

MCPaths == {<<>>, <<"d">>, <<"d", "f">>, <<"e">>, <<"e", "f">>}

User  == [login |-> "boss", right |-> TRUE, token |-> NoToken]
Wrong == [login |-> "boss", right |-> FALSE, token |-> NoToken]
Token(p) == [login |-> Nobody, right |-> FALSE, token |-> [user |-> "boss", path |-> p]]

Grant(p, perm) == [path |-> p, perm |-> perm]

\* Rule sets: none, those the application writes (to_dufs_yaml), and one whose
\* user may only read.
Plain == [own |-> <<>>, visitors |-> <<>>, rules |-> NoRules]
WithUser(own) ==
  [own |-> "boss" :> own, visitors |-> <<>>, rules |-> RulesWithoutVisitors("boss" :> own)]
WithVisitors(own, visitors) ==
  [own |-> "boss" :> own, visitors |-> visitors, rules |-> RulesOf("boss" :> own, visitors)]
OwnerOnly      == WithUser(<<Grant(<<>>, ReadWrite)>>)
OwnerReads     == WithUser(<<Grant(<<>>, ReadOnly)>>)
OwnerAndGuests == WithVisitors(<<Grant(<<>>, ReadWrite)>>, <<Grant(<<>>, ReadOnly)>>)

\* Any grants at the root, at a directory and in it.
Levels == <<<<>>, <<"d">>, <<"d", "f">>>>
GrantsOf(perms) ==
  LET Some(i) == IF perms[i] = IndexOnly THEN <<>> ELSE <<Grant(Levels[i], perms[i])>>
  IN  Some(1) \o Some(2) \o Some(3)
AnyGrants == {GrantsOf(perms) : perms \in [1..3 -> Perms]}
AnyRules ==
  {WithVisitors(own, visitors) : own, visitors \in AnyGrants}
  \cup {WithUser(own) : own \in AnyGrants}

Tree(d, f, e) ==
  [p \in MCPaths |-> CASE p = <<>> -> "dir" [] p = <<"d">> -> d [] p = <<"d", "f">> -> f
                       [] p = <<"e">> -> e [] OTHER -> "none"]
Full  == Tree("dir", "file", "file")
Dirs  == Tree("dir", "none", "dir")
Empty == Tree("none", "none", "none")

Share(r, upload, delete, tree, size) ==
  [own |-> r.own, visitors |-> r.visitors, rules |-> r.rules,
   upload |-> upload, delete |-> delete, search |-> TRUE, archive |-> TRUE,
   tree |-> tree, oldsize |-> size,
   clients |-> {"guest"}, guests |-> 1, restarts |-> 0, prompt |-> TRUE, patient |-> TRUE,
   target |-> <<"d", "f">>, who |-> Anyone, asks |-> "all"]

\* One guest, any rules.
RulesShares == {[Share(r, TRUE, TRUE, Full, 1) EXCEPT !.asks = "rights"] : r \in AnyRules}
\* One guest, any switches, any request.
LoneShares ==
  {Share(r, u, d, t, 1) : r \in {Plain, OwnerAndGuests}, u, d \in BOOLEAN,
                          t \in {Full, Empty}}
  \cup {Share(r, TRUE, TRUE, t, n) : r \in {Plain, OwnerOnly}, t \in {Full, Dirs}, n \in {0, 2}}
  \cup {[Share(Plain, TRUE, TRUE, Full, 1) EXCEPT !.search = FALSE, !.archive = FALSE]}
\* Two guests at once.
CrowdShares ==
  {[Share(Plain, TRUE, TRUE, t, 1) EXCEPT !.guests = 2, !.asks = "changes"]
     : t \in {Full, Dirs}}
\* The page, the agent, the browser.
PageShares ==
  {[Share(Plain, TRUE, d, t, 1) EXCEPT !.clients = {"page"}, !.guests = 0, !.restarts = 1]
     : d \in BOOLEAN, t \in {Full, Dirs, Empty}}
\* The page with a user who clicks again and again.
HastyShares ==
  {[Share(Plain, TRUE, TRUE, Dirs, 1) EXCEPT !.clients = {"page"}, !.guests = 0,
                                             !.patient = FALSE]}
AgentShares ==
  LET S(r, u, d, w) ==
        {[Share(r, u, d, t, 2) EXCEPT !.clients = {"agent"}, !.guests = 0, !.restarts = 1,
                                      !.who = w, !.target = g]
           : t \in {Full, Empty}, g \in {<<"d">>, <<"d", "f">>}}
  IN  UNION {S(Plain, u, d, Anyone) : u, d \in BOOLEAN}
      \cup S(OwnerOnly, TRUE, TRUE, Anyone) \cup S(OwnerOnly, TRUE, TRUE, User)
      \cup S(OwnerReads, TRUE, TRUE, User)
BrowserShares ==
  {[Share(Plain, TRUE, TRUE, t, 2) EXCEPT !.clients = {"browser", "guest"},
                                          !.asks = "replacements"]
     : t \in {Full}}

MCShares == RulesShares \cup LoneShares \cup CrowdShares \cup PageShares
            \cup HastyShares \cup AgentShares \cup BrowserShares

Whole(n) == SubSeq(<<<<"new", 1>>, <<"new", 2>>>>, 1, n)
From(a, b) == [kind |-> "from", a |-> a, b |-> b]
LastOf(n)  == [kind |-> "last", a |-> n, b |-> 0]
ToAppend   == [kind |-> "append", a |-> 0, b |-> 0]

Ask(method, p, who) == RequestOf(who, "guest", method, p)

Writes(p, who) ==
  {[Ask("PUT", p, who) EXCEPT !.body = Whole(n)] : n \in 0..2}
  \cup {[Ask("PATCH", p, who) EXCEPT !.body = Whole(1), !.range = r]
          : r \in {ToAppend, From(0, Word), From(1, 1), LastOf(1), LastOf(3)}}
  \cup {Ask(m, p, who) : m \in {"DELETE", "MKCOL"}}

Transfers(who) ==
  {[Ask(m, p, who) EXCEPT !.dest = q]
     : m \in {"COPY", "MOVE"}, p \in MCPaths, q \in MCPaths}

Reads(p, who) ==
  {[Ask("GET", p, who) EXCEPT !.query = q] : q \in {"", "/", "zip", "q", "json", "hash", "tokengen"}}
  \cup {[Ask("GET", p, who) EXCEPT !.range = r]
          : r \in {From(0, 0), From(1, Word), From(0, 2), From(1, 0), LastOf(0), LastOf(1), LastOf(2)}}
  \cup {Ask(m, p, who) : m \in {"HEAD", "PROPFIND", "OPTIONS", "CHECKAUTH", "LOGOUT",
                                "LOCK", "UNLOCK", "PROPPATCH", "POST", "PATCH"}}

MCAsks(s) ==
  CASE s.asks = "all" ->
         UNION {Writes(p, w) \cup Reads(p, w) : p \in MCPaths, w \in {Anyone, User, Wrong}}
         \cup UNION {Transfers(w) : w \in {Anyone, User}}
         \cup UNION {Reads(p, Token(<<"d">>)) : p \in {<<"d">>, <<"e">>}}
    [] s.asks = "rights" ->
         {Ask(m, p, w) : m \in {"GET", "DELETE", "MKCOL", "PROPFIND"}, p \in MCPaths,
                         w \in {Anyone, User}}
         \cup {[Ask("GET", p, w) EXCEPT !.query = q] : q \in {"zip", "q"}, p \in {<<>>, <<"d">>},
                                                       w \in {User, Token(<<"d">>)}}
         \cup {[Ask("MOVE", <<"e">>, User) EXCEPT !.dest = <<"d", "f">>]}
    [] s.asks = "changes" ->
         UNION {Writes(p, Anyone) : p \in {<<"d">>, <<"d", "f">>}}
         \cup {a \in Transfers(Anyone) : {a.path, a.dest} \subseteq {<<"d">>, <<"d", "f">>, <<"e">>}}
         \cup {Ask("GET", <<"d", "f">>, Anyone), Ask("DELETE", <<>>, Anyone)}
    [] s.asks = "replacements" ->
         {[Ask("PUT", <<"d", "f">>, Anyone) EXCEPT !.body = Whole(n)] : n \in {1, 2}}
         \cup {[Ask("MOVE", <<"e">>, Anyone) EXCEPT !.dest = <<"d", "f">>],
               [Ask("PATCH", <<"d", "f">>, Anyone) EXCEPT !.body = Whole(1), !.range = From(0, 0)]}
    [] OTHER -> {}
=============================================================================
