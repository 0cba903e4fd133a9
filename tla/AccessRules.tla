----------------------------- MODULE AccessRules -----------------------------
(***************************************************************************)
(* Who may do what in the share: AccessControl and AccessPaths of          *)
(* crates/dufs-core/src/auth.rs.                                           *)
(*                                                                         *)
(* A path is a sequence of names.  An AccessPaths is a function from a     *)
(* prefix-closed set of paths to permissions: its nodes, seen from its     *)
(* root <<>>.  A rule set is a record: open when there is no rule at all,  *)
(* else the tree of every user and the one of anonymous visitors, which    *)
(* may be missing.  The texts of rules, passwords and digests are not      *)
(* modelled: a credential says whose it is and if it is right.             *)
(***************************************************************************)
EXTENDS Naturals, Sequences, SequencesExt

IndexOnly == 0
ReadOnly  == 1
ReadWrite == 2
Perms     == {IndexOnly, ReadOnly, ReadWrite}

Nobody  == "nobody"               \* no user name was given
NoToken == [user |-> Nobody, path |-> <<>>]

Higher(a, b) == IF a > b THEN a ELSE b

\* No AccessPaths: None in the code.
Nothing == [p \in {} |-> IndexOnly]

Single(perm) == [p \in {<<>>} |-> perm]

-----------------------------------------------------------------------------
(* Building the trees.                                                     *)

\* The missing nodes on the way become nodes without a permission.
Add(t, grant) ==
  [p \in DOMAIN t \cup Prefixes(grant.path) |->
     IF p = grant.path THEN grant.perm
     ELSE IF p \in DOMAIN t THEN t[p] ELSE IndexOnly]

MergeGrants(grants) == FoldLeft(Add, Single(IndexOnly), grants)

\* The permission of the deepest node on the way to p that has one.
Granted(t, p) ==
  LET having == {q \in Prefixes(p) \cap DOMAIN t : t[q] # IndexOnly}
  IN  IF having = {} THEN IndexOnly
      ELSE t[CHOOSE q \in having : \A r \in having : Len(r) =< Len(q)]

\* Faulty: the permissions above a node of the visitors are forgotten.
AbsorbAnonFlat(t, anon) ==
  [p \in DOMAIN t \cup DOMAIN anon |->
     LET own   == IF p \in DOMAIN t THEN t[p] ELSE IndexOnly
         other == IF p \in DOMAIN anon THEN anon[p] ELSE IndexOnly
     IN  Higher(own, other)]

\* At every node of the visitors' tree the user gets what is higher there:
\* what visitors inherit or what his own rules gave him.  Only there: the doc
\* comment of absorb_anon says "higher perm wins", but with /:rw for visitors a
\* user with /d:ro of his own may not write in /d, where every visitor may.
AbsorbAnon(t, anon) ==
  [p \in DOMAIN t \cup DOMAIN anon |->
     IF p \in DOMAIN anon THEN Higher(Granted(t, p), Granted(anon, p)) ELSE t[p]]

\* A share without rules, one whose users (a function to their grants) come
\* with anonymous visitors, and one that knows users only.
NoRules == [open |-> TRUE, users |-> <<>>, anon |-> Single(ReadWrite)]

RulesOf(grants, anon) ==
  [open  |-> FALSE,
   users |-> [u \in DOMAIN grants |-> AbsorbAnon(MergeGrants(grants[u]), MergeGrants(anon))],
   anon  |-> MergeGrants(anon)]

RulesWithoutVisitors(grants) ==
  [open  |-> FALSE,
   users |-> [u \in DOMAIN grants |-> MergeGrants(grants[u])],
   anon  |-> Nothing]

\* What AccessControl::new and merge make of the texts: paths to read or to
\* write.  A user has a name.
IsGrants(g) == g \in Seq([path : Seq(STRING), perm : {ReadOnly, ReadWrite}])

RulesOK(own, visitors, rules) ==
  /\ Nobody \notin DOMAIN own
  /\ IsGrants(visitors) /\ \A u \in DOMAIN own : IsGrants(own[u])
  /\ \/ rules = NoRules /\ DOMAIN own = {}
     \/ rules = RulesOf(own, visitors)
     \/ rules = RulesWithoutVisitors(own)

-----------------------------------------------------------------------------
(* Asking the trees.                                                       *)

\* The subtree at p, seen from p.
Subtree(t, p) ==
  LET nodes == {q \in DOMAIN t : IsPrefix(p, q)}
  IN  [q \in {SubSeq(r, Len(p) + 1, Len(r)) : r \in nodes} |-> t[p \o q]]

\* One step of the descent: the permission met last goes along, and where
\* there is no node the descent is over.
Descend(t, at, name) ==
  LET p == Append(at.path, name)
  IN  IF at.lost \/ p \notin DOMAIN t THEN [at EXCEPT !.lost = TRUE]
      ELSE [path |-> p, lost |-> FALSE,
            perm |-> IF t[p] # IndexOnly THEN t[p] ELSE at.perm]

\* Above a permission nothing but the ways to the grants below is to be seen.
Find(t, p) ==
  LET end == FoldLeft(LAMBDA at, name : Descend(t, at, name),
                      [path |-> <<>>, lost |-> FALSE, perm |-> t[<<>>]], p)
  IN  IF end.perm # IndexOnly THEN Single(end.perm)
      ELSE IF end.lost THEN Nothing ELSE Subtree(t, p)

IsReadonlyMethod(method) ==
  method \in {"GET", "OPTIONS", "HEAD", "PROPFIND", "CHECKAUTH", "LOGOUT"}

\* AccessPaths::guard.
Permit(t, p, method) ==
  LET target == Find(t, p)
  IN  IF target = Nothing \/ (~IsReadonlyMethod(method) /\ target[<<>>] # ReadWrite)
      THEN Nothing ELSE target

\* Faulty: only children with a permission of their own.
ChildNamesGranted(t) == {p[1] : p \in {q \in DOMAIN t : Len(q) = 1 /\ t[q] # IndexOnly}}

ChildNames(t) == {p[1] : p \in DOMAIN t \ {<<>>}}

\* Where a search or an archive starts: the outermost nodes with a permission.
EntryPaths(t) ==
  {p \in DOMAIN t : t[p] # IndexOnly
                    /\ \A q \in Prefixes(p) \ {p} : t[q] = IndexOnly}

-----------------------------------------------------------------------------
(* AccessControl::guard.  A visitor is a record: the name he logs in with, *)
(* if the password is right, and the token in his query.                   *)

\* A token is good for the one path it was made for.  One that expired or was
\* made with a former password is no token.
TokenOpens(rules, token, p) == token.user \in DOMAIN rules.users /\ token.path = p

Refused == [user |-> Nobody, paths |-> Nothing]

Guard(rules, p, method, who) ==
  LET known == who.login \in DOMAIN rules.users
  IN  CASE rules.open ->
             [user |-> Nobody, paths |-> Single(ReadWrite)]
        [] ~rules.open /\ method = "GET" /\ TokenOpens(rules, who.token, p) ->
             [user |-> who.token.user,
              paths |-> Permit(rules.users[who.token.user], p, method)]
        [] OTHER ->
             IF who.login # Nobody
             THEN IF known /\ method = "OPTIONS"
                  THEN [user |-> who.login, paths |-> Single(ReadOnly)]
                  ELSE IF known /\ who.right
                  THEN [user |-> who.login,
                        paths |-> Permit(rules.users[who.login], p, method)]
                  ELSE Refused
             ELSE IF method = "OPTIONS"
             THEN [user |-> Nobody, paths |-> Single(ReadOnly)]
             ELSE IF rules.anon = Nothing THEN Refused
             ELSE [user |-> Nobody, paths |-> Permit(rules.anon, p, method)]
=============================================================================
