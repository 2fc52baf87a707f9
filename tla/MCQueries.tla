------------------------------- MODULE MCQueries -------------------------------
(* Questions on small vaults, and policies.                                 *)
EXTENDS Queries

CONSTANTS t1, t2

-----------------------------------------------------------------------------
(* Policies.                                                                *)

AnyNote == [default |-> FALSE, all |-> {}, any |-> {}, none |-> {}, within |-> FALSE, owner |-> "any"]
Rule(allow, matcher, add, owns, keep) ==
  [allow |-> allow, matcher |-> matcher, add |-> add, setOwner |-> owns, preserve |-> keep]

MCPolicies == {
  [create |-> {Rule(TRUE, [AnyNote EXCEPT !.none = {t2}], {t1}, TRUE, {})},
   edit |-> {Rule(TRUE, [AnyNote EXCEPT !.all = {t1}, !.owner = "yes"], {}, FALSE, {t1})}],
  [create |-> {Rule(TRUE, [AnyNote EXCEPT !.default = TRUE], {}, FALSE, {}),
               Rule(FALSE, [AnyNote EXCEPT !.all = {t1, t2}], {}, FALSE, {})},
   edit |-> {Rule(TRUE, [AnyNote EXCEPT !.any = {t1, t2}], {}, FALSE, {t1, t2}),
             Rule(TRUE, [AnyNote EXCEPT !.within = TRUE], {}, FALSE, {t2}),
             Rule(FALSE, [AnyNote EXCEPT !.all = {t2}, !.owner = "no"], {}, FALSE, {})}]}
MCBodies == {{}, {t1}}

-----------------------------------------------------------------------------
(* Calls through the adapters: a token that is in two files, one of them    *)
(* unknown; a context that a reload takes away, one that may read nothing.  *)

Everything == Rule(TRUE, [AnyNote EXCEPT !.default = TRUE], {}, FALSE, {})
Nothing == Rule(FALSE, [AnyNote EXCEPT !.default = TRUE], {}, FALSE, {})
Denied(t) == Rule(FALSE, [AnyNote EXCEPT !.all = {t}], {}, FALSE, {})
Owned == Rule(TRUE, [AnyNote EXCEPT !.owner = "yes"], {}, FALSE, {})
MCFiles == {[NoNote EXCEPT !.rev = 1, !.tags = {}], [NoNote EXCEPT !.rev = 1, !.tags = {t1, t2}],
            [NoNote EXCEPT !.rev = 1, !.tags = {t1}, !.owner = <<"mcp", "n">>]}
Holds(name, token) == [name |-> name, token |-> token]
TokenFiles == [mcp |-> <<Holds("x", "k"), Holds("n", "k"), Holds("m", "k"), Holds("m", "l")>>,
               rest |-> <<Holds("m", "k"), Holds("n", "k")>>]
Agent == [read |-> {Everything, Denied(t2)}, create |-> {Rule(TRUE, [AnyNote EXCEPT !.none = {t2}], {t1, t2}, TRUE, {}), Everything},
          edit |-> {Owned}]
Reader == [read |-> {Owned, Rule(TRUE, [AnyNote EXCEPT !.any = {t1}], {}, FALSE, {})}, create |-> {Denied(t1)},
           edit |-> {Everything, Nothing}]
Writer == [read |-> {}, create |-> {Rule(TRUE, [AnyNote EXCEPT !.none = {t1}], {t1}, TRUE, {})}, edit |-> {Everything}]
MCSetups == {
  [sources |-> TokenFiles, tokens |-> [mcp |-> [n |-> "a", m |-> "b"], rest |-> [n |-> "a", m |-> "b"]],
   contexts |-> [a |-> Agent, b |-> Reader]],
  [sources |-> TokenFiles, tokens |-> [mcp |-> [m |-> "b"], rest |-> [n |-> "b"]], contexts |-> [b |-> Writer]],
  [sources |-> [TokenFiles EXCEPT !.mcp = Tail(@)], tokens |-> [mcp |-> [n |-> "a"], rest |-> [m |-> "a"]],
   contexts |-> [a |-> [Reader EXCEPT !.read = {Owned, Nothing}]]]}
MCCalls ==
  {[via |-> "mcp", token |-> k, method |-> "call", tool |-> t, args |-> a, raw |-> r, file |-> f] :
     k \in {"k", "l", "none"}, t \in Tools \cup {"none"}, a \in {"good", "beyond"}, r \in {"no", "wrong"}, f \in MCFiles}
    \cup {[via |-> "mcp", token |-> k, method |-> m, tool |-> "none", args |-> a, raw |-> "no", file |-> f] :
             k \in {"k", "l"}, m \in {"plain", "list", "resource"}, a \in {"good", "bad"}, f \in MCFiles}
    \cup {[via |-> "rest", token |-> k, method |-> "rest", tool |-> t, args |-> a, raw |-> "no", file |-> f] :
             k \in {"k", "none"}, t \in Tools, a \in {"good", "beyond", "bad"}, f \in MCFiles}

-----------------------------------------------------------------------------
(* Graphs: any of four notes, or of five with links to later notes only.    *)
(* The order of links is against that of ids.                               *)

Four == 1..4
Pairs == {p \in Four \X Four : p[1] # p[2]}
Forward == {p \in Notes \X Notes : p[1] < p[2]}
Links(S) == {[from |-> p[1], to |-> p[2], at |-> 6 - p[2]] : p \in S}
OfLinks(sizes) == {Links(S) : S \in UNION {kSubset(k, Pairs) : k \in sizes}}
SmallGraphs == OfLinks(0..4)
ForwardGraphs == {Links(S) : S \in SUBSET Forward}

MCPathQuestions ==
  {[links |-> Links(S), readable |-> r, from |-> 1, to |-> 4] : S \in SUBSET Pairs, r \in {Four, Four \ {2}}}
    \cup {[links |-> l, readable |-> Notes, from |-> f, to |-> 5] : l \in ForwardGraphs, f \in {1, 2}}
    \cup {[links |-> Links(Pairs), readable |-> r, from |-> 1, to |-> t] : r \in SUBSET Four, t \in {1, 2}}
\* Links, what is readable, where from and how far.
Regions ==
  {<<Links(Pairs), r, 1, 9>> : r \in SUBSET Four}
    \cup {<<l, Notes, c, 3>> : l \in ForwardGraphs, c \in {1, 5}}
    \cup {<<l, r, 1, d>> : l \in SmallGraphs, r \in {Four, Four \ {2}}, d \in {0, 2}}
MCLevelQuestions ==
  {[links |-> s[1], readable |-> s[2], center |-> s[3], depth |-> s[4], direction |-> x] :
     s \in Regions, x \in Directions}
Bundle(links, seeds, max, marked, like) ==
  [seeds |-> seeds, depth |-> 3, max |-> max,
   vault |-> [links |-> links, readable |-> Notes, marked |-> marked, like |-> like,
              full |-> [n \in Notes |-> 2], summary |-> [n \in Notes |-> 1]]]
MCContextQuestions ==
  {Bundle(l, s, m, h, {3}) : l \in OfLinks(0..3), s \in {{1}, {1, 4}}, m \in {0, 3}, h \in {{}, {2}}}
    \cup {Bundle(l, {1}, 5, {}, {3}) : l \in ForwardGraphs}

-----------------------------------------------------------------------------
(* Searches of three notes.                                                 *)

Words == [Ids -> 0..2]
Vectors == [Ids -> {NoVector, -1, 1, 2}]
Blocks == {{}, {[id |-> 2, at |-> 1, score |-> 1]},
           {[id |-> 3, at |-> 1, score |-> -1], [id |-> 3, at |-> 2, score |-> 2], [id |-> 1, at |-> 1, score |-> 1]}}
\* The scores of words and of vectors, the blocks and the mode.
Rankings ==
  {<<w, [n \in Ids |-> 1], {}, "fulltext">> : w \in Words}
    \cup {<<[n \in Ids |-> 1], v, b, "semantic">> : v \in Vectors, b \in Blocks}
    \cup {<<w, v, b, "hybrid">> : w \in {u \in Words : u[1] = 1},
             v \in {u \in Vectors : u[1] \in {NoVector, 1} /\ u[2] # 1}, b \in Blocks}
MCSearchQuestions ==
  {[database |-> d, embeds |-> e, limit |-> n, readable |-> r,
    text |-> s[1], vector |-> s[2], blocks |-> s[3], mode |-> s[4]] :
     d, e \in BOOLEAN, n \in 0..2, r \in {Ids, {1, 3}}, s \in Rankings}

\* Of every kind: dates that are equal, missing and in both orders.
Stamps == {<<1, 2, 0>>, <<2, 1, 2>>, <<0, 0, 1>>}
MCNoteQuestions ==
  {[database |-> TRUE, embeds |-> e, mode |-> m, limit |-> n, readable |-> r, hasText |-> h,
    text |-> w, vector |-> <<1, NoVector, 2>>, blocks |-> b, filter |-> f, tags |-> <<{"x"}, {"x", "y"}, {}>>,
    created |-> c, updated |-> <<1, 1, 2>>, title |-> <<2, 1, 3>>, sortBy |-> s, order |-> o] :
     e \in BOOLEAN, m \in {"fulltext", "hybrid"}, n \in {1, 3}, r \in {Ids, {1, 3}}, h \in BOOLEAN,
     w \in {<<1, 1, 1>>, <<0, 1, 2>>}, b \in {{}, {[id |-> 2, at |-> 1, score |-> 1]}}, c \in Stamps,
     s \in {"default", "relevance", "created", "title"}, o \in {"default", "asc", "desc"},
     f \in {[all |-> {}, any |-> {}, none |-> {}, createdAfter |-> 0],
            [all |-> {"x"}, any |-> {"x", "y"}, none |-> {}, createdAfter |-> 0],
            [all |-> {}, any |-> {}, none |-> {"y"}, createdAfter |-> 1]}}

-----------------------------------------------------------------------------
(* Expressions.                                                             *)

Alphabet == {<<"name", "n">>, Sym("("), Sym(")"), Sym("!"), Sym("=="), Sym("||"), Sym(".")}
MCExpressions == UNION {[1..k -> Alphabet] : k \in 1..5}

Atoms == {<<"name", "n">>, <<"literal", <<"number", 1>>>>, <<"literal", Null>>}
Over(S) ==
  {<<"binary", op, a, b>> : op \in {"||", "&&", "==", "<"}, a, b \in S}
    \cup {<<"not", a>> : a \in S} \cup {<<"member", a, "x">> : a \in S} \cup {<<"index", a, b>> : a, b \in S}
    \cup {<<"call", a, <<>>>> : a \in S} \cup {<<"call", a, <<b>>>> : a, b \in S}
Shallow == Over({<<"name", "n">>}) \cup Atoms
MCTrees == Over(Shallow) \cup {<<"call", a, <<b, c>>>> : a, b, c \in Atoms}

-----------------------------------------------------------------------------
(* Tables.  The texts, in their order:                                      *)
(*  0 ""  1 "1"  2 "2024-01-01"  3 the same with its hour  4 "2024-01-02"   *)
(*  5 the same with its hour  6 "a"  7 "b"  8 "c"  9 "due"  10 "false"      *)
(*  11 "open"  12 "true"  13 "work"  14 "work/x"                            *)

MCTexts == 0..14
MCDateOf == [t \in MCTexts |-> IF t \in {2, 3} THEN 10 ELSE IF t \in {4, 5} THEN 20 ELSE NoDate]
MCPartOf == {p \in MCTexts \X MCTexts : p[1] \in {0, p[2]} \/ p \in {<<13, 14>>, <<2, 3>>, <<4, 5>>}}
MCNameOf == [t \in MCTexts |-> IF t = 9 THEN "due" ELSE "none"]
MCSpelling == (<<"number", 1>> :> 1) @@ (<<"bool", 0>> :> 10) @@ (<<"bool", 1>> :> 12)
                @@ (<<"date", 10>> :> 3) @@ (<<"date", 20>> :> 5)

Blank == [path |-> 6, name |-> 6, folder |-> 0, ext |-> 0, tags |-> <<>>, links |-> <<>>, folders |-> {0},
          frontmatter |-> [n |-> Null], created |-> NoDate, updated |-> 10]
Vault == {
  [Blank EXCEPT !.tags = <<[text |-> 14, prefixes |-> {13, 14}]>>, !.links = <<[text |-> 7, names |-> {7}]>>,
                !.frontmatter = [due |-> <<"text", 4>>, n |-> <<"number", 1>>], !.created = 10, !.updated = 20],
  [Blank EXCEPT !.path = 7, !.name = 7, !.folders = {0, 13}, !.folder = 13,
                !.frontmatter = [due |-> <<"text", 3>>, n |-> <<"text", 11>>], !.updated = 20],
  [Blank EXCEPT !.path = 8, !.name = 8, !.tags = <<[text |-> 13, prefixes |-> {13}], [text |-> 11, prefixes |-> {11}]>>]}

Name(s) == <<"name", s>>
Text(t) == <<"text", t>>
Call(f, x) == <<Name(f), Sym("("), x, Sym(")")>>
Method(m, x) == <<Name("file"), Sym(".")>> \o Call(m, x)
Due == <<Name("note"), Sym("["), Text(9), Sym("]")>>
Statements == [
  soon |-> Due \o <<Sym("<")>> \o Call("date", Text(4)),
  work |-> Method("hasTag", Text(13)),
  one |-> <<Name("n"), Sym("=="), <<"number", 1>>>>,
  empty |-> <<Sym("!"), Name("n")>>,
  fails |-> Call("date", Name("due")) \o <<Sym(">"), Name("today"), Sym("("), Sym(")")>>,
  mixed |-> Method("inFolder", Text(13)) \o <<Sym("||")>> \o Call("date", Name("n")),
  linked |-> Method("hasLink", Text(7)) \o <<Sym("&&"), Name("file"), Sym("."), Name("ctime")>>,
  has |-> Call("list", Name("n")) \o <<Sym(".")>> \o Call("contains", Text(11)),
  day |-> <<Name("due"), Sym("=="), Name("file"), Sym("."), Name("mtime")>>,
  bad |-> <<Name("n"), Sym("==")>>]
Says(s) == <<"statement", Statements[s]>>
Filters ==
  {NoFilter} \cup {Says(s) : s \in DOMAIN Statements}
    \cup {<<"map", [or |-> <<"list", <<Says(a), Says(b)>>>>]>> : a, b \in {"one", "work", "fails"}}
    \cup {<<"map", [and |-> <<"list", <<Says(a), Says(b)>>>>]>> : a, b \in {"one", "soon", "fails"}}
    \cup {<<"map", [not |-> Says("one")]>>, <<"map", [not |-> <<"list", <<Says("work"), Says("empty")>>>>]>>,
          <<"map", [and |-> Says("one")]>>,
          <<"map", [or |-> <<"list", <<Says("one")>>>>, not |-> Says("work")]>>}

By(id, direction) == [property |-> id, direction |-> direction]
WrittenView == [name |-> "", type |-> "", filter |-> NoFilter, order |-> <<>>, limit |-> NoLimit, sort |-> <<>>]
DueColumn == <<"note", <<"due">>>>
Views ==
  {[WrittenView EXCEPT !.name = "v", !.filter = f, !.order = o, !.limit = l, !.sort = s] :
     f \in Filters, l \in {NoLimit, 0, 1},
     o \in {<<>>, <<DueColumn, <<"file", "tags">>, <<"note", <<"n">>>>>>},
     s \in {<<>>, <<By(DueColumn, "desc")>>, <<By(<<"file", "tags">>, "")>>,
            <<By(<<"file", "ext">>, "desc"), By(<<"file", "mtime">>, "asc")>>}}
Documents ==
  {[filter |-> f, views |-> <<v>>] : f \in {NoFilter, Says("work"), Says("fails")}, v \in Views}
    \cup {[filter |-> f, views |-> vs] : f \in Filters,
            vs \in {<<>>, <<[WrittenView EXCEPT !.type = "cards"]>>,
                    <<WrittenView, [WrittenView EXCEPT !.sort = <<By(DueColumn, "down")>>]>>,
                    <<[WrittenView EXCEPT !.type = "cards"],
                      [WrittenView EXCEPT !.name = "v", !.order = <<<<"formula">>>>],
                      [WrittenView EXCEPT !.name = "v", !.filter = Says("one")]>>}}
MCTableQuestions ==
  {[document |-> d, view |-> v, limit |-> 2, notes |-> Vault] : d \in Documents, v \in {"", "v"}}
    \cup {[document |-> d, view |-> "", limit |-> NoLimit, notes |-> Vault] : d \in {e \in Documents : e.filter = NoFilter}}

-----------------------------------------------------------------------------
(* Texts: bodies of up to five pieces, which are words, sentences, breaks   *)
(* and headings.  "w" is a letter of two bytes.                             *)

MCWidth == [c \in {"x", "w", "c", ".", " ", "nl", "h1", "h2", "#", "/", "-", "n", "o", "t", "e", "u"} |->
              IF c = "w" THEN 2 ELSE 1]
MCLevelOf == [h1 |-> 1, h2 |-> 2]

UpTo(n, S) == UNION {[1..k -> S] : k \in 0..n}
Pieces == {<<"x", ".">>, <<"x", "x">>, <<"w", "w", "w">>, <<" ">>, <<"nl", "nl">>, <<"nl", "h1", "x", "nl">>, <<"h2">>}
Divided(bodies, sizes, overlaps) ==
  {[body |-> b, min |-> s[1], max |-> s[2], overlap |-> o] : b \in bodies, s \in sizes, o \in overlaps}
Texted(n, pieces) == {FlattenSeq(p) : p \in UpTo(n, pieces)}
MCBlockQuestions ==
  Divided(Texted(3, Pieces), {<<0, 4>>, <<3, 6>>}, {1})
    \cup Divided(Texted(4, Pieces \ {<<"x", "x">>, <<" ">>}), {<<4, 5>>}, {0, 2})
MCChunkQuestions ==
  {[text |-> t, limit |-> l, samples |-> 3] : t \in UpTo(5, {"x", "w", " ", "nl"}), l \in {1, 4}}
    \cup {[text |-> [i \in 1..k |-> "x"], limit |-> l, samples |-> n] : k \in {0, 4, 7, 11}, l \in 1..2, n \in 0..6}

MCReserved == {<<"c">>}
MCDate == <<"t">>
MCDefaultBase == <<"n">>
MCDefaultTemplate == <<"{base}", "/", "{date}", "-", "{slug}", ".md">>
MCUntitled == <<"u", "t">>
MCSlugOf == [c \in DOMAIN MCWidth \cup {"\\"} |->
  IF c \in {".", " ", "nl", "#", "/", "-", "\\"} THEN <<>> ELSE IF c = "w" THEN <<"x", "x">> ELSE <<c>>]
Titles == UpTo(3, {"x", "w", "c", ".", " ", "#"}) \cup {<<".", ".", "/", "x">>, <<"c", "\\", "x">>}
GoodTemplates == {<<>>, <<"{base}", "/", "{title}">>}
GoodBases == {<<"o">>, <<"/", "o", "\\", "x", "/">>, <<" ", "/">>}
MCTitleQuestions ==
  {[title |-> t, max |-> m, base |-> b, template |-> p, extension |-> ".md", good |-> TRUE] :
     t \in Titles, m \in 0..3, b \in {<<"o">>}, p \in GoodTemplates}
    \cup {[title |-> t, max |-> 4, base |-> b, template |-> p, extension |-> e,
           good |-> b \in GoodBases /\ p \in GoodTemplates] :
            t \in UpTo(2, {"x", "c", ".", " ", "/"}), e \in Extensions,
            b \in GoodBases \cup {<<".", ".">>, <<"o", "\\">>, <<"c">>},
            p \in GoodTemplates \cup {<<"{slug}">>, <<"{base}", "/", "{slug}", ".md">>, <<"/", "{base}", "/", "{title}", ".base">>,
                   <<"{base}", "\\", ".", ".", "/", "{title}">>, <<"{base}", "/", ".", "/", "{date}">>, <<"/", " ">>,
                   <<"{base}", "{title}", "/", "{date}">>, <<"{base}", "/", "/", "{title}">>}}

Operation(op, find, text) == [op |-> op, find |-> find, text |-> text]
Kinds == {"append", "prepend", "replace", "delete", "insert_before", "insert_after"}
Operations(finds, texts) == {Operation(k, f, t) : k \in Kinds, f \in finds, t \in texts}
MCPatchQuestions ==
  {[body |-> b, patch |-> <<o>>] : b \in UpTo(4, {"x", "c"}), o \in Operations(UpTo(2, {"x", "c"}), {<<>>, <<"c", "x">>})}
    \cup {[body |-> b, patch |-> <<o1, o2>>] : b \in UpTo(2, {"x", "c"}),
            o1, o2 \in Operations({<<"x">>, <<"c", "x">>}, {<<"c">>, <<"x", "x">>})}
    \cup {[body |-> b, patch |-> <<>>] : b \in UpTo(1, {"x"})}
=============================================================================
