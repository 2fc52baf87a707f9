------------------------------- MODULE BaseQuery -------------------------------
(***************************************************************************)
(* Table queries in the notation of Obsidian Bases: a document of filters, *)
(* sort orders and views is read, its expressions are parsed and evaluated *)
(* on each note the caller may read, and the notes that match are sorted   *)
(* and cut to a table.                                                     *)
(*                                                                         *)
(* A value is <<kind, content>>.  A text is a number, its place in the     *)
(* order of texts; DateOf is the date it is read as, PartOf which texts    *)
(* occur in which, NameOf the property it names, and Spelling how other    *)
(* values are written.  A token is <<class, content>>, and a tree is       *)
(* <<form, parts...>>.                                                     *)
(***************************************************************************)
EXTENDS Integers, Sequences, FiniteSets, SequencesExt

CONSTANTS Texts, DateOf, PartOf, NameOf, Spelling,
          Now, Today,  \* the moment of the query, and the start of its day
          MaxRows,     \* max_limit of the server
          DefaultRows  \* DEFAULT_BASE_QUERY_LIMIT

NoDate == -1

ASSUME TextsAssumption ==
  /\ Texts \subseteq Nat /\ 0 \in Texts \* the empty one
  /\ DateOf \in [Texts -> Nat \cup {NoDate}] /\ PartOf \subseteq Texts \X Texts
ASSUME RowsAssumption == {MaxRows, DefaultRows} \subseteq Nat

Kind(v) == v[1]
Of(v) == v[2]
Missing == <<"missing", 0>>
Null == <<"null", 0>>
Truth(b) == <<"bool", IF b THEN 1 ELSE 0>>
Failed == <<"error", 0>>
Fails(v) == Kind(v) = "error"

Truthy(v) ==
  CASE Kind(v) \in {"missing", "null"} -> FALSE
    [] Kind(v) \in {"bool", "number", "text"} -> Of(v) # 0
    [] Kind(v) \in {"list", "object"} -> DOMAIN Of(v) # {}
    [] OTHER -> TRUE

AsDate(v) == CASE Kind(v) = "date" -> Of(v) [] Kind(v) = "text" -> DateOf[Of(v)] [] OTHER -> NoDate
AsText(v) == IF Kind(v) = "text" THEN Of(v) ELSE Spelling[v]
HasText(v) == Kind(v) \in {"text", "number", "bool", "date"}

ValuesEqual(v, w) ==
  IF Kind(v) = Kind(w) THEN Kind(v) \notin {"file", "note", "formula"} /\ Of(v) = Of(w)
  ELSE {Kind(v), Kind(w)} = {"text", "date"} /\ AsDate(v) # NoDate /\ AsDate(v) = AsDate(w)

Unordered == 2
Sign(n) == IF n < 0 THEN -1 ELSE IF n > 0 THEN 1 ELSE 0

CompareValues(v, w) ==
  IF Kind(v) = "number" /\ Kind(w) = "number" THEN Sign(Of(v) - Of(w))
  ELSE IF AsDate(v) # NoDate /\ AsDate(w) # NoDate THEN Sign(AsDate(v) - AsDate(w))
  ELSE Unordered

ValueContains(target, needle) ==
  CASE Kind(target) = "list" -> \E i \in DOMAIN Of(target) : ValuesEqual(Of(target)[i], needle)
    [] Kind(target) = "text" -> HasText(needle) /\ <<AsText(needle), Of(target)>> \in PartOf
    [] OTHER -> FALSE

-----------------------------------------------------------------------------
(* The parser: one level of precedence after the other, and what is left.   *)

Sym(s) == <<"sym", s>>
Operators == <<{"||"}, {"&&"}, {"==", "!="}, {">", ">=", "<", "<="}>>
Unary == 5
Postfix == 6

NoTree == <<"none">>
Stuck == [tree |-> NoTree, rest |-> <<>>]
IsStuck(got) == got.tree = NoTree
NextIs(tokens, symbols) == tokens # <<>> /\ tokens[1][1] = "sym" /\ tokens[1][2] \in symbols

RECURSIVE ParseLevel(_, _), ParseMore(_, _), ParseUnary(_), ParsePostfix(_), ParseArgs(_)

(* Mutant of ParseMore: a chain of operators is grouped from the right.     *)
ParseMoreRight(level, left) ==
  IF IsStuck(left) \/ ~ NextIs(left.rest, Operators[level]) THEN left
  ELSE LET right == ParseLevel(level, Tail(left.rest))
       IN IF IsStuck(right) THEN Stuck
          ELSE [tree |-> <<"binary", left.rest[1][2], left.tree, right.tree>>, rest |-> right.rest]

ParseMore(level, left) ==
  IF IsStuck(left) \/ ~ NextIs(left.rest, Operators[level]) THEN left
  ELSE LET right == ParseLevel(level + 1, Tail(left.rest))
       IN IF IsStuck(right) THEN Stuck
          ELSE ParseMore(level, [tree |-> <<"binary", left.rest[1][2], left.tree, right.tree>>,
                                 rest |-> right.rest])

ParseLevel(level, tokens) ==
  IF level = Unary THEN ParseUnary(tokens) ELSE ParseMore(level, ParseLevel(level + 1, tokens))

Closed(inner, symbol) == ~ IsStuck(inner) /\ NextIs(inner.rest, {symbol})

ParsePrimary(tokens) ==
  IF tokens = <<>> THEN Stuck
  ELSE LET class == tokens[1][1] content == tokens[1][2] rest == Tail(tokens)
       IN CASE class = "name" /\ content \in {"true", "false", "null"} ->
                 [tree |-> <<"literal", IF content = "null" THEN Null ELSE Truth(content = "true")>>,
                  rest |-> rest]
            [] class = "name" /\ content \notin {"true", "false", "null"} ->
                 [tree |-> <<"name", content>>, rest |-> rest]
            [] class \in {"number", "text"} -> [tree |-> <<"literal", tokens[1]>>, rest |-> rest]
            [] NextIs(tokens, {"("}) ->
                 LET inner == ParseLevel(1, rest)
                 IN IF Closed(inner, ")") THEN [inner EXCEPT !.rest = Tail(@)] ELSE Stuck
            [] OTHER -> Stuck

\* One argument or more, up to the parenthesis.
ParseArgs(tokens) ==
  LET first == ParseLevel(1, tokens)
      others == ParseArgs(Tail(first.rest))
  IN CASE Closed(first, ")") -> [tree |-> <<"args", <<first.tree>>>>, rest |-> Tail(first.rest)]
       [] Closed(first, ",") ->
            IF IsStuck(others) THEN Stuck
            ELSE [others EXCEPT !.tree = <<"args", <<first.tree>> \o @[2]>>]
       [] OTHER -> Stuck

ParsePostfix(got) ==
  LET rest == Tail(got.rest)
      index == ParseLevel(1, rest)
      args == IF NextIs(rest, {")"}) THEN [tree |-> <<"args", <<>>>>, rest |-> Tail(rest)] ELSE ParseArgs(rest)
  IN CASE IsStuck(got) \/ ~ NextIs(got.rest, {".", "(", "["}) -> got
       [] NextIs(got.rest, {"."}) ->
            IF rest = <<>> \/ rest[1][1] # "name" THEN Stuck
            ELSE ParsePostfix([tree |-> <<"member", got.tree, rest[1][2]>>, rest |-> Tail(rest)])
       [] NextIs(got.rest, {"("}) ->
            IF IsStuck(args) THEN Stuck
            ELSE ParsePostfix([tree |-> <<"call", got.tree, args.tree[2]>>, rest |-> args.rest])
       [] NextIs(got.rest, {"["}) ->
            IF ~ Closed(index, "]") THEN Stuck
            ELSE ParsePostfix([tree |-> <<"index", got.tree, index.tree>>, rest |-> Tail(index.rest)])

ParseUnary(tokens) ==
  IF NextIs(tokens, {"!"})
  THEN LET inner == ParseUnary(Tail(tokens))
       IN IF IsStuck(inner) THEN Stuck ELSE [inner EXCEPT !.tree = <<"not", @>>]
  ELSE ParsePostfix(ParsePrimary(tokens))

\* Nothing may be left over.
ParseExpression(tokens) ==
  LET got == ParseLevel(1, tokens) IN IF got.rest = <<>> THEN got.tree ELSE NoTree

-----------------------------------------------------------------------------
(* Evaluation on a note: the texts of its path, name, folder and extension, *)
(* its tags (each with those it lies below), links (each with the names it  *)
(* is found by), the folders it lies in, its front matter and dates.        *)

FileProperty(note, field) ==
  CASE field \in {"path", "name", "folder", "ext"} -> <<"text", note[field]>>
    [] field = "tags" -> <<"list", [i \in DOMAIN note.tags |-> <<"text", note.tags[i].text>>]>>
    [] field = "links" -> <<"list", [i \in DOMAIN note.links |-> <<"text", note.links[i].text>>]>>
    [] field = "ctime" -> IF note.created = NoDate THEN Missing ELSE <<"date", note.created>>
    [] field = "mtime" -> <<"date", note.updated>>
    [] field = "properties" -> <<"object", note.frontmatter>>
    [] OTHER -> Failed

FrontmatterProperty(note, field) ==
  IF field \in DOMAIN note.frontmatter THEN note.frontmatter[field] ELSE Missing

EvalMember(v, field, note) ==
  CASE Kind(v) = "file" -> FileProperty(note, field)
    [] Kind(v) = "note" -> FrontmatterProperty(note, field)
    [] Kind(v) = "object" -> IF field \in DOMAIN Of(v) THEN Of(v)[field] ELSE Missing
    [] Kind(v) \in {"missing", "null"} -> Missing
    [] OTHER -> Failed

EvalIndex(v, at, note) ==
  CASE Kind(v) = "note" /\ Kind(at) = "text" -> FrontmatterProperty(note, NameOf[Of(at)])
    [] Kind(v) = "object" /\ Kind(at) = "text" ->
         IF NameOf[Of(at)] \in DOMAIN Of(v) THEN Of(v)[NameOf[Of(at)]] ELSE Missing
    [] Kind(v) = "list" /\ Kind(at) = "number" /\ Of(at) >= 0 ->
         IF Of(at) + 1 \in DOMAIN Of(v) THEN Of(v)[Of(at) + 1] ELSE Missing
    [] Kind(v) \in {"missing", "null"} /\ ~ Fails(at) -> Missing
    [] OTHER -> Failed

SingleText(values) == Len(values) = 1 /\ HasText(values[1])

\* A tag is had with all that are below it, and a folder with all in it.
FileMethod(note, method, values) ==
  LET text == AsText(values[1])
  IN CASE ~ SingleText(values) -> Failed
       [] SingleText(values) /\ method = "hasTag" ->
            Truth(\E i \in DOMAIN note.tags : text \in note.tags[i].prefixes)
       [] SingleText(values) /\ method = "inFolder" -> Truth(text \in note.folders)
       [] SingleText(values) /\ method = "hasLink" ->
            Truth(\E i \in DOMAIN note.links : text \in note.links[i].names)
       [] OTHER -> Failed

ValueMethod(target, method, values) ==
  CASE Fails(target) -> Failed
    [] ~ Fails(target) /\ method = "contains" /\ Len(values) = 1 ->
         IF Fails(values[1]) THEN Failed ELSE Truth(ValueContains(target, values[1]))
    [] ~ Fails(target) /\ method = "isEmpty" /\ values = <<>> -> Truth(~ Truthy(target))
    [] OTHER -> Failed

GlobalCall(name, values) ==
  LET v == values[1]
  IN CASE name \in {"now", "today"} /\ values = <<>> -> <<"date", IF name = "now" THEN Now ELSE Today>>
       [] name = "list" /\ Len(values) = 1 /\ ~ Fails(v) ->
            IF Kind(v) \in {"missing", "null"} THEN <<"list", <<>>>> ELSE IF Kind(v) = "list" THEN v ELSE <<"list", <<v>>>>
       [] name = "date" /\ SingleText(values) ->
            IF DateOf[AsText(v)] = NoDate THEN Failed ELSE <<"date", DateOf[AsText(v)]>>
       [] OTHER -> Failed

RECURSIVE Eval(_, _)
EvalCall(callee, args, note) ==
  LET values == [i \in DOMAIN args |-> Eval(args[i], note)]
  IN CASE callee[1] = "name" -> GlobalCall(callee[2], values)
       [] callee[1] = "member" /\ callee[2] = <<"name", "file">> -> FileMethod(note, callee[3], values)
       [] callee[1] = "member" /\ callee[2] # <<"name", "file">> ->
            ValueMethod(Eval(callee[2], note), callee[3], values)
       [] OTHER -> Failed

Compares(op, c) ==
  CASE c = Unordered -> FALSE [] op = ">" -> c = 1 [] op = ">=" -> c \in {0, 1}
    [] op = "<" -> c = -1 [] op = "<=" -> c \in {-1, 0}

\* The right side of "or" and "and" is not looked at when the left decides.
EvalBinary(op, left, right, note) ==
  LET v == Eval(left, note)
      w == Eval(right, note)
      decided == op \in {"||", "&&"} /\ Truthy(v) = (op = "||")
  IN CASE Fails(v) -> Failed
       [] ~ Fails(v) /\ decided -> Truth(op = "||")
       [] ~ Fails(v) /\ ~ decided /\ Fails(w) -> Failed
       [] OTHER -> CASE op \in {"||", "&&"} -> Truth(Truthy(w))
                     [] op = "==" -> Truth(ValuesEqual(v, w))
                     [] op = "!=" -> Truth(~ ValuesEqual(v, w))
                     [] op \in {">", ">=", "<", "<="} -> Truth(Compares(op, CompareValues(v, w)))

Eval(tree, note) ==
  LET form == tree[1] IN
  CASE form = "literal" -> tree[2]
    [] form = "name" -> IF tree[2] \in {"file", "note", "formula"} THEN <<tree[2], 0>>
                        ELSE FrontmatterProperty(note, tree[2])
    [] form = "member" -> LET v == Eval(tree[2], note)
                          IN IF Fails(v) THEN Failed ELSE EvalMember(v, tree[3], note)
    [] form = "index" -> LET v == Eval(tree[2], note)
                         IN IF Fails(v) THEN Failed ELSE EvalIndex(v, Eval(tree[3], note), note)
    [] form = "call" -> EvalCall(tree[2], tree[3], note)
    [] form = "not" -> LET v == Eval(tree[2], note) IN IF Fails(v) THEN Failed ELSE Truth(~ Truthy(v))
    [] form = "binary" -> EvalBinary(tree[2], tree[3], tree[4], note)

-----------------------------------------------------------------------------
(* The document: filters are statements or maps with one of three keys.     *)

BadFilter == <<"bad">>
IsBad(nodes) == \E i \in DOMAIN nodes : nodes[i] = BadFilter

RECURSIVE ParseFilter(_)
ParseFilterList(raw) == [i \in DOMAIN raw[2] |-> ParseFilter(raw[2][i])]
ParseFilter(raw) ==
  LET key == CHOOSE k \in DOMAIN raw[2] : TRUE
      nodes == IF raw[2][key][1] = "list" THEN ParseFilterList(raw[2][key])
               ELSE IF key = "not" THEN <<ParseFilter(raw[2][key])>> ELSE <<BadFilter>>
  IN CASE raw[1] = "statement" ->
            LET tree == ParseExpression(raw[2]) IN IF tree = NoTree THEN BadFilter ELSE <<"expr", tree>>
       [] raw[1] = "map" ->
            IF Cardinality(DOMAIN raw[2]) # 1 \/ IsBad(nodes) THEN BadFilter
            ELSE IF key # "not" THEN <<key, nodes>>
            ELSE <<"not", IF Len(nodes) = 1 THEN nodes[1] ELSE <<"and", nodes>>>>
       [] OTHER -> BadFilter

\* "yes", "no" or "fails"; the rest of a list is not looked at once decided.
RECURSIVE EvalFilter(_, _)
EvalList(nodes, otherwise, note) ==
  FoldLeft(LAMBDA acc, node : IF acc # otherwise THEN acc ELSE EvalFilter(node, note), otherwise, nodes)
EvalFilter(node, note) ==
  CASE node[1] = "expr" -> LET v == Eval(node[2], note)
                           IN IF Fails(v) THEN "fails" ELSE IF Truthy(v) THEN "yes" ELSE "no"
    [] node[1] = "and" -> EvalList(node[2], "yes", note)
    [] node[1] = "or" -> EvalList(node[2], "no", note)
    [] node[1] = "not" -> CASE EvalFilter(node[2], note) = "yes" -> "no"
                            [] EvalFilter(node[2], note) = "no" -> "yes" [] OTHER -> "fails"

NoFilter == <<"none">>
NoLimit == -1
DefaultOrder == <<<<"file", "name">>, <<"file", "path">>>>
PlainView == [name |-> "", table |-> TRUE, filter |-> NoFilter, order |-> <<>>, limit |-> NoLimit, sort |-> <<>>]
NoView == [PlainView EXCEPT !.table = FALSE]
BadView == [NoView EXCEPT !.filter = BadFilter]

ParseSortItem(raw) == [property |-> raw.property, down |-> raw.direction = "desc"]

ParseOptional(raw) == IF raw = NoFilter THEN NoFilter ELSE ParseFilter(raw)

\* A view as written may leave out its type, and the direction of a sort.
ViewOf(raw, filter) ==
  IF filter = BadFilter
     \/ \E i \in DOMAIN raw.sort : raw.sort[i].direction \notin {"", "asc", "desc"}
  THEN BadView
  ELSE [name |-> raw.name, table |-> raw.type \in {"", "table"}, filter |-> filter,
        order |-> raw.order, limit |-> raw.limit,
        sort |-> [i \in DOMAIN raw.sort |-> ParseSortItem(raw.sort[i])]]
ParseView(raw) == ViewOf(raw, ParseOptional(raw.filter))

\* The view that is asked for, or the first that is a table.
ChooseView(views, requested) ==
  LET fit(i) == IF requested # "" THEN views[i].name = requested ELSE views[i].table
      fits == {i \in DOMAIN views : fit(i)}
  IN IF requested = "" /\ views = <<>> THEN PlainView
     ELSE IF fits = {} THEN NoView ELSE views[CHOOSE i \in fits : \A j \in fits : i <= j]

(* Mutant of CombinedFilter: the filter of the view replaces the global.    *)
CombinedFilterOfView(global, view) == IF view # NoFilter THEN view ELSE global

CombinedFilter(global, view) ==
  IF global # NoFilter /\ view # NoFilter THEN <<"and", <<global, view>>>>
  ELSE IF global # NoFilter THEN global ELSE view

\* A document with an error in any of its views is bad as a whole.
QueryOf(global, views, view) ==
  IF global = BadFilter \/ BadView \in ToSet(views) \/ ~ view.table
  THEN [filter |-> BadFilter, view |-> NoView]
  ELSE [filter |-> CombinedFilter(global, view.filter),
        view |-> IF view.order = <<>> THEN [view EXCEPT !.order = DefaultOrder] ELSE view]
ParseDocument(document, requested) ==
  LET views == [i \in DOMAIN document.views |-> ParseView(document.views[i])]
  IN QueryOf(ParseOptional(document.filter), views, ChooseView(views, requested))

-----------------------------------------------------------------------------
(* The table.                                                               *)

FrontmatterPath(note, path) ==
  FoldLeft(LAMBDA v, name : IF Kind(v) = "object" /\ name \in DOMAIN Of(v) THEN Of(v)[name] ELSE Missing,
           <<"object", note.frontmatter>>, path)

Property(note, id) ==
  CASE id[1] = "file" -> FileProperty(note, id[2]) [] id[1] = "note" -> FrontmatterPath(note, id[2])
    [] OTHER -> Failed

Least(a, b) == IF a < b THEN a ELSE b

AsJson(v) == CASE Kind(v) \in {"missing", "file", "note", "formula"} -> Null
               [] Kind(v) = "date" -> <<"text", AsText(v)>> [] OTHER -> v

\* Where the JSON of a value stands among texts: by its first character.
JsonClass(v) ==
  CASE Kind(v) = "text" -> 1 [] Kind(v) = "number" -> 2 [] Kind(v) = "list" -> 3
    [] v = Truth(FALSE) -> 4 [] Kind(v) = "null" -> 5 [] v = Truth(TRUE) -> 6 [] OTHER -> 7
\* Lists of texts are told apart by the first that differs; "," precedes "]".
ListOrder(s, t) ==
  LET differ == {i \in 1..Least(Len(s), Len(t)) : s[i] # t[i]}
      i == CHOOSE k \in differ : \A l \in differ : k <= l
  IN IF differ = {} THEN Sign(Len(t) - Len(s)) ELSE Sign(Of(s[i]) - Of(t[i]))
JsonOrder(v, w) ==
  IF Kind(v) = Kind(w) /\ Kind(v) = "text" THEN Sign(Of(v) - Of(w))
  ELSE IF Kind(v) = Kind(w) /\ Kind(v) = "list" THEN ListOrder(Of(v), Of(w))
  ELSE Sign(JsonClass(v) - JsonClass(w))

\* By dates or numbers where both are such, otherwise as JSON texts.
CompareProperty(v, w) ==
  IF Fails(v) \/ Fails(w) THEN Sign((IF Fails(v) THEN 1 ELSE 0) - (IF Fails(w) THEN 1 ELSE 0))
  ELSE IF CompareValues(v, w) # Unordered THEN CompareValues(v, w) ELSE JsonOrder(AsJson(v), AsJson(w))

CompareCandidates(a, b, sort) ==
  LET by(spec) == LET c == CompareProperty(Property(a, spec.property), Property(b, spec.property))
                  IN IF spec.down THEN 0 - c ELSE c
      c == FoldLeft(LAMBDA acc, spec : IF acc # 0 THEN acc ELSE by(spec), 0, sort)
  IN IF c # 0 THEN c ELSE Sign(a.path - b.path)

\* A stable sort: each note goes behind the last that does not belong after it.
Sorted(notes, sort) ==
  LET insert(done, n) ==
        LET notAfter == {i \in DOMAIN done : CompareCandidates(n, done[i], sort) # -1}
            k == CHOOSE i \in notAfter \cup {0} : \A j \in notAfter : j <= i
        IN SubSeq(done, 1, k) \o <<n>> \o SubSeq(done, k + 1, Len(done))
  IN FoldLeft(insert, <<>>, SetToSortSeq(notes, LAMBDA a, b : a.path < b.path))

\* Nothing, one type, or mixed.
ColumnType(rows, i) ==
  LET type(v) == IF Kind(v) = "text" /\ AsDate(v) # NoDate THEN "date" ELSE Kind(v)
      types == {type(r.cells[i]) : r \in {x \in ToSet(rows) : Kind(x.cells[i]) # "null"}}
  IN IF types = {} THEN "empty" ELSE IF Cardinality(types) > 1 THEN "mixed" ELSE CHOOSE t \in types : TRUE

NoTable == [rows |-> <<>>, total |-> -1, truncated |-> FALSE, types |-> <<>>]
\* How many rows the server, the request and the view allow.
EffectiveLimit(limit, view) ==
  LET most == IF MaxRows = 0 THEN 1 ELSE MaxRows
      asked == IF limit = NoLimit THEN most ELSE limit
      shown == IF view.limit = NoLimit THEN DefaultRows ELSE view.limit
  IN Least(Least(asked, most), Least(shown, most))

Table(sorted, verdict, order, limit) ==
  LET matched == SelectSeq(sorted, LAMBDA n : verdict[n] = "yes")
      rows == [i \in DOMAIN matched |-> [path |-> matched[i].path,
                                         cells |-> [k \in DOMAIN order |-> AsJson(Property(matched[i], order[k]))]]]
  IN [rows |-> SubSeq(rows, 1, Least(limit, Len(rows))), total |-> Len(rows),
      truncated |-> Len(rows) > limit, types |-> [k \in DOMAIN order |-> ColumnType(rows, k)]]

Verdicts(filter, notes) == [n \in notes |-> IF filter = NoFilter THEN "yes" ELSE EvalFilter(filter, n)]

\* One failure anywhere, and there is no table.
TableOf(query, verdict, limit) ==
  LET notes == DOMAIN verdict
      order == query.view.order
      fails == \E n \in notes :
        verdict[n] = "fails" \/ (verdict[n] = "yes" /\ \E i \in DOMAIN order : Fails(Property(n, order[i])))
  IN IF fails THEN NoTable
     ELSE Table(Sorted(notes, query.view.sort), verdict, order, EffectiveLimit(limit, query.view))
ExecuteParsed(query, limit, notes) ==
  IF query.filter = BadFilter THEN NoTable ELSE TableOf(query, Verdicts(query.filter, notes), limit)
Execute(document, requested, limit, notes) == ExecuteParsed(ParseDocument(document, requested), limit, notes)

-----------------------------------------------------------------------------
(* Reference.                                                               *)

Level(tree) ==
  CASE tree[1] = "binary" -> CHOOSE l \in DOMAIN Operators : tree[2] \in Operators[l]
    [] tree[1] = "not" -> Unary [] OTHER -> Postfix

\* A tree as tokens, with parentheses only where they are needed.
RECURSIVE Written(_, _)
Written(tree, level) ==
  LET args == FoldLeftDomain(LAMBDA acc, i : acc \o (IF i = 1 THEN <<>> ELSE <<Sym(",")>>)
                               \o Written(tree[3][i], 1), <<>>, tree[3])
      plain ==
        CASE tree[1] = "literal" -> <<IF Kind(tree[2]) = "null" THEN <<"name", "null">>
                                      ELSE IF Kind(tree[2]) = "bool"
                                      THEN <<"name", IF Truthy(tree[2]) THEN "true" ELSE "false">>
                                      ELSE tree[2]>>
          [] tree[1] = "name" -> <<<<"name", tree[2]>>>>
          [] tree[1] = "member" -> Written(tree[2], Postfix) \o <<Sym("."), <<"name", tree[3]>>>>
          [] tree[1] = "index" -> Written(tree[2], Postfix) \o <<Sym("[")>> \o Written(tree[3], 1) \o <<Sym("]")>>
          [] tree[1] = "call" -> Written(tree[2], Postfix) \o <<Sym("(")>> \o args \o <<Sym(")")>>
          [] tree[1] = "not" -> <<Sym("!")>> \o Written(tree[2], Unary)
          [] tree[1] = "binary" -> Written(tree[3], Level(tree)) \o <<Sym(tree[2])>>
                                     \o Written(tree[4], Level(tree) + 1)
  IN IF Level(tree) < level THEN <<Sym("(")>> \o plain \o <<Sym(")")>> ELSE plain

\* Three-valued logic, whatever the order of the parts.
RECURSIVE Logic(_, _)
Logic(node, note) ==
  LET values == {Logic(node[2][i], note) : i \in DOMAIN node[2]}
  IN CASE node[1] = "expr" -> EvalFilter(node, note)
       [] node[1] = "not" -> LET v == Logic(node[2], note)
                             IN CASE v = "yes" -> "no" [] v = "no" -> "yes" [] OTHER -> "fails"
       [] node[1] = "and" -> IF "no" \in values THEN "no" ELSE IF "fails" \in values THEN "fails" ELSE "yes"
       [] node[1] = "or" -> IF "yes" \in values THEN "yes" ELSE IF "fails" \in values THEN "fails" ELSE "no"

\* A cell is of a type, and a date is a text that reads as one.
IsOfType(cell, type) ==
  LET dated == Kind(cell) = "text" /\ AsDate(cell) # NoDate
  IN IF type = "date" THEN dated ELSE Kind(cell) = type /\ ~ dated

\* The type that all cells of a column have which are there, shown or not.
IsColumnType(cells, type) ==
  CASE type = "empty" -> cells = {}
    [] type = "mixed" -> \E a, b \in cells : \A t \in {Kind(a), "date"} : ~ (IsOfType(a, t) /\ IsOfType(b, t))
    [] OTHER -> cells # {} /\ \A cell \in cells : IsOfType(cell, type)

RECURSIVE SomeFails(_, _)
SomeFails(node, note) ==
  CASE node[1] = "expr" -> EvalFilter(node, note) = "fails" [] node[1] = "not" -> SomeFails(node[2], note)
    [] node[1] \in {"and", "or"} -> \E i \in DOMAIN node[2] : SomeFails(node[2][i], note)

IsTable(q, table) ==
  LET views == [i \in DOMAIN q.document.views |-> ParseView(q.document.views[i])]
      global == ParseOptional(q.document.filter)
      view == ChooseView(views, q.view)
      all == <<"and", SetToSeq({global, view.filter} \ {NoFilter})>>
      order == IF view.order = <<>> THEN DefaultOrder ELSE view.order
      bad == global = BadFilter \/ BadView \in ToSet(views)
      fails(n) == SomeFails(all, n) \/ \E i \in DOMAIN order : Fails(Property(n, order[i]))
      wanted == {n \in q.notes : Logic(all, n) = "yes"}
      row(i) == CHOOSE n \in wanted : n.path = table.rows[i].path
      shown == {row(i) : i \in DOMAIN table.rows}
  IN IF table = NoTable THEN bad \/ ~ view.table \/ \E n \in q.notes : fails(n)
     ELSE /\ ~ bad /\ \A n \in q.notes : Logic(all, n) # "fails"
          /\ table.total = Cardinality(wanted) /\ Cardinality(shown) = Len(table.rows)
          /\ Len(table.rows) = Least(table.total, EffectiveLimit(q.limit, view))
          /\ table.truncated = (Len(table.rows) < table.total)
          /\ \A i \in DOMAIN table.rows :
               \A n \in wanted \ {row(j) : j \in 1..i} : CompareCandidates(row(i), n, view.sort) = -1
          /\ \A i \in DOMAIN table.rows, k \in DOMAIN order :
               table.rows[i].cells[k] = AsJson(Property(row(i), order[k]))
          /\ \A k \in DOMAIN order :
               LET cells == {AsJson(Property(n, order[k])) : n \in wanted}
               IN IsColumnType({v \in cells : Kind(v) # "null"}, table.types[k])
=============================================================================
