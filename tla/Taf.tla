-------------------------------- MODULE Taf ---------------------------------
(***************************************************************************)
(* Bu::TafGroup, TafWriter and TafReader (src/stable/tafgroup.cpp,         *)
(* tafwriter.cpp, tafreader.cpp): a tree of groups, properties and         *)
(* comments, written as text and read back with one character of look      *)
(* ahead, which is not taken behind a closing brace.  A character of the   *)
(* text is itself, "nl" is the newline.  A child of a group is known by    *)
(* its index in lChildren, where the code keeps a pointer.  core is the    *)
(* tree with the path of the group that is being filled; abs its text once *)
(* it is written, and the group a reader made of it.                       *)
(***************************************************************************)
EXTENDS Integers, SequencesExt, FiniteSetsExt

CONSTANTS Strings,        \* the names and values of groups and properties
          Comments,       \* <<text, bEOL>>
          MaxNodes        \* bound: nodes below the root

VARIABLES core, abs
vars == <<core, abs>>

Void == [x \in {} |-> <<>>]
Node(t, n, v) == [type |-> t, sName |-> n, sValue |-> v, lChildren |-> <<>>, hChildren |-> Void, hProp |-> Void]
-----------------------------------------------------------------------------
\* TafGroup

\* A list in a hash: it is made when its name is new.
Filed(h, n, x) == [m \in DOMAIN h \cup {n} |-> IF m # n THEN h[m] ELSE IF n \in DOMAIN h THEN Append(h[n], x) ELSE <<x>>]

\* Mutant: a second child of the name takes the first one's place.
ReplacesChild(g, p) ==
    LET at == Len(g.lChildren) + 1
        h == [g EXCEPT !.lChildren = Append(@, p)]
    IN  CASE p.type = "group" -> [h EXCEPT !.hChildren = [x \in {p.sName} |-> <<at>>] @@ @]
          [] p.type = "property" -> [h EXCEPT !.hProp = [x \in {p.sName} |-> <<p.sValue>>] @@ @]
          [] p.type = "comment" -> h

addChild(g, p) ==
    LET at == Len(g.lChildren) + 1
        h == [g EXCEPT !.lChildren = Append(@, p)]
    IN  CASE p.type = "group" -> [h EXCEPT !.hChildren = Filed(@, p.sName, at)]
          [] p.type = "property" -> [h EXCEPT !.hProp = Filed(@, p.sName, p.sValue)]
          [] p.type = "comment" -> h

\* The copy constructor adds copies of the children, which files them anew.
RECURSIVE Copy(_)
Copy(g) == FoldLeft(LAMBDA h, p : addChild(h, IF p.type = "group" THEN Copy(p) ELSE p), Node("group", g.sName, <<>>), g.lChildren)

\* The lookups throw (NoNode, NoValue) when there is no list of the name.
NoNode == Node("none", <<>>, <<>>)
NoValue == <<"none">>
getChild(g, n) == IF n \in DOMAIN g.hChildren THEN g.lChildren[Head(g.hChildren[n])] ELSE NoNode
getProperty(g, n) == IF n \in DOMAIN g.hProp THEN Head(g.hProp[n]) ELSE NoValue
getChildByPath(g, path) == FoldLeft(getChild, g, path)
getByPath(g, path) == getProperty(getChildByPath(g, Front(path)), Last(path))
-----------------------------------------------------------------------------
\* TafWriter; the blanks ident() writes are left out, the reader skips them as it does the newline.

Escapes == [nl |-> <<"0", "A">>]          \* the characters < 32 or > 126
Escape(ch) == CASE ch = "\"" -> <<"\\", "\"">>
                [] ch = "\\" -> <<"\\", "\\">>
                [] ch \in DOMAIN Escapes -> <<"\\", "x">> \o Escapes[ch]
                [] OTHER -> <<ch>>

\* Mutant: a backslash is written as it is.
BackslashRaw(s) == <<"\"">> \o FlattenSeq([k \in DOMAIN s |-> IF s[k] = "\\" THEN <<"\\">> ELSE Escape(s[k])]) \o <<"\"">>

writeString(s) == <<"\"">> \o FlattenSeq([k \in DOMAIN s |-> Escape(s[k])]) \o <<"\"">>

writeProperty(p) == (IF p.sName = <<>> THEN <<>> ELSE writeString(p.sName) \o <<"=">>) \o writeString(p.sValue) \o <<"nl">>

\* sName of a comment says whether it goes to the end of the line.
writeComment(p) == IF p.sName = <<"eol">> THEN <<"/", "/">> \o p.sValue \o <<"nl">>
                   ELSE <<"/", "*">> \o p.sValue \o <<"*", "/", " ">>

RECURSIVE writeGroup(_)
writeGroup(g) ==
    LET child(p) == CASE p.type = "group" -> writeGroup(p)
                      [] p.type = "property" -> writeProperty(p)
                      [] p.type = "comment" -> writeComment(p)
    IN  <<"{">> \o (IF g.sName = <<>> THEN <<>> ELSE writeString(g.sName)) \o <<":", "nl">>
        \o FlattenSeq([k \in DOMAIN g.lChildren |-> child(g.lChildren[k])]) \o <<"}", "nl">>
-----------------------------------------------------------------------------
\* TafReader: r.c and r.la are the character and the one behind it, r.bad that it threw.

Threw(r) == [r EXCEPT !.bad = TRUE]
rawread(r, field) == IF r.bad \/ r.in = <<>> THEN Threw(r)
                     ELSE [r EXCEPT ![field] = Head(r.in), !.in = Tail(@)]

lookAhead(r) == IF r.c # "}" THEN rawread(r, "la") ELSE r

next(r) == lookAhead(IF r.c = "}" THEN rawread(r, "c") ELSE [r EXCEPT !.c = r.la])

isws(r) == r.c \in {" ", "nl"}

RECURSIVE ws(_)
ws(r) == IF r.bad \/ ~isws(r) THEN r ELSE ws(next(r))

\* The character of two digits; each reader below is past the one before it.
byCode(high, low) ==
    IF low.bad \/ \A ch \in DOMAIN Escapes : Escapes[ch] # <<high.c, low.c>> THEN low
    ELSE [low EXCEPT !.c = CHOOSE ch \in DOMAIN Escapes : Escapes[ch] = <<high.c, low.c>>]

\* The character an escape sequence stands for takes the place of c.
unescaped(e) == CASE e.bad -> e
                  [] e.c = "x" -> byCode(next(e), next(next(e)))
                  [] e.c \in {"\"", "\\"} -> e
                  [] e.c = "n" -> [e EXCEPT !.c = "nl"]
                  [] OTHER -> Threw(e)

\* <<reader, string>>
RECURSIVE quoted(_, _), quotedOne(_, _)
quotedOne(r, s) == IF r.bad THEN <<r, s>> ELSE quoted(next(r), Append(s, r.c))
quoted(r, s) == IF ~r.bad /\ r.c = "\"" THEN <<next(r), s>>
                ELSE quotedOne(IF r.c = "\\" THEN unescaped(next(r)) ELSE r, s)

RECURSIVE bare(_, _)
bare(r, s) == IF r.bad \/ isws(r) \/ r.c \in {"}", "{", ":", "="} THEN <<r, s>> ELSE bare(next(r), Append(s, r.c))

\* From the first character that is no blank.
strFrom(w) == IF w.c = "\"" THEN quoted(next(w), <<>>) ELSE bare(w, <<>>)
readStr(r) == strFrom(ws(r))

\* The reader and the node it has read; str is the string in front of the '=', or the value.
valued(name, str) == <<str[1], Node("property", name, str[2])>>
afterName(w, str) == IF w.c = "=" THEN valued(str, readStr(next(w))) ELSE valued(<<>>, <<w, str>>)
propertyFrom(str) == afterName(ws(str[1]), str[2])
readProperty(r) == propertyFrom(readStr(r))

RECURSIVE comment(_, _, _)
comment(n, s, eol) == IF n.bad THEN <<n, s>>
                      ELSE IF eol /\ n.c = "nl" THEN <<next(n), s>>
                      ELSE IF ~eol /\ n.c = "*" /\ n.la = "/" THEN <<next(next(n)), s>>
                      ELSE comment(next(n), Append(s, n.c), eol)

commented(t, eol) == <<t[1], Node("comment", IF eol THEN <<"eol">> ELSE <<>>, t[2])>>
readComment(r, eol) == commented(comment(next(next(r)), <<>>, eol), eol)

RECURSIVE groupContent(_, _)
\* The group that w, behind its name, starts.
groupFrom(w, name) == IF w.bad \/ w.c # ":" THEN <<Threw(w), Node("group", name, <<>>)>>
                      ELSE groupContent(next(w), Node("group", name, <<>>))
groupNamed(str) == groupFrom(ws(str[1]), str[2])
groupOpened(o) == IF o.bad \/ o.c # "{" THEN <<Threw(o), NoNode>> ELSE groupNamed(readStr(ws(next(o))))

\* Mutant: what was read of the group is returned when its text ends.
KeepsPartial(r) == LET g == groupOpened(ws(r)) IN <<[g[1] EXCEPT !.bad = FALSE], g[2]>>

readGroup(r) == groupOpened(ws(r))

\* A child, with the reader behind it, joins the group.
joined(child, g) == groupContent(child[1], addChild(g, child[2]))
behind(child) == <<next(child[1]), child[2]>>
contentFrom(w, g) ==
    CASE w.bad \/ w.c = "}" -> <<w, g>>
      [] w.c = ":" -> <<Threw(w), g>>
      [] w.c = "{" -> joined(behind(readGroup(w)), g)
      [] w.c = "/" /\ w.la \in {"*", "/"} -> joined(readComment(w, w.la = "/"), g)
      [] OTHER -> joined(readProperty(w), g)
groupContent(r, g) == contentFrom(ws(r), g)

\* The constructor reads two characters.
TafReader(text) == next(next([c |-> "0", la |-> "0", in |-> text, bad |-> FALSE]))
Parsed(text) == readGroup(TafReader(text))
-----------------------------------------------------------------------------
\* The group at the end of a path of indices, with the child added to it.
RECURSIVE Grown(_, _, _)
Grown(g, path, p) == IF path = <<>> THEN addChild(g, p)
                     ELSE [g EXCEPT !.lChildren[Head(path)] = Grown(@, Tail(path), p)]
RECURSIVE Group(_, _)
Group(g, path) == IF path = <<>> THEN g ELSE Group(g.lChildren[Head(path)], Tail(path))

Init == /\ \E n \in Strings : core = [root |-> Node("group", n, <<>>), path |-> <<>>, nodes |-> 0]
        /\ abs = [text |-> <<>>, read |-> <<>>, rest |-> <<>>]

Building == abs.text = <<>> /\ core.nodes < MaxNodes

addGroup == \E n \in Strings :
    /\ Building
    /\ core' = [root |-> Grown(core.root, core.path, Node("group", n, <<>>)), nodes |-> core.nodes + 1,
                path |-> Append(core.path, Len(Group(core.root, core.path).lChildren) + 1)]
    /\ UNCHANGED abs

addProperty == \E n, v \in Strings :
    /\ Building
    /\ core' = [core EXCEPT !.root = Grown(@, core.path, Node("property", n, v)), !.nodes = @ + 1]
    /\ UNCHANGED abs

addComment == \E t \in Comments :
    /\ Building
    /\ core' = [core EXCEPT !.root = Grown(@, core.path, Node("comment", IF t[2] THEN <<"eol">> ELSE <<>>, t[1])), !.nodes = @ + 1]
    /\ UNCHANGED abs

\* The program goes on with the group around this one.
Up == Building /\ core.path # <<>> /\ core' = [core EXCEPT !.path = Front(@)] /\ UNCHANGED abs

\* A copy of the tree is written.
Write == abs.text = <<>> /\ abs' = [abs EXCEPT !.text = writeGroup(Copy(core.root))] /\ UNCHANGED core

\* Another group follows in the stream, for a reader of its own.
Read == /\ abs.text # <<>> /\ abs.read = <<>>
        /\ LET g == Parsed(abs.text \o <<"{">>)
           IN  abs' = [abs EXCEPT !.read = IF g[1].bad THEN <<NoNode>> ELSE <<g[2]>>, !.rest = g[1].in]
        /\ UNCHANGED core

Next == addGroup \/ addProperty \/ addComment \/ Up \/ Write \/ Read

Spec == Init /\ [][Next]_vars
-----------------------------------------------------------------------------
\* What was written is read as the same tree, with the indices by name, and nothing behind the
\* group's closing brace is taken from the stream.
TextIsTheTree == abs.read # <<>> => /\ abs.read[1] = core.root
                                    /\ abs.rest = <<"nl", "{">>

\* No beginning of the text of a group is read as a group: a stream that ends early is refused.
TruncatedIsRefused ==
    abs.text # <<>> => \A k \in 0..(Len(abs.text) - 2) : Parsed(SubSeq(abs.text, 1, k))[1].bad

\* A path leads to the first group of each name and from there to the first value of the property,
\* in the order of the document.
RECURSIVE FirstOnPath(_, _)
FirstOnPath(g, path) ==
    LET ks == {k \in DOMAIN g.lChildren : /\ g.lChildren[k].sName = Head(path)
                                          /\ g.lChildren[k].type = IF Len(path) = 1 THEN "property" ELSE "group"}
    IN  IF ks = {} THEN NoValue
        ELSE IF Len(path) = 1 THEN g.lChildren[Min(ks)].sValue ELSE FirstOnPath(g.lChildren[Min(ks)], Tail(path))

PathsLeadToTheFirst ==
    \A p \in BoundedSeq(Strings, 2) \ {<<>>} : getByPath(core.root, p) = FirstOnPath(core.root, p)
=============================================================================
