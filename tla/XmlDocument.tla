---------------------------- MODULE XmlDocument ----------------------------
(***************************************************************************)
(* An XMLDocument is made, parses one text node by node and is destroyed.  *)
(* The text is known as the pieces of markup it was written from, right or *)
(* wrong.  A piece is a record: is ("open", "close", "closed" or the kind  *)
(* of a leaf), name, the value of a leaf, and its text.  Who uses a        *)
(* document takes the actions below into its own next-state relation.      *)
(***************************************************************************)
EXTENDS XmlParser

VARIABLES written,       (* the pieces of the text                          *)
          parser,        (* the parser, see XmlParser                       *)
          pc             (* "idle", "parsing", "parsed", "destroyed"        *)

xmlVars == <<written, parser, pc>>

RECURSIVE TextOf(_)
TextOf(pieces) == IF pieces = <<>> THEN <<>> ELSE pieces[1].text \o TextOf(Tail(pieces))

NewDocument == [text |-> <<>>, p |-> 0, doc |-> XMLDocument, stack |-> <<>>, ret |-> Running]
XmlInit == written = <<>> /\ pc = "idle" /\ parser = NewDocument

Parse(pieces, text) ==
    /\ pc = "idle"
    /\ written' = pieces /\ pc' = "parsing"
    /\ parser' = BeginParse(parser.doc, text)

Reads(kind) == pc = "parsing" /\ parser.stack /= <<>> /\ parser.ret = Running /\ Ahead(parser) = kind
OnNothing     == Reads("none") /\ parser' = ReadNothing(parser) /\ UNCHANGED <<written, pc>>
OnDeclaration == Reads("declaration") /\ parser' = ReadDeclaration(parser) /\ UNCHANGED <<written, pc>>
OnComment     == Reads("comment") /\ parser' = ReadComment(parser) /\ UNCHANGED <<written, pc>>
OnUnknown     == Reads("unknown") /\ parser' = ReadUnknown(parser) /\ UNCHANGED <<written, pc>>
OnCData       == Reads("cdata") /\ parser' = ReadCData(parser) /\ UNCHANGED <<written, pc>>
OnElement     == Reads("element") /\ parser' = ReadElement(parser) /\ UNCHANGED <<written, pc>>
OnText        == Reads("text") /\ parser' = ReadText(parser) /\ UNCHANGED <<written, pc>>
OnReturn ==
    /\ pc = "parsing" /\ parser.stack /= <<>> /\ parser.ret /= Running
    /\ parser' = Return(parser) /\ UNCHANGED <<written, pc>>
OnEnd ==
    /\ pc = "parsing" /\ parser.stack = <<>>
    /\ parser' = [parser EXCEPT !.doc = EndParse(@)]
    /\ pc' = "parsed" /\ UNCHANGED written
Destroy ==
    /\ pc = "parsed" /\ pc' = "destroyed"
    /\ parser' = [parser EXCEPT !.doc = Clear(@)] /\ UNCHANGED written

Construct ==
    /\ pc = "destroyed" /\ pc' = "idle" /\ written' = <<>> /\ parser' = NewDocument

ReadOn == \/ OnNothing \/ OnDeclaration \/ OnComment \/ OnUnknown \/ OnCData \/ OnElement \/ OnText
          \/ OnReturn \/ OnEnd

(***************************************************************************)
(* Memory.                                                                 *)
(***************************************************************************)
Doc == parser.doc
Live == DOMAIN Doc.node \ {0}
Members(seq) == {seq[i] : i \in 1..Len(seq)}

(* The links from a node to its children and back agree.                   *)
LinksAgree(n) ==
    LET x == Doc.node[n]
    IN /\ (x.first = NULL) <=> (x.last = NULL)
       /\ x.next /= NULL => x.next \in Live /\ Doc.node[x.next].prev = n /\ Doc.node[x.next].parent = x.parent
       /\ x.prev /= NULL => x.prev \in Live /\ Doc.node[x.prev].next = n
       /\ x.parent /= NULL => /\ x.parent \in DOMAIN Doc.node
                              /\ x.prev = NULL <=> Doc.node[x.parent].first = n
                              /\ x.next = NULL <=> Doc.node[x.parent].last = n
       /\ \A c \in {x.first, x.last} \ {NULL} : c \in Live /\ Doc.node[c].parent = n

(* The elements whose children are being read belong to nobody but the     *)
(* list of unlinked nodes.  It names live nodes only: XMLDocument::Clear   *)
(* deletes what it names, and Parse clears the pools after an error while  *)
(* the list stays as it is (tinyxml2.cpp:2117 and :2355).  Every other     *)
(* node has a parent, and all links agree.                                 *)
OnlyUnlinkedAreUnowned ==
    /\ \A n \in DOMAIN Doc.node : LinksAgree(n)
    /\ {n \in Live : Doc.node[n].parent = NULL} = Members(Doc.unlinked)
    /\ Members(Doc.unlinked) = Members(parser.stack) \ {0}

(* The pools count what is there, the depth is that of the calls, and a    *)
(* document that is destroyed has given every item back: what Clear()      *)
(* asserts in a debug build.                                               *)
PoolsAreBalanced ==
    /\ Doc.allocs["element"] + Doc.allocs["text"] + Doc.allocs["comment"] = Cardinality(Live)
    /\ Doc.depth = Len(parser.stack)
    /\ pc = "destroyed" => Doc.allocs = NoItems /\ Doc.untracked = NoItems

(* MemoryIsAccounted: every node made while parsing is in the tree or in   *)
(* the list of unlinked nodes, whatever is wrong with the text and         *)
(* wherever it is found, and goes back to its pool once.                   *)
MemoryIsAccounted == OnlyUnlinkedAreUnowned /\ PoolsAreBalanced

(***************************************************************************)
(* What is read.                                                           *)
(***************************************************************************)
(* The tree that was read.                                                 *)
RECURSIVE Tree(_)
Tree(n) ==
    LET x == Doc.node[n]
        kids == Children(Doc, n)
    IN [kind |-> x.kind, value |-> IF n = 0 THEN <<>> ELSE Value(Doc, n),
        children |-> [i \in 1..Len(kids) |-> Tree(kids[i])]]

(* The tree that was written, by the grammar: pieces up to the closing tag *)
(* of an element, or all of them.  nodes is what came before.              *)
RECURSIVE Grammar(_, _, _)
Grammar(pieces, level, nodes) ==
    LET piece == pieces[1]
        rest  == Tail(pieces)
        Node(kind, value, children) == [kind |-> kind, value |-> value, children |-> children]
        inner == Grammar(rest, level + 1, <<>>)
        Wrong == [ok |-> FALSE, nodes |-> <<>>, name |-> <<>>, rest |-> <<>>]
    IN IF pieces = <<>>
       THEN IF level = 0 THEN [ok |-> TRUE, nodes |-> nodes, name |-> <<>>, rest |-> <<>>] ELSE Wrong
       ELSE CASE piece.is = "close" -> [ok |-> TRUE, nodes |-> nodes, name |-> piece.name, rest |-> rest]
              [] piece.is = "open" ->
                    IF inner.ok /\ inner.name = piece.name /\ level + 2 < TINYXML2_MAX_ELEMENT_DEPTH
                    THEN Grammar(inner.rest, level, Append(nodes, Node("element", piece.name, inner.nodes)))
                    ELSE Wrong
              [] piece.is = "closed" ->
                    Grammar(rest, level, Append(nodes, Node("element", piece.name, <<>>)))
              [] piece.is = "declaration" ->
                    IF level = 0 /\ \A i \in 1..Len(nodes) : nodes[i].kind = "declaration"
                    THEN Grammar(rest, level, Append(nodes, Node("declaration", piece.value, <<>>)))
                    ELSE Wrong
              [] piece.is = "text" ->
                    IF rest = <<>> THEN Wrong
                    ELSE Grammar(rest, level, Append(nodes, Node("text", piece.value, <<>>)))
              [] piece.is \in {"comment", "unknown", "cdata"} ->
                    Grammar(rest, level,
                            Append(nodes, Node(IF piece.is = "cdata" THEN "text" ELSE piece.is, piece.value, <<>>)))

(* ReadAsWritten: a text is accepted if it is well formed up to a closing  *)
(* tag that closes nothing, and then the tree has what was written; every  *)
(* other text leaves an error and an empty document (tinyxml2.cpp:1010).   *)
ReadAsWritten ==
    pc = "parsed" =>
        LET g == Grammar(written, 0, <<>>)
        IN IF g.ok /\ written /= <<>>
           THEN ~Error(Doc) /\ Tree(0).children = g.nodes
           ELSE Error(Doc) /\ Doc.node[0].first = NULL
=============================================================================
