------------------------------ MODULE XmlNode ------------------------------
(***************************************************************************)
(* The document model of tinyxml2: nodes that point at each other, the     *)
(* list of nodes that are in no tree yet, the pools the nodes come from,   *)
(* and the printer.  A document is a record d:                             *)
(*   node      the live nodes by their address; 0 is the XMLDocument and   *)
(*             also the null pointer of its own links                      *)
(*   unlinked  _unlinked                                                   *)
(*   pool      for each pool the items handed out and _nUntracked          *)
(*   error     _errorID;  depth  _parsingDepth;  bom  _writeBOM            *)
(* A text is a StrPair: raw bytes and the flags of what is still to be     *)
(* done to them when they are first read.  Line numbers are left out.      *)
(***************************************************************************)
EXTENDS Bytes

NULL == -1

(* -- XMLUtil and StrPair ------------------------------------------------- *)
IsWhiteSpace(c) == c \in Space
IsNameStartChar(c) == c >= 128 \/ c \in Alpha \/ c \in {Ch(":"), Ch("_")}
IsNameChar(c) == IsNameStartChar(c) \/ c \in Digit \/ c \in {Ch("."), Ch("-")}
SkipWhiteSpace(text, p) == FirstNotIn(text, p, Space)

StrPair(raw, flags) == [raw |-> raw, flags |-> flags]
Reset == StrPair(<<>>, {})
SetStr(str) == StrPair(CString(str), {})
TransferTo(pair) == [to |-> pair, left |-> Reset]
ENTITIES == "entities"
NEWLINES == "newlines"
TEXT_ELEMENT == {ENTITIES, NEWLINES}
ATTRIBUTE_VALUE == {ENTITIES, NEWLINES}

entities == [quot |-> Ch("\""), amp |-> Ch("&"), apos |-> Ch("'"), lt |-> Ch("<"), gt |-> Ch(">")]
CR == 13
LF == 10

(* UTF-8 of a number; nothing for one that has no UTF-8.                   *)
Low6(n, k) == 128 + ((n \div 64^k) % 64)
ConvertUTF32ToUTF8(n) ==
    CASE n < 128     -> <<n>>
      [] n \in 128..2047      -> <<192 + n \div 64, Low6(n, 0)>>
      [] n \in 2048..65535    -> <<224 + n \div 4096, Low6(n, 1), Low6(n, 0)>>
      [] n \in 65536..2097151 -> <<240 + n \div 262144, Low6(n, 2), Low6(n, 1), Low6(n, 0)>>
      [] OTHER       -> <<>>

(* The number written in digits of a base.  The weight of a digit and their *)
(* product are unsigned (32 bits, here the halves <<high, low>>) and wrap; *)
(* their sum is a long, and from TooLarge on it has no UTF-8.              *)
TooLarge == 2097152
Times(word, n) == <<(word[1] * n + (word[2] * n) \div 65536) % 65536, (word[2] * n) % 65536>>
Weight(base) == LET mult[k \in 0..31] == IF k = 0 THEN <<0, 1>> ELSE Times(mult[k - 1], base) IN mult
WordValue(word) == IF word[1] >= 32 THEN TooLarge ELSE 65536 * word[1] + word[2]
Scaled == [base \in {10, 16} |-> [k \in 0..31 |-> [digit \in 0..(base - 1) |-> WordValue(Times(Weight(base)[k], digit))]]]
RECURSIVE Number(_, _)
Number(digits, base) ==
    IF digits = <<>> THEN 0
    ELSE (IF Len(digits) > 32 THEN 0 ELSE Scaled[base][Len(digits) - 1][HexValue(Head(digits))]) + Number(Tail(digits), base)

(* A reference "&#...;" at p: its bytes and the position behind it, or     *)
(* next = 0 if it is none.  The digits are read backwards from the ';' to  *)
(* the last 'x' or '#', whatever stands before that.                       *)
GetCharacterRef(raw, p) ==
    LET hex  == At(raw, p + 2) = Ch("x")
        semi == FirstIn(raw, IF hex THEN p + 3 ELSE p + 2, {Ch(";")})
        last == CHOOSE i \in p..(semi - 1) : /\ raw[i] = Ch(IF hex THEN "x" ELSE "#")
                                            /\ \A j \in (i + 1)..(semi - 1) : raw[j] # raw[i]
        Valid(digits) == \A i \in 1..Len(digits) : IF hex THEN HexValue(digits[i]) >= 0 ELSE digits[i] \in Digit
        Ref(digits) == IF ~Valid(digits) THEN [next |-> 0, bytes |-> <<>>]
                       ELSE [next |-> semi + 1, bytes |-> ConvertUTF32ToUTF8(Number(digits, IF hex THEN 16 ELSE 10))]
    IN IF At(raw, p + 2) = 0 THEN [next |-> p + 1, bytes |-> <<>>]
       ELSE IF semi > Len(raw) THEN [next |-> 0, bytes |-> <<>>] ELSE Ref(SubSeq(raw, last + 1, semi - 1))

(* The table entry that stands behind the '&' at p.                        *)
EntityAt(raw, p) == {e \in DOMAIN entities : StandsAt(raw, p + 1, Str(e) \o <<Ch(";")>>)}

Special(flags) == (IF NEWLINES \in flags THEN {CR, LF} ELSE {}) \cup (IF ENTITIES \in flags THEN {Ch("&")} ELSE {})
(* GetStr works in place: it reads at p and writes at q.  What it writes   *)
(* for an unknown entity is what the buffer holds there.                   *)
RECURSIVE Flush(_, _, _, _)
Flush(raw, flags, p, out) ==
    LET next == FirstIn(raw, p, Special(flags))
        c == raw[p]
        Go(piece) == Flush(raw, flags, piece.next, out \o piece.bytes)
        LineEnd(other) == Go([next |-> IF At(raw, p + 1) = other THEN p + 2 ELSE p + 1, bytes |-> <<LF>>])
        Copy(byte) == Go([next |-> p + 1, bytes |-> <<byte>>])
        Reference(ref) == IF ref.next = 0 THEN Copy(c) ELSE Go(ref)
        stale == raw[Len(out) + 1]
        Entity(known) == IF known = {} THEN Copy(stale)
                         ELSE Go(CHOOSE piece \in {[next |-> p + 2 + Len(e), bytes |-> <<entities[e]>>] : e \in known} : TRUE)
    IN IF p > Len(raw) THEN out
       ELSE IF next > p THEN Go([next |-> next, bytes |-> SubSeq(raw, p, next - 1)])
       ELSE IF c /= Ch("&") THEN LineEnd(IF c = CR THEN LF ELSE CR)
       ELSE IF At(raw, p + 1) = Ch("#") THEN Reference(GetCharacterRef(raw, p))
       ELSE Entity(EntityAt(raw, p))
GetStr(pair) == IF pair.flags = {} THEN pair.raw ELSE CString(Flush(pair.raw, pair.flags, 1, <<>>))

(* -- nodes ---------------------------------------------------------------- *)
XMLNode(kind) ==
    [kind |-> kind, value |-> Reset, attributes |-> <<>>, closing |-> "OPEN",
     cdata |-> FALSE, parent |-> NULL, first |-> NULL, last |-> NULL, prev |-> NULL, next |-> NULL]

PoolOf(kind) == IF kind \in {"element", "text"} THEN kind ELSE "comment"
NoItems == [element |-> 0, attribute |-> 0, text |-> 0, comment |-> 0]

XMLDocument ==
    [node |-> (0 :> XMLNode("document")), unlinked |-> <<>>, allocs |-> NoItems,
     untracked |-> NoItems, error |-> "XML_SUCCESS", depth |-> 0, bom |-> FALSE]

Value(d, n) == GetStr(d.node[n].value)
Error(d) == d.error /= "XML_SUCCESS"
SetError(d, e) == [d EXCEPT !.error = e]

(* The pools: an item is taken, given back, or no longer watched.          *)
Allocate(d, pool) == [d EXCEPT !.allocs[pool] = @ + 1, !.untracked[pool] = @ + 1]
FreeItems(d, pool, items) == [d EXCEPT !.allocs[pool] = @ - items]
SetTracked(d, pool) == [d EXCEPT !.untracked[pool] = @ - 1]
ClearPools(d) == [d EXCEPT !.allocs = NoItems, !.untracked = NoItems]

(* DynArray; when one is removed the last takes its place.                 *)
Push(array, t) == Append(array, t)
PeekTop(array) == array[Len(array)]
PopArr(array) == SubSeq(array, 1, Len(array) - 1)
SwapRemove(array, i) == PopArr([array EXCEPT ![i] = PeekTop(array)])

(* The address of the next node, and the node made there.                  *)
Alloc(d) == CHOOSE i \in 1..(Cardinality(DOMAIN d.node)) :
                i \notin DOMAIN d.node /\ \A j \in 1..(i - 1) : j \in DOMAIN d.node
CreateUnlinkedNode(d, kind, value) ==
    [Allocate(d, PoolOf(kind)) EXCEPT
        !.node = (Alloc(d) :> [XMLNode(kind) EXCEPT !.value = value]) @@ d.node, !.unlinked = Push(@, Alloc(d))]
(* Attributes are watched by their element from the start.                 *)
CreateAttributes(d, items) == [d EXCEPT !.allocs["attribute"] = @ + items]
NewElement(d, name) == CreateUnlinkedNode(d, "element", SetStr(name))
NewText(d, value) == CreateUnlinkedNode(d, "text", SetStr(value))

MarkInUse(d, n) ==
    LET at == {i \in 1..Len(d.unlinked) : d.unlinked[i] = n}
    IN IF at = {} THEN d
       ELSE [d EXCEPT !.unlinked = SwapRemove(@, CHOOSE i \in at : \A j \in at : i <= j)]

(* A field of the node at n, when there is one.                            *)
Point(nodes, n, field, to) == IF n = NULL THEN nodes ELSE [nodes EXCEPT ![n][field] = to]

Unlink(d, child) ==
    LET c  == d.node[child]
        up == d.node[c.parent]
        n1 == Point(d.node, c.parent, "first", IF up.first = child THEN c.next ELSE up.first)
        n2 == Point(n1, c.parent, "last", IF up.last = child THEN c.prev ELSE up.last)
        n3 == Point(n2, c.prev, "next", c.next)
        n4 == Point(n3, c.next, "prev", c.prev)
    IN [d EXCEPT !.node = [n4 EXCEPT ![child].next = NULL, ![child].prev = NULL,
                                     ![child].parent = NULL]]

InsertChildPreamble(d, n) ==
    IF d.node[n].parent /= NULL THEN Unlink(d, n)
    ELSE SetTracked(MarkInUse(d, n), PoolOf(d.node[n].kind))

InsertEndChild(d, self, n) ==
    LET e    == InsertChildPreamble(d, n)
        last == e.node[self].last
        n1   == Point(e.node, last, "next", n)
        n2   == Point(n1, self, "last", n)
        n3   == IF last = NULL THEN Point(n2, self, "first", n) ELSE n2
    IN [e EXCEPT !.node = [n3 EXCEPT ![n].prev = last, ![n].next = NULL, ![n].parent = self]]

(* DeleteNode runs the destructors, which delete the children first and    *)
(* free the attributes, and frees the item.                                *)
RECURSIVE DeleteNode(_, _), DeleteChildren(_, _)
Destruct(d, n) ==
    LET e == DeleteChildren(d, n) IN IF e.node[n].parent /= NULL THEN Unlink(e, n) ELSE e
DeleteAttributes(d, items) == FreeItems(d, "attribute", items)
DestructElement(d, n) == DeleteAttributes(d, Len(d.node[n].attributes))
DeleteNode(d, n) ==
    LET e == FreeItems(DestructElement(Destruct(MarkInUse(d, n), n), n), PoolOf(d.node[n].kind), 1)
    IN [e EXCEPT !.node = [i \in DOMAIN @ \ {n} |-> @[i]]]
DeleteChildren(d, self) ==
    LET child == d.node[self].first
    IN IF child = NULL THEN [d EXCEPT !.node[self].last = NULL]
       ELSE DeleteChildren(DeleteNode(Unlink(d, child), child), self)

(* XMLDocument::DeleteNode of a node that is in no tree.                   *)
RECURSIVE DeleteUnlinked(_)
DeleteUnlinked(d) ==
    IF d.unlinked = <<>> THEN d
    ELSE LET n == d.unlinked[1]
         IN DeleteUnlinked(DeleteNode(SetTracked(d, PoolOf(d.node[n].kind)), n))
Clear(d) == [DeleteUnlinked(DeleteChildren(d, 0)) EXCEPT !.error = "XML_SUCCESS", !.depth = 0]

(* The children of a node in order, by following the links.                *)
RECURSIVE Siblings(_, _)
Siblings(d, n) == IF n = NULL THEN <<>> ELSE <<n>> \o Siblings(d, d.node[n].next)
Children(d, n) == Siblings(d, d.node[n].first)

RECURSIVE FirstNamed(_, _, _)
FirstNamed(d, n, name) ==
    IF n = NULL \/ (d.node[n].kind = "element" /\ Value(d, n) = name) THEN n
    ELSE FirstNamed(d, d.node[n].next, name)
FirstChildElement(d, n, name) == FirstNamed(d, d.node[n].first, name)

(* The text of an element, <<FALSE>> if its first child is no text.        *)
GetText(d, n) ==
    LET first == d.node[n].first
    IN IF first /= NULL /\ d.node[first].kind = "text" THEN <<TRUE, Value(d, first)>> ELSE <<FALSE>>

(* -- XMLPrinter ------------------------------------------------------------ *)
Printer(compact) == [out |-> <<>>, justOpened |-> FALSE, stack |-> <<>>, first |-> TRUE,
                     depth |-> 0, textDepth |-> -1, compact |-> compact]

Write(w, bytes) == [w EXCEPT !.out = @ \o bytes]
RECURSIVE PrintSpace(_, _)
PrintSpace(w, depth) == IF depth <= 0 THEN w ELSE PrintSpace(Write(w, Str("    ")), depth - 1)

entityFlag == {entities[e] : e \in DOMAIN entities}
restrictedEntityFlag == {Ch("&"), Ch("<"), Ch(">")}
RECURSIVE PrintString(_, _)
PrintString(text, flag) ==
    IF text = <<>> THEN <<>>
    ELSE (IF text[1] \in flag
          THEN LET e == CHOOSE e \in DOMAIN entities : entities[e] = text[1]
               IN Str("&") \o Str(e) \o Str(";")
          ELSE <<text[1]>>) \o PrintString(Tail(text), flag)

SealElementIfJustOpened(w) ==
    IF w.justOpened THEN Write([w EXCEPT !.justOpened = FALSE], Str(">")) ELSE w

(* A new line and as many blanks as the depth asks for, except within text *)
(* and in the compact mode.                                                *)
NewLine(w) == Write(w, <<LF>>)
Indent(w) == IF w.textDepth < 0 /\ ~w.compact THEN PrintSpace(NewLine(w), w.depth) ELSE w
Break(w) == IF w.first THEN w ELSE Indent(w)

OpenElement(w, name) ==
    LET Open(s) == [Write(s, Str("<") \o name) EXCEPT !.justOpened = TRUE, !.first = FALSE, !.depth = @ + 1]
        Broken(s) == IF s.textDepth < 0 /\ ~s.first /\ ~s.compact THEN NewLine(s) ELSE s
        Spaced(s) == IF s.compact THEN s ELSE PrintSpace(s, s.depth)
    IN Open(Spaced(Broken([SealElementIfJustOpened(w) EXCEPT !.stack = Push(@, name)])))

PushAttribute(w, a) ==
    Write(w, Str(" ") \o GetStr(a.name) \o Str("=\"") \o PrintString(GetStr(a.value), entityFlag) \o Str("\""))

CloseElement(w) ==
    LET name == PeekTop(w.stack)
        Tagged(s) == IF s.justOpened THEN Write(s, Str("/>")) ELSE Write(Indent(s), Str("</") \o name \o Str(">"))
        Left(s) == [s EXCEPT !.textDepth = IF @ = s.depth THEN -1 ELSE @, !.justOpened = FALSE]
        Last(s) == IF s.depth = 0 /\ ~s.compact THEN NewLine(s) ELSE s
    IN Last(Left(Tagged([w EXCEPT !.depth = @ - 1, !.stack = PopArr(@)])))

PushText(w, text, cdata) ==
    LET s == SealElementIfJustOpened([w EXCEPT !.textDepth = w.depth - 1])
    IN Write(s, IF cdata THEN Str("<![CDATA[") \o text \o Str("]]>")
                ELSE PrintString(text, restrictedEntityFlag))

(* PushComment, PushDeclaration and PushUnknown.                           *)
PushMarkup(w, open, text, close) ==
    [Write(Break(SealElementIfJustOpened(w)), Str(open) \o text \o Str(close)) EXCEPT !.first = FALSE]

RECURSIVE PushAttributes(_, _)
PushAttributes(w, attributes) ==
    IF attributes = <<>> THEN w ELSE PushAttributes(PushAttribute(w, attributes[1]), Tail(attributes))

(* Visit a node without children.                                          *)
Visit(w, n, value) ==
    CASE n.kind = "text"        -> PushText(w, value, n.cdata)
      [] n.kind = "comment"     -> PushMarkup(w, "<!--", value, "-->")
      [] n.kind = "declaration" -> PushMarkup(w, "<?", value, "?>")
      [] n.kind = "unknown"     -> PushMarkup(w, "<!", value, ">")

(* The nodes and, within an element, its children.                         *)
RECURSIVE Accept(_, _, _)
Accept(d, w, nodes) ==
    LET n == d.node[nodes[1]]
        Entered(value) == PushAttributes(OpenElement(w, value), n.attributes)
        Printed(value) ==
            IF n.kind /= "element" THEN Visit(w, n, value)
            ELSE CloseElement(Accept(d, Entered(value), Children(d, nodes[1])))
    IN IF nodes = <<>> THEN w ELSE Accept(d, Printed(Value(d, nodes[1])), Tail(nodes))
Bom == <<239, 187, 191>>
PushHeader(w, writeBOM) == IF writeBOM THEN Write(w, Bom) ELSE w
PrintDocument(d) == Accept(d, PushHeader(Printer(FALSE), d.bom), Children(d, 0)).out
=============================================================================
