----------------------------- MODULE XmlParser -----------------------------
(***************************************************************************)
(* XMLDocument::Parse.  The parser is a record s:                          *)
(*   text   _charBuffer;  p  the position in it                            *)
(*   doc    the document built so far                                      *)
(*   stack  the nodes whose XMLNode::ParseDeep is running, the document    *)
(*          first                                                          *)
(*   ret    what the innermost of these calls is about to return: the      *)
(*          position (0 is the null pointer) and the end tag it has read   *)
(* Each step is an operator on s; XmlDocument runs them.                   *)
(***************************************************************************)
EXTENDS XmlNode

CONSTANTS TINYXML2_MAX_ELEMENT_DEPTH

Running == [p |-> NULL, endTag |-> <<>>]
Null == [p |-> 0, endTag |-> <<>>]
Self(s) == PeekTop(s.stack)

(* -- XMLDocument::Identify -------------------------------------------------- *)
Headers == <<[kind |-> "declaration", mark |-> Str("<?")], [kind |-> "comment", mark |-> Str("<!--")],
             [kind |-> "cdata", mark |-> Str("<![CDATA[")], [kind |-> "unknown", mark |-> Str("<!")],
             [kind |-> "element", mark |-> Str("<")]>>
(* The kind of what comes next, and where its content begins.  Text begins *)
(* before the white space.                                                 *)
Identify(text, p) ==
    LET q    == SkipWhiteSpace(text, p)
        hits == {i \in 1..Len(Headers) : StandsAt(text, q, Headers[i].mark)}
        h    == Headers[CHOOSE i \in hits : \A j \in hits : i <= j]
    IN IF At(text, q) = 0 THEN [kind |-> "none", at |-> q]
       ELSE IF hits = {} THEN [kind |-> "text", at |-> p]
       ELSE [kind |-> h.kind, at |-> q + Len(h.mark)]

(* -- ParseText, ParseName, the attributes ----------------------------------- *)
(* The text up to a tag and the position behind the tag; next = 0 if the   *)
(* tag does not come.                                                      *)
ParseText(text, p, endTag, flags) ==
    LET q == Find(text, p, endTag)
    IN IF q = 0 THEN [next |-> 0, value |-> Reset]
       ELSE [next |-> q + Len(endTag), value |-> StrPair(SubSeq(text, p, q - 1), flags)]

ParseName(text, p) ==
    LET rest == {i \in (p + 1)..(Len(text) + 1) : ~IsNameChar(At(text, i)) \/ i > Len(text)}
        q    == CHOOSE i \in rest : \A j \in rest : i <= j
    IN IF At(text, p) = 0 \/ ~IsNameStartChar(At(text, p)) THEN [next |-> 0, value |-> Reset]
       ELSE [next |-> q, value |-> StrPair(SubSeq(text, p, q - 1), {})]

(* One attribute behind its name; next = 0 if it is malformed.             *)
AttributeNamed(text, name) ==
    LET eq    == SkipWhiteSpace(text, name.next)
        quote == SkipWhiteSpace(text, eq + 1)
        With(value) == [next |-> value.next, name |-> name.value, value |-> value.value]
    IN IF /\ name.next /= 0 /\ At(text, name.next) /= 0 /\ At(text, eq) = Ch("=")
          /\ At(text, quote) \in {Ch("\""), Ch("'")}
       THEN With(ParseText(text, quote + 1, <<text[quote]>>, ATTRIBUTE_VALUE))
       ELSE With([next |-> 0, value |-> name.value])
ParseAttribute(text, p) == AttributeNamed(text, ParseName(text, p))

(* The attributes and the end of a tag; closing as it was unless the tag   *)
(* ends in "/>".                                                           *)
Tag(next, closing, attributes, error) ==
    [next |-> next, closing |-> closing, attributes |-> attributes, error |-> error]
RECURSIVE ParseAttributes(_, _, _, _), AddAttribute(_, _, _, _)
AddAttribute(text, a, closing, attributes) ==
    IF a.next = 0 \/ \E i \in 1..Len(attributes) : attributes[i].name.raw = a.name.raw
    THEN Tag(0, closing, attributes, "XML_ERROR_PARSING_ATTRIBUTE")
    ELSE ParseAttributes(text, a.next, closing, Append(attributes, [name |-> a.name, value |-> a.value]))
ParseAttributes(text, p, closing, attributes) ==
    LET q == SkipWhiteSpace(text, p)
    IN IF At(text, q) = 0 THEN Tag(0, closing, attributes, "XML_ERROR_PARSING_ELEMENT")
       ELSE IF IsNameStartChar(At(text, q)) THEN AddAttribute(text, ParseAttribute(text, q), closing, attributes)
       ELSE IF At(text, q) = Ch(">") THEN Tag(q + 1, closing, attributes, "XML_SUCCESS")
       ELSE IF StandsAt(text, q, Str("/>")) THEN Tag(q + 2, "CLOSED", attributes, "XML_SUCCESS")
       ELSE Tag(0, closing, attributes, "XML_ERROR_PARSING_ELEMENT")

(* -- XMLNode::ParseDeep ------------------------------------------------------- *)
PushDepth(d) ==
    LET e == [d EXCEPT !.depth = @ + 1]
    IN IF e.depth = TINYXML2_MAX_ELEMENT_DEPTH THEN SetError(e, "XML_ELEMENT_DEPTH_EXCEEDED") ELSE e
PopDepth(d) == [d EXCEPT !.depth = @ - 1]

(* ParseDeep of a node is called: its depth is counted, and an error ends  *)
(* it at once.                                                             *)
ParseDeep(s, d, node, q) ==
    LET e == PushDepth(d)
    IN [s EXCEPT !.doc = e, !.p = q, !.stack = Push(@, node), !.ret = IF Error(e) THEN Null ELSE Running]

(* The loop is left: the node that was being read is deleted.              *)
GiveUpKeeping(s, d, node, error) ==
    [s EXCEPT !.doc = IF Error(d) THEN d ELSE SetError(d, error), !.ret = Null]
GiveUp(s, d, node, error) ==
    [s EXCEPT !.doc = DeleteNode(IF Error(d) THEN d ELSE SetError(d, error), node), !.ret = Null]

(* Declarations come first, and in the document only.                      *)
WellLocated(d, self) ==
    LET first == d.node[self].first
        last  == d.node[self].last
    IN self = 0 /\ (first = NULL \/ (d.node[first].kind = "declaration" /\ d.node[last].kind = "declaration"))

MismatchByLength(d, node, endTag) ==
    IF endTag = <<>> THEN d.node[node].closing = "OPEN"
    ELSE d.node[node].closing /= "OPEN" \/ Len(endTag) /= Len(Value(d, node))
Mismatch(d, node, endTag) ==
    IF endTag = <<>> THEN d.node[node].closing = "OPEN"
    ELSE d.node[node].closing /= "OPEN" \/ endTag /= Value(d, node)

(* What ParseDeep does with a child whose own ParseDeep has returned.  A   *)
(* closing tag is handed to the parent, and the loop is left.              *)
ChildParsed(s, d, node, q, endTag) ==
    LET n     == d.node[node]
        moved == TransferTo(n.value)
    IN IF q = 0 THEN GiveUp(s, d, node, "XML_ERROR_PARSING")
       ELSE IF n.kind = "declaration" /\ ~WellLocated(d, Self(s))
            THEN GiveUp(s, d, node, "XML_ERROR_PARSING_DECLARATION")
       ELSE IF n.kind = "element" /\ n.closing = "CLOSING"
            THEN [s EXCEPT !.doc = DeleteNode([SetTracked(d, "element") EXCEPT !.node[node].value = moved.left], node),
                           !.ret = [p |-> q, endTag |-> GetStr(moved.to)]]
       ELSE IF n.kind = "element" /\ Mismatch(d, node, endTag)
            THEN GiveUp(s, d, node, "XML_ERROR_MISMATCHED_ELEMENT")
       ELSE [s EXCEPT !.doc = InsertEndChild(d, Self(s), node), !.p = q]

(* A node that is a single text: made, read up to its end tag, judged.     *)
LeafParsed(s, kind, cdata, t, next, error) ==
    LET node == Alloc(s.doc)
        made == [CreateUnlinkedNode(s.doc, kind, t.value) EXCEPT !.node[node].cdata = cdata]
    IN ChildParsed(s, IF t.next = 0 THEN SetError(made, error) ELSE made, node, next, <<>>)
ReadMarkup(s, kind, cdata, t, error) == LeafParsed(s, kind, cdata, t, t.next, error)
Content(s, endTag) == ParseText(s.text, Identify(s.text, s.p).at, Str(endTag), {NEWLINES})
ReadDeclaration(s) ==
    ReadMarkup(s, "declaration", FALSE, Content(s, "?>"), "XML_ERROR_PARSING_DECLARATION")
ReadComment(s) == ReadMarkup(s, "comment", FALSE, Content(s, "-->"), "XML_ERROR_PARSING_COMMENT")
ReadUnknown(s) == ReadMarkup(s, "unknown", FALSE, Content(s, ">"), "XML_ERROR_PARSING_UNKNOWN")

(* XMLText::ParseDeep.  The '<' that ends a text is read again, unless the *)
(* buffer ends behind it.                                                  *)
ReadCData(s) == ReadMarkup(s, "text", TRUE, Content(s, "]]>"), "XML_ERROR_PARSING_CDATA")
TextParsed(s, t) ==
    LeafParsed(s, "text", FALSE, t, IF At(s.text, t.next) = 0 THEN 0 ELSE t.next - 1, "XML_ERROR_PARSING_TEXT")
ReadText(s) == TextParsed(s, ParseText(s.text, s.p, Str("<"), TEXT_ELEMENT))

(* XMLElement::ParseDeep: the name, the attributes, and the children if    *)
(* the tag opens the element and is not the end of the buffer.             *)
ElementTagged(s, name, tag) ==
    LET node  == Alloc(s.doc)
        made  == CreateUnlinkedNode(s.doc, "element", name.value)
        e     == [CreateAttributes(made, Len(tag.attributes)) EXCEPT
                     !.node[node].closing = tag.closing, !.node[node].attributes = tag.attributes,
                     !.error = tag.error]
    IN IF name.next = 0 THEN ChildParsed(s, made, node, 0, <<>>)
       ELSE IF tag.next = 0 \/ At(s.text, tag.next) = 0 \/ tag.closing /= "OPEN"
            THEN ChildParsed(s, e, node, tag.next, <<>>)
       ELSE ParseDeep(s, e, node, tag.next)
ElementNamed(s, closing, name) == ElementTagged(s, name, ParseAttributes(s.text, name.next, closing, <<>>))
ElementAt(s, at) ==
    IF At(s.text, at) = Ch("/") THEN ElementNamed(s, "CLOSING", ParseName(s.text, at + 1))
    ELSE ElementNamed(s, "OPEN", ParseName(s.text, at))
ReadElement(s) == ElementAt(s, SkipWhiteSpace(s.text, Identify(s.text, s.p).at))

(* The text is over: the loop ends and returns the null pointer.           *)
ReadNothing(s) == [s EXCEPT !.ret = Null]

(* The innermost ParseDeep returns to the one that called it.              *)
Return(s) ==
    LET d   == PopDepth(s.doc)
        out == [s EXCEPT !.stack = PopArr(@), !.ret = Running]
    IN IF out.stack = <<>> THEN [out EXCEPT !.doc = d, !.p = 0]
       ELSE ChildParsed(out, d, Self(s), s.ret.p, s.ret.endTag)

Ahead(s) == IF At(s.text, s.p) = 0 THEN "none" ELSE Identify(s.text, s.p).kind

(* -- XMLDocument::Parse -------------------------------------------------------- *)
(* A byte order mark is remembered.  Whatever is behind a zero is not read. *)
ReadBOM(text, p) ==
    LET bom == StandsAt(text, p, Bom) IN [next |-> IF bom THEN p + 3 ELSE p, bom |-> bom]
BeginParse(d, data) ==
    LET text == CString(data)
        from == ReadBOM(text, SkipWhiteSpace(text, 1))
        c    == [Clear(d) EXCEPT !.bom = IF text = <<>> THEN @ ELSE from.bom]
        s    == [text |-> text, p |-> from.next, doc |-> c, stack |-> <<>>, ret |-> Running]
    IN IF At(text, from.next) = 0 THEN [s EXCEPT !.doc = SetError(c, "XML_ERROR_EMPTY_DOCUMENT"), !.p = 0]
       ELSE ParseDeep(s, c, 0, from.next)

(* After an error the document is emptied and the pools give up their      *)
(* blocks, with whatever is still in them.                                 *)
EndParse(d) ==
    LET e == DeleteChildren(d, 0)
    IN IF ~Error(d) THEN d
       ELSE [ClearPools(e) EXCEPT !.node = (0 :> e.node[0])]

(* XmlReader::Get and WXBizMsgCrypt::GetXmlField: the text of a field of   *)
(* the element "xml".                                                      *)
FieldOf(d, xml, msg) ==
    IF xml = NULL THEN <<FALSE>> ELSE IF msg = NULL THEN <<FALSE>> ELSE GetText(d, msg)
FieldIn(d, xml, field) == FieldOf(d, xml, FirstChildElement(d, xml, field))
GetField(d, field) == FieldIn(d, FirstChildElement(d, 0, Str("xml")), field)
=============================================================================
