----------------------------- MODULE JsonReader -----------------------------
(***************************************************************************)
(* Json::Reader as the worker threads use it, each with a reader of its    *)
(* own and all of them with one counter, stackDepth_g.  readValue is cut   *)
(* at its accesses to the counter, which are plain loads and stores of an  *)
(* int: between a load and its store another thread may have changed it.   *)
(* The recursion of readValue, readObject and readArray is in frames, the  *)
(* containers above the value being read, each with the key it is read     *)
(* for.                                                                    *)
(***************************************************************************)
EXTENDS JsonValue

CONSTANTS
    Readers,         \* the worker threads
    stackLimit_g     \* 1000 in the code

ASSUME ReaderLimits == stackLimit_g \in Nat

VARIABLES
    stackDepth_g,    \* the static counter of all readers
    plan,            \* the texts each thread has still to read, and what they are made of
    rd,              \* the reader of each thread
    results          \* history: what each finished parse gave

vars == <<stackDepth_g, plan, rd, results>>

-----------------------------------------------------------------------------
(* Tokens: their type and the positions of their first character and of    *)
(* the one behind the last.                                                *)

skipSpaces(text, p) == FirstNotIn(text, p, {32, 9, 13, 10})

match(text, p, pattern) == IF StandsAt(text, p, pattern) THEN p + Len(pattern) ELSE 0

readCStyleComment(text, p) ==
    LET close == Find(text, p, Str("*/")) IN IF close = 0 THEN 0 ELSE close + 2

(* The end of the line, DOS or not, is part of the comment.                *)
readCppStyleComment(text, p) ==
    LET eol == FirstIn(text, p, {10, 13})
    IN IF eol > Len(text) THEN eol
       ELSE IF text[eol] = 13 /\ At(text, eol + 1) = 10 THEN eol + 2 ELSE eol + 1

readComment(text, p) ==
    IF At(text, p) = Ch("*") THEN readCStyleComment(text, p + 1)
    ELSE IF At(text, p) = Ch("/") THEN readCppStyleComment(text, p + 1) ELSE 0

readNumber(text, p) ==
    LET whole == FirstNotIn(text, p, Digit)
        frac == IF At(text, whole) = Ch(".") THEN FirstNotIn(text, whole + 1, Digit) ELSE whole
        sign == IF At(text, frac + 1) \in {Ch("+"), Ch("-")} THEN frac + 2 ELSE frac + 1
    IN IF At(text, frac) \in {Ch("e"), Ch("E")} THEN FirstNotIn(text, sign, Digit) ELSE frac

RECURSIVE readString(_, _)
readString(text, p) ==
    IF p > Len(text) THEN 0
    ELSE IF text[p] = Ch("\\") THEN readString(text, p + 2)
    ELSE IF text[p] = Ch("\"") THEN p + 1 ELSE readString(text, p + 1)

Punctuation == [c \in {Ch("{"), Ch("}"), Ch("["), Ch("]"), Ch(","), Ch(":")} |->
    CASE c = Ch("{") -> "ObjectBegin" [] c = Ch("}") -> "ObjectEnd"
      [] c = Ch("[") -> "ArrayBegin"  [] c = Ch("]") -> "ArrayEnd"
      [] c = Ch(",") -> "ArraySeparator" [] OTHER -> "MemberSeparator"]

(* end is 0 where the text is no such token; the reader has then moved on  *)
(* by the first character, or to the end of an unfinished string.          *)
TokenAt(text, start, type, end) ==
    IF end /= 0 THEN [type |-> type, start |-> start, end |-> end]
    ELSE [type |-> "Error", start |-> start,
          end |-> CASE type = "String" -> Len(text) + 1
                    [] type = "Comment" /\ At(text, start + 1) = Ch("*") -> Len(text) + 1
                    [] type = "Comment" /\ start + 1 <= Len(text) -> start + 2
                    [] OTHER -> start + 1]

readToken(text, p) ==
    LET s == skipSpaces(text, p)
        c == At(text, s)
        As(type, end) == TokenAt(text, s, type, end)
    IN CASE s > Len(text) -> [type |-> "EndOfStream", start |-> s, end |-> s]
         [] c \in DOMAIN Punctuation -> As(Punctuation[c], s + 1)
         [] c = Ch("\"") -> As("String", readString(text, s + 1))
         [] c = Ch("/") -> As("Comment", readComment(text, s + 1))
         [] c \in Digit \cup {Ch("-")} -> As("Number", readNumber(text, s + 1))
         [] c = Ch("t") -> As("True", match(text, s + 1, Str("rue")))
         [] c = Ch("f") -> As("False", match(text, s + 1, Str("alse")))
         [] c = Ch("n") -> As("Null", match(text, s + 1, Str("ull")))
         [] OTHER -> As("Error", s + 1)

RECURSIVE BehindComments(_, _)
BehindComments(text, token) ==
    IF token.type = "Comment" THEN BehindComments(text, readToken(text, token.end)) ELSE token
skipCommentTokens(text, p) == BehindComments(text, readToken(text, p))

-----------------------------------------------------------------------------
(* Scalars.  A decoder returns the set of its results, empty for an error. *)

TextOf(text, token) == SubSeq(text, token.start, token.end - 1)

(* istream >> double: a mantissa with a digit, an exponent with one.       *)
IsDouble(number) ==
    LET body == IF At(number, 1) = Ch("-") THEN Tail(number) ELSE number
        e == FirstIn(body, 1, {Ch("e"), Ch("E")})
        exp == From(body, e + 1)
    IN /\ \E i \in 1..(e - 1) : body[i] \in Digit
       /\ e <= Len(body) => exp /= <<>> /\ exp[Len(exp)] \in Digit

decodeDouble(number) == IF IsDouble(number) THEN {RealValue(number)} ELSE {}

(* Without the look at the last digit.                                     *)
RECURSIVE AccumulateToThreshold(_, _, _, _)
AccumulateToThreshold(number, i, value, limit) ==
    IF i > Len(number) THEN value
    ELSE IF number[i] \notin Digit \/ value > limit \div 10 THEN -1
    ELSE AccumulateToThreshold(number, i + 1, value * 10 + number[i] - Ch("0"), limit)

(* The integer, or "double" where a digit would take it past the limit.    *)
RECURSIVE Accumulate(_, _, _, _)
Accumulate(number, i, value, limit) ==
    LET digit == number[i] - Ch("0")
        threshold == limit \div 10
    IN IF i > Len(number) THEN value
       ELSE IF \/ number[i] \notin Digit
               \/ value >= threshold
                  /\ (value > threshold \/ i /= Len(number) \/ digit > limit % 10)
            THEN -1
       ELSE Accumulate(number, i + 1, value * 10 + digit, limit)

decodeNumber(number) ==
    LET isNegative == number[1] = Ch("-")
        limit == IF isNegative THEN maxLargestInt + 1 ELSE maxLargestUInt
        value == Accumulate(number, IF isNegative THEN 2 ELSE 1, 0, limit)
    IN IF value = -1 THEN decodeDouble(number)
       ELSE IF isNegative THEN {IntValue(-value)}
       ELSE IF value <= maxInt THEN {IntValue(value)} ELSE {UIntValue(value)}

HexNumber(text, p) ==
    4096 * HexValue(text[p]) + 256 * HexValue(text[p + 1]) + 16 * HexValue(text[p + 2]) + HexValue(text[p + 3])

(* The code of four hexadecimal digits at p, -1 if they are not there.     *)
decodeUnicodeEscapeSequence(text, p) ==
    IF p + 3 > Len(text) \/ \E i \in p..(p + 3) : HexValue(text[i]) = -1 THEN -1 ELSE HexNumber(text, p)

(* Without the offset of the planes behind the first.                      *)
SurrogatesJoined(p, first, second) ==
    IF first \notin 55296..56319 THEN [code |-> first, next |-> p + 4]
    ELSE [code |-> (first % 1024) * 1024 + (second % 1024), next |-> p + 10]

(* The code point at p and the place behind it; a leading surrogate takes  *)
(* a second escape with it.                                                *)
CodePoint(p, first, second) ==
    IF first \notin 55296..56319 THEN [code |-> first, next |-> p + 4]
    ELSE [code |-> IF second = -1 THEN -1 ELSE 65536 + (first % 1024) * 1024 + (second % 1024),
          next |-> p + 10]
decodeUnicodeCodePoint(text, p) ==
    CodePoint(p, decodeUnicodeEscapeSequence(text, p),
              IF StandsAt(text, p + 4, Str("\\u")) THEN decodeUnicodeEscapeSequence(text, p + 6) ELSE -1)

codePointToUTF8(cp) ==
    LET low(k) == 128 + ((cp \div k) % 64)
    IN CASE cp <= 127 -> <<cp>>
         [] cp > 127 /\ cp <= 2047 -> <<192 + cp \div 64, low(1)>>
         [] cp > 2047 /\ cp <= 65535 -> <<224 + cp \div 4096, low(64), low(1)>>
         [] OTHER -> <<240 + cp \div 262144, low(4096), low(64), low(1)>>

Decodable == <<Ch("\""), Ch("/"), Ch("\\"), Ch("b"), Ch("f"), Ch("n"), Ch("r"), Ch("t")>>
DecodedTo == <<Ch("\""), Ch("/"), Ch("\\"), 8, 12, 10, 13, 9>>

RECURSIVE Decode(_, _, _), DecodeEscape(_, _, _, _)
DecodeEscape(body, p, decoded, point) ==
    LET known == {i \in DOMAIN Decodable : Decodable[i] = At(body, p + 1)}
    IN IF known /= {} THEN Decode(body, p + 2, decoded \o <<DecodedTo[CHOOSE i \in known : TRUE]>>)
       ELSE IF At(body, p + 1) = Ch("u") /\ point.code /= -1
            THEN Decode(body, point.next, decoded \o codePointToUTF8(point.code))
       ELSE {}
Decode(body, p, decoded) ==
    IF p > Len(body) THEN {decoded}
    ELSE IF body[p] = Ch("\\") THEN DecodeEscape(body, p, decoded, decodeUnicodeCodePoint(body, p + 2))
    ELSE Decode(body, p + 1, decoded \o <<body[p]>>)

decodeString(quoted) == Decode(SubSeq(quoted, 2, Len(quoted) - 1), 1, <<>>)

-----------------------------------------------------------------------------
(* readObject and readArray between two calls of readValue.  They work on  *)
(* the reader x: text, current_ and node, the value nodes_ has on top.     *)

RECURSIVE RecoverAt(_, _, _)
RecoverAt(x, until, token) ==
    IF token.type \in {until, "EndOfStream"} THEN [x EXCEPT !.current = token.end, !.ok = FALSE, !.pc = "leave"]
    ELSE RecoverAt(x, until, readToken(x.text, token.end))
recoverFromError(x, until) == RecoverAt(x, until, readToken(x.text, x.current))

Succeed(x, p) == [x EXCEPT !.current = p, !.ok = TRUE, !.pc = "leave"]

(* nodes_.push of the member or item about to be read.                     *)
Descend(x, p, parent, key, child) ==
    [x EXCEPT !.current = p, !.pc = "enter", !.node = child,
              !.frames = Append(@, [node |-> parent, key |-> key])]

(* The loop of readObject from its top; name is the last member's name.    *)
MemberNamed(x, key, colon) ==
    IF colon.type = "MemberSeparator" THEN Descend(x, colon.end, x.node, key, Member(x.node, key))
    ELSE recoverFromError([x EXCEPT !.current = colon.end], "ObjectEnd")
MemberAt(x, name, token) ==
    LET names == IF token.type = "String" THEN decodeString(TextOf(x.text, token)) ELSE {}
    IN IF token.type = "ObjectEnd" /\ name = <<>> THEN Succeed(x, token.end)
       ELSE IF names = {} THEN recoverFromError([x EXCEPT !.current = token.end], "ObjectEnd")
       ELSE MemberNamed(x, CHOOSE k \in names : TRUE, readToken(x.text, token.end))
ObjectMember(x, name) == MemberAt(x, name, skipCommentTokens(x.text, x.current))

readObject(x) == ObjectMember([x EXCEPT !.node = emptyObject], <<>>)

(* The end of the text taken for the end of the object.                    *)
AfterMemberOrText(x, name) ==
    LET token == skipCommentTokens(x.text, x.current)
    IN CASE token.type \in {"ObjectEnd", "EndOfStream"} -> Succeed(x, token.end)
         [] token.type = "ArraySeparator" -> ObjectMember([x EXCEPT !.current = token.end], name)
         [] OTHER -> recoverFromError([x EXCEPT !.current = token.end], "ObjectEnd")

(* After a member: a comma, or the end.  What follows a comment there is   *)
(* not looked at and taken for the comma.                                  *)
MemberFollowedBy(x, name, first, token) ==
    IF token.type = "ObjectEnd" THEN Succeed(x, token.end)
    ELSE IF first.type \in {"ArraySeparator", "Comment"} THEN ObjectMember([x EXCEPT !.current = token.end], name)
    ELSE recoverFromError([x EXCEPT !.current = token.end], "ObjectEnd")
AfterMember(x, name) ==
    MemberFollowedBy(x, name, readToken(x.text, x.current), skipCommentTokens(x.text, x.current))

ArrayItem(x) == LET index == Len(x.node.map_) + 1
                IN Descend(x, x.current, x.node, index, Item(x.node, index))

readArray(x) ==
    LET p == skipSpaces(x.text, x.current)
    IN IF At(x.text, p) = Ch("]") THEN Succeed([x EXCEPT !.node = emptyArray], p + 1)
       ELSE ArrayItem([x EXCEPT !.node = emptyArray, !.current = p])

ItemFollowedBy(x, token) ==
    IF token.type = "ArrayEnd" THEN Succeed(x, token.end)
    ELSE IF token.type = "ArraySeparator" THEN ArrayItem([x EXCEPT !.current = token.end])
    ELSE recoverFromError([x EXCEPT !.current = token.end], "ArrayEnd")
AfterItem(x) == ItemFollowedBy(x, skipCommentTokens(x.text, x.current))

(* readValue returns to the container that called it, or to parse, which   *)
(* does not look at what is left of the text.                              *)
ReturnTo(x, frame) ==
    IF ~x.ok THEN recoverFromError(x, IF isObject(x.node) THEN "ObjectEnd" ELSE "ArrayEnd")
    ELSE IF isObject(x.node) THEN AfterMember(x, frame.key) ELSE AfterItem(x)
Return(x) ==
    LET frame == x.frames[Len(x.frames)]
        parent == IF isObject(frame.node) THEN Assign(frame.node, frame.key, x.node)
                  ELSE ArrayValue(Append(frame.node.map_, x.node))
    IN IF x.frames = <<>> THEN [x EXCEPT !.pc = "done"]
       ELSE ReturnTo([x EXCEPT !.node = parent, !.frames = SubSeq(@, 1, Len(@) - 1)], frame)

(* The switch of readValue.  A decoder that fails leaves the value as it   *)
(* was; an unexpected token returns without the decrement.                 *)
Decoded(x, token, results_) ==
    [x EXCEPT !.current = token.end, !.pc = "leave", !.ok = results_ /= {},
              !.node = IF results_ = {} THEN @ ELSE CHOOSE v \in results_ : TRUE]

ValueAt(x, token) ==
    LET y == [x EXCEPT !.current = token.end]
        number == TextOf(x.text, token)
    IN CASE token.type = "ObjectBegin" -> readObject(y)
         [] token.type = "ArrayBegin" -> readArray(y)
         [] token.type = "Number" -> Decoded(x, token, decodeNumber(number))
         [] token.type = "String" -> Decoded(x, token, {StringValue(s) : s \in decodeString(number)})
         [] token.type = "True" -> Decoded(x, token, {BoolValue(TRUE)})
         [] token.type = "False" -> Decoded(x, token, {BoolValue(FALSE)})
         [] token.type = "Null" -> Decoded(x, token, {nullValue})
         [] OTHER -> Return([y EXCEPT !.ok = FALSE])
readValue(x) == ValueAt(x, skipCommentTokens(x.text, x.current))

-----------------------------------------------------------------------------
(* The threads.                                                            *)

NoSource == [kind |-> "none"]
Idle == [pc |-> "idle", text |-> <<>>, from |-> NoSource, current |-> 1, frames |-> <<>>, node |-> nullValue,
         ok |-> FALSE, loaded |-> 0, alone |-> TRUE]

ReaderInit == /\ stackDepth_g = 0
              /\ rd = [r \in Readers |-> Idle]
              /\ results = [r \in Readers |-> <<>>]

Busy(r) == rd[r].pc \notin {"idle", "done", "thrown"}
Others(r) == {q \in Readers \ {r} : Busy(q)}

(* The counter kept from one parse to the next.                            *)
ParseWithoutReset(r) ==
    /\ rd[r].pc = "idle" /\ plan[r] /= <<>>
    /\ plan' = [plan EXCEPT ![r] = Tail(@)]
    /\ rd' = [q \in Readers |->
                IF q = r THEN [Idle EXCEPT !.pc = "enter", !.text = CString(Head(plan[r]).text), !.from = Head(plan[r]).from,
                                           !.node = emptyObject, !.alone = Others(r) = {}]
                ELSE [rd[q] EXCEPT !.alone = @ /\ ~Busy(q)]]
    /\ UNCHANGED <<stackDepth_g, results>>

(* parse: a text ends at its first zero, the root is an empty object, and  *)
(* the counter starts again for everybody.  alone is a history: no other   *)
(* parse ran meanwhile.                                                    *)
Parse(r) ==
    /\ rd[r].pc = "idle" /\ plan[r] /= <<>>
    /\ stackDepth_g' = 0
    /\ plan' = [plan EXCEPT ![r] = Tail(@)]
    /\ rd' = [q \in Readers |->
                IF q = r THEN [Idle EXCEPT !.pc = "enter", !.text = CString(Head(plan[r]).text), !.from = Head(plan[r]).from,
                                           !.node = emptyObject, !.alone = Others(r) = {}]
                ELSE [rd[q] EXCEPT !.alone = @ /\ ~Busy(q)]]
    /\ UNCHANGED results

(* The limit throws out of all of readValue's calls.                       *)
Enter(r) ==
    /\ rd[r].pc = "enter"
    /\ rd' = [rd EXCEPT ![r].pc = IF stackDepth_g >= stackLimit_g THEN "thrown" ELSE "increment",
                        ![r].loaded = stackDepth_g]
    /\ UNCHANGED <<stackDepth_g, plan, results>>

Increment(r) ==
    /\ rd[r].pc = "increment"
    /\ stackDepth_g' = rd[r].loaded + 1
    /\ rd' = [rd EXCEPT ![r] = readValue(@)]
    /\ UNCHANGED <<plan, results>>

Leave(r) ==
    /\ rd[r].pc = "leave"
    /\ rd' = [rd EXCEPT ![r].pc = "decrement", ![r].loaded = stackDepth_g]
    /\ UNCHANGED <<stackDepth_g, plan, results>>

Decrement(r) ==
    /\ rd[r].pc = "decrement"
    /\ stackDepth_g' = rd[r].loaded - 1
    /\ rd' = [rd EXCEPT ![r] = Return(@)]
    /\ UNCHANGED <<plan, results>>

(* The caller has its answer and may call again.                           *)
Answered(r) ==
    /\ rd[r].pc \in {"done", "thrown"}
    /\ results' = [results EXCEPT ![r] =
            Append(@, [from |-> rd[r].from, thrown |-> rd[r].pc = "thrown", ok |-> rd[r].ok,
                       root |-> rd[r].node, alone |-> rd[r].alone])]
    /\ rd' = [rd EXCEPT ![r] = Idle]
    /\ UNCHANGED <<stackDepth_g, plan>>

Next == \E r \in Readers : \/ Parse(r) \/ Enter(r) \/ Increment(r)
                           \/ Leave(r) \/ Decrement(r) \/ Answered(r)
=============================================================================
