----------------------------- MODULE JsonValue -----------------------------
(***************************************************************************)
(* Json::Value, the writer that turns one into a text, and JsonDocument's  *)
(* access by dotted paths.  A value is a record tagged with its type; the  *)
(* map behind an object is a function from keys, the one behind an array a *)
(* sequence, since both are only filled one index after the other.  A      *)
(* double is the text it was read from: two texts of one number are two    *)
(* doubles here, so the texts used are the ones "%.17g" prints.  Comments  *)
(* are kept by the code and never written (commentStyle is "None"), and    *)
(* left out.                                                               *)
(***************************************************************************)
EXTENDS Bytes
LOCAL INSTANCE SequencesExt

CONSTANTS
    maxInt, maxLargestInt, maxLargestUInt,   \* limits of the integer types
    rightMargin_                             \* 74 in the code

ASSUME JsonLimits ==
    /\ {maxInt, maxLargestInt, maxLargestUInt, rightMargin_} \subseteq Nat
    /\ maxInt <= maxLargestInt /\ maxLargestInt < maxLargestUInt

nullValue == [type |-> "null"]
BoolValue(b) == [type |-> "boolean", bool_ |-> b]
IntValue(n) == [type |-> "int", int_ |-> n]
UIntValue(n) == [type |-> "uint", uint_ |-> n]
RealValue(text) == [type |-> "real", real_ |-> text]
StringValue(text) == [type |-> "string", string_ |-> text]
ArrayValue(items) == [type |-> "array", map_ |-> items]
ObjectValue(members) == [type |-> "object", map_ |-> members]

NoMembers == [k \in {} |-> nullValue]
emptyArray == ArrayValue(<<>>)
emptyObject == ObjectValue(NoMembers)

isNull(v) == v.type = "null"
isObject(v) == v.type = "object"
isArray(v) == v.type = "array"
isString(v) == v.type = "string"

(* A double the writer prints is not an integer in the range of int.       *)
isInt(v) == \/ v.type = "int" /\ -maxInt - 1 <= v.int_ /\ v.int_ <= maxInt
            \/ v.type = "uint" /\ v.uint_ <= maxInt

size(v) == IF isArray(v) THEN Len(v.map_)
           ELSE IF isObject(v) THEN Cardinality(DOMAIN v.map_) ELSE 0

(* JSON_ASSERT_MESSAGE throws when a value of another type is asked for a  *)
(* member; nothing in the repository catches it.                           *)
THROWN == [type |-> "thrown"]
Throws(v) == v.type = "thrown"

(* find and isMember: a null value has no members.                         *)
find(v, key) == IF isNull(v) THEN {}
                ELSE IF isObject(v) THEN IF key \in DOMAIN v.map_ THEN {v.map_[key]} ELSE {}
                ELSE {THROWN}
isMember(v, key) == find(v, key) /= {}

(* value[key] = member, by resolveReference: null becomes an object.       *)
Assign(v, key, member) ==
    IF Throws(member) \/ v.type \notin {"null", "object"} THEN THROWN
    ELSE LET old == IF isNull(v) THEN NoMembers ELSE v.map_
         IN ObjectValue([k \in DOMAIN old \cup {key} |-> IF k = key THEN member ELSE old[k]])

(* The reference value[key]: a missing member is created as null.          *)
Member(v, key) == IF isObject(v) /\ key \in DOMAIN v.map_ THEN v.map_[key] ELSE nullValue

(* The reference value[index]: an item that is not there is made, as null. *)
Item(v, index) == IF isArray(v) /\ index <= Len(v.map_) THEN v.map_[index] ELSE nullValue

append(v, item) == IF v.type \notin {"null", "array"} THEN THROWN
                   ELSE ArrayValue((IF isNull(v) THEN <<>> ELSE v.map_) \o <<item>>)

(* The array of a vector, one append after the other.                      *)
VectorValue(values) == FoldLeft(append, emptyArray, values)

(* The keys of an object in the order of the map.                          *)
getMemberNames(v) ==
    LET keys == DOMAIN v.map_
        Rank(k) == Cardinality({j \in keys : Before(j, k)})
    IN [i \in 1..Cardinality(keys) |-> CHOOSE k \in keys : Rank(k) = i - 1]

-----------------------------------------------------------------------------
(* The writer.                                                             *)

valueToString(v) == CASE v.type = "int" -> Decimal(v.int_)
                      [] v.type = "uint" -> Decimal(v.uint_)
                      [] v.type = "real" -> v.real_
                      [] v.type = "boolean" -> IF v.bool_ THEN Str("true") ELSE Str("false")

(* Of a value that is no container: asString throws for one of those, and  *)
(* asInt for a text too.                                                   *)
asString(v) == CASE isNull(v) -> <<>> [] isString(v) -> v.string_ [] OTHER -> valueToString(v)
asInt(v) == CASE v.type = "int" -> v.int_ [] v.type = "uint" -> v.uint_ [] isNull(v) -> 0
              [] v.type = "boolean" -> IF v.bool_ THEN 1 ELSE 0

isControlCharacter(c) == c > 0 /\ c <= 31
Escapes == <<Ch("\""), Ch("\\"), 8, 12, 10, 13, 9>>
EscapeLetters == Str("\"\\bfnrt")
EscapeIndex(c) == CHOOSE i \in DOMAIN Escapes : Escapes[i] = c
IsEscaped(c) == c \in {Escapes[i] : i \in DOMAIN Escapes}

QuotedChar(c) ==
    IF IsEscaped(c) THEN <<Ch("\\"), EscapeLetters[EscapeIndex(c)]>>
    ELSE IF isControlCharacter(c) \/ c = 0
         THEN Str("\\u00") \o <<Hex[(c \div 16) + 1], Hex[(c % 16) + 1]>>
    ELSE <<c>>

RECURSIVE QuotedChars(_)
QuotedChars(text) == IF text = <<>> THEN <<>> ELSE QuotedChar(Head(text)) \o QuotedChars(Tail(text))

(* The short way for a text without special characters copies a C string.  *)
valueToQuotedStringN(text) ==
    LET plain == \A i \in DOMAIN text : ~IsEscaped(text[i]) /\ ~isControlCharacter(text[i]) /\ text[i] /= 0
    IN Str("\"") \o (IF plain THEN CString(text) ELSE QuotedChars(text)) \o Str("\"")

(* What pushValue is given for a value that has no lines of its own.       *)
Scalar(v) == CASE isNull(v) -> Str("null")
               [] isString(v) -> valueToQuotedStringN(v.string_)
               [] isArray(v) -> Str("[]")
               [] isObject(v) -> Str("{}")
               [] OTHER -> valueToString(v)

IsContainer(v) == (isArray(v) \/ isObject(v)) /\ size(v) > 0

RECURSIVE TotalLength(_)
TotalLength(texts) == IF texts = <<>> THEN 0 ELSE Len(Head(texts)) + TotalLength(Tail(texts))

isMultineArray(v) ==
    \/ size(v) * 3 >= rightMargin_
    \/ \E i \in DOMAIN v.map_ : IsContainer(v.map_[i])
    \/ 4 + (size(v) - 1) * 2 + TotalLength([i \in DOMAIN v.map_ |-> Scalar(v.map_[i])]) >= rightMargin_

(* The writer's state: what it has written, whether the line is indented   *)
(* already, how deep it is, and the indentation of one level.              *)
Put(w, text) == [w EXCEPT !.out = @ \o text]
writeIndent(w) ==
    IF w.indentation = <<>> THEN w
    ELSE Put(w, <<10>> \o [i \in 1..(w.level * Len(w.indentation)) |-> w.indentation[1]])
writeWithIndent(w, text) ==
    [Put(IF w.indented THEN w ELSE writeIndent(w), text) EXCEPT !.indented = FALSE]
indent(w) == [w EXCEPT !.level = @ + 1]
unindent(w) == [w EXCEPT !.level = @ - 1]
colonSymbol(w) == IF w.indentation = <<>> THEN Str(":") ELSE Str(" : ")

Joined(texts, i) == IF i = 1 THEN texts[1] ELSE Str(", ") \o texts[i]
RECURSIVE Flatten(_)
Flatten(texts) == IF texts = <<>> THEN <<>> ELSE Head(texts) \o Flatten(Tail(texts))

OneLine(w, v) ==
    LET childValues == [i \in DOMAIN v.map_ |-> Scalar(v.map_[i])]
        pad == IF w.indentation = <<>> THEN <<>> ELSE Str(" ")
    IN Put(w, Str("[") \o pad \o Flatten([i \in DOMAIN childValues |-> Joined(childValues, i)]) \o pad \o Str("]"))

RECURSIVE writeValue(_, _), WriteItems(_, _, _), WriteMembers(_, _, _)

(* writeArrayValue's loop.  An array that is long and has no containers    *)
(* goes item by item as well; its texts were made before.                  *)
WriteItems(w, items, i) ==
    LET sep == IF i = 1 THEN w ELSE Put(w, Str(","))
        start == IF sep.indented THEN sep ELSE writeIndent(sep)
        item == [writeValue([start EXCEPT !.indented = TRUE], items[i]) EXCEPT !.indented = FALSE]
    IN IF i > Len(items) THEN w ELSE WriteItems(item, items, i + 1)

WriteMembers(w, v, i) ==
    LET names == getMemberNames(v)
        sep == IF i = 1 THEN w ELSE Put(w, Str(","))
        named == Put(writeWithIndent(sep, valueToQuotedStringN(names[i])), colonSymbol(w))
    IN IF i > Len(names) THEN w ELSE WriteMembers(writeValue(named, v.map_[names[i]]), v, i + 1)

writeValue(w, v) ==
    IF ~IsContainer(v) THEN Put(w, Scalar(v))
    ELSE IF isObject(v)
         THEN writeWithIndent(unindent(WriteMembers(indent(writeWithIndent(w, Str("{"))), v, 1)), Str("}"))
    ELSE IF isMultineArray(v)
         THEN writeWithIndent(unindent(WriteItems(indent(writeWithIndent(w, Str("["))), v.map_, 1)), Str("]"))
    ELSE OneLine(w, v)

(* BuiltStyledStreamWriter::write, and JsonDocument::Write on it.          *)
write(root, indentation) ==
    writeValue([out |-> <<>>, indented |-> TRUE, level |-> 0, indentation |-> indentation], root).out

Write(root, pretty) == write(root, IF pretty THEN <<9>> ELSE <<>>)

-----------------------------------------------------------------------------
(* JsonDocument: a key with a dot is a path.                               *)

Dot(key) == Find(key, 1, Str("."))
HeadKey(key) == SubSeq(key, 1, Dot(key) - 1)
TailKey(key) == From(key, Dot(key) + 1)

RECURSIVE Get(_, _), SetAt(_, _, _), AppendAt(_, _, _)

(* The values found under a path: none, one, or THROWN.                    *)
Get(parent, key) ==
    IF Dot(key) = 0 THEN find(parent, key)
    ELSE UNION {IF Throws(v) THEN {v} ELSE Get(v, TailKey(key)) : v \in find(parent, HeadKey(key))}

(* A new object for every path.                                            *)
PassageAnew(parent, pkey) == IF THROWN \in find(parent, pkey) THEN THROWN ELSE emptyObject

(* The object a path goes through: what is no object is replaced.          *)
Passage(parent, pkey) ==
    IF THROWN \in find(parent, pkey) THEN THROWN
    ELSE IF isObject(Member(parent, pkey)) THEN Member(parent, pkey) ELSE emptyObject

SetAt(parent, key, value) ==
    IF Dot(key) = 0 THEN Assign(parent, key, value)
    ELSE IF Throws(Passage(parent, HeadKey(key))) THEN THROWN
    ELSE Assign(parent, HeadKey(key), SetAt(Passage(parent, HeadKey(key)), TailKey(key), value))

AppendAt(parent, key, value) ==
    IF Dot(key) = 0
    THEN IF THROWN \in find(parent, key) THEN THROWN
         ELSE LET old == Member(parent, key)
              IN Assign(parent, key, append(IF isArray(old) THEN old ELSE emptyArray, value))
    ELSE IF Throws(Passage(parent, HeadKey(key))) THEN THROWN
    ELSE Assign(parent, HeadKey(key), AppendAt(Passage(parent, HeadKey(key)), TailKey(key), value))

(* The typed Get: nothing for a value of another type.                    *)
GetInt(root, key) == {v \in Get(root, key) : Throws(v) \/ isInt(v)}
GetString(root, key) == {v \in Get(root, key) : Throws(v) \/ isString(v)}
GetVector(root, key, Wanted(_)) ==
    {IF isArray(v) THEN ArrayValue(SelectSeq(v.map_, Wanted)) ELSE v :
        v \in {u \in Get(root, key) : Throws(u) \/ isArray(u)}}
=============================================================================
