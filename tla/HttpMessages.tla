---------------------------- MODULE HttpMessages ----------------------------
(***************************************************************************)
(* A stream of messages read by http_parser_execute in buffers of any      *)
(* size: responses or requests, one after the other on a connection that   *)
(* is closed at last.  Every buffer is given to two readers, one that was  *)
(* told what the messages are and one that finds out (HTTP_BOTH).  Who     *)
(* reads the buffers is external: the program itself has a parser for its  *)
(* requests only (HttpRequest).                                            *)
(***************************************************************************)
EXTENDS HttpParser, SequencesExt

CONSTANTS
    Streams,   \* records [type, parts, closes]: what the messages are, the parts
               \* of their text, and whether the last one ends with the stream;
               \* a part "end" of no length stands behind every other message
    MaxPieces  \* buffers in which a stream arrives

ASSUME PiecesAreBounded == MaxPieces \in Nat

VARIABLES
    stream,    \* what is sent
    at,        \* where the next buffer starts
    readers,   \* the reader of the messages' type and the one of both types
    pieces,    \* the buffers that have arrived
    closed
streamVars == <<stream, at, readers, pieces, closed>>

Types(s) == {s.type, "HTTP_BOTH"}
StreamText == [s \in Streams |-> FoldLeft(LAMBDA text, part : text \o part.text, "", s.parts)]
SentText == StreamText[stream]

\* A reader is a parser and what its callbacks have been given, joined.
Reader(t) == [parser |-> ParserFor(t), status |-> "", body |-> "", completed |-> 0]

StreamInit ==
    /\ stream \in Streams /\ at = 1 /\ pieces = 0 /\ closed = FALSE
    /\ readers = [t \in Types(stream) |-> Reader(t)]

Collect(r, c) ==
    CASE c[1] \in {"status", "body"} -> [r EXCEPT ![c[1]] = @ \o SubSeq(SentText, c[2], c[3] - 1)]
      [] c[1] = "message_complete" -> [r EXCEPT !.completed = @ + 1]
      [] OTHER -> r

Read(r, n) ==
    LET x == Execute(r.parser, SentText, at, n)
    IN  FoldLeft(Collect, [r EXCEPT !.parser = ParserOf(x)], x.calls)

\* The next n characters, or none: the other side has closed the connection
\* behind what it has sent.  The last of the buffers brings all that is left.
Recv ==
    \E n \in 0..(Len(SentText) + 1 - at) :
        /\ ~closed /\ (n = 0 <=> at > Len(SentText))
        /\ pieces + 1 = MaxPieces => at + n = Len(SentText) + 1
        /\ readers' = [t \in Types(stream) |-> Read(readers[t], n)]
        /\ at' = at + n /\ pieces' = pieces + 1 /\ closed' = (n = 0)
        /\ UNCHANGED stream

-----------------------------------------------------------------------------
(* Properties.                                                             *)

\* The position at which part i starts.
StartOfPart(i) == 1 + FoldLeft(LAMBDA n, part : n + Len(part.text), 0, SubSeq(stream.parts, 1, i - 1))
\* What the buffers have held of the parts of a kind.
Received(kind) ==
    FoldLeft(LAMBDA text, i :
                LET from == StartOfPart(i)
                    end == from + Len(stream.parts[i].text)
                IN  IF stream.parts[i].k # kind THEN text
                    ELSE text \o SubSeq(SentText, from, (IF at < end THEN at ELSE end) - 1),
             "", [i \in 1..Len(stream.parts) |-> i])
EndsReceived == Cardinality({i \in DOMAIN stream.parts : stream.parts[i].k = "end" /\ StartOfPart(i) <= at})

\* A message is complete when its last character has been read, neither before
\* nor after, and once: its length, its chunks and its status say where that is
\* (nothing follows a 1xx, 204 or 304), and without them it is the end of the
\* stream.  However the stream is cut, the pieces that are called back join to
\* the reasons and the bodies that were sent: nothing is lost, given twice or
\* taken from what stands between them.  And a parser that has to find out what
\* it reads ends up where one is that was told, with the same verdict.
MessagesAsSent ==
    LET told == readers[stream.type].parser
        both == readers["HTTP_BOTH"].parser
    IN  /\ \A t \in Types(stream) :
              /\ readers[t].completed = EndsReceived + (IF closed /\ stream.closes THEN 1 ELSE 0)
              /\ readers[t].status = Received("status")
              /\ readers[t].body = Received("body")
        /\ (told.http_errno = "HPE_OK") <=> (both.http_errno = "HPE_OK")
        /\ both.type # "HTTP_BOTH" => both = told
=============================================================================
