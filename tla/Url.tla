---------------------------------- MODULE Url ----------------------------------
(***************************************************************************)
(* url_view: the grammar of URLs and what the rest of the code reads from  *)
(* a parsed one.                                                           *)
(*                                                                         *)
(* A URL is a record: the scheme, "other" for what begins neither with     *)
(* http:// nor with https://, and the text after it, a sequence of         *)
(* characters.  A word stands for one or more letters, a number for a run  *)
(* of digits.                                                              *)
(***************************************************************************)
EXTENDS Integers, SequencesExt

Char(c) == [c |-> c, n |-> 0]
Num(k) == [c |-> "num", n |-> k]

\* What a URL is made of, and what URLs there are.
Character == [c : STRING, n : Nat]
IsUrl(u) ==
  /\ u \in [scheme : {"http", "https", "other"}, text : Seq(Character)]
  /\ \A i \in 1 .. Len(u.text) : u.text[i].c # "num" => u.text[i].n = 0

\* Classes of characters.
Space == {" "}
Alnum == {"word", "num"}
DomainChar == Alnum \cup {"."}
Ascii == STRING \ {"nonascii"}

\* What is left when white space is skipped, as every parser does before a character.
Squeeze(s) ==
  LET left[k \in 0 .. Len(s)] ==
        IF k = 0 THEN <<>>
        ELSE IF s[k].c \in Space THEN left[k - 1]
        ELSE Append(left[k - 1], s[k])
  IN  left[Len(s)]

\* How much of s `*class' takes.
Span(s, class) ==
  LET k == SelectInSeq(s, LAMBDA t : t.c \notin class)
  IN  IF k = 0 THEN Len(s) ELSE k - 1

From(s, k) == SubSeq(s, k, Len(s))

-----------------------------------------------------------------------------
(* The grammar *)

Url(status, host, port, target) ==
  [status |-> status, host |-> host, port |-> port, target |-> target]

\* phrase_parse returns false ...
Failed == Url("failed", <<>>, <<>>, <<>>)
\* ... or an expectation of the grammar throws.
Throws == Url("throws", <<>>, <<>>, <<>>)

HostLengthDotless(s) ==                  \* (mutant) without char_('.')
  LET k == Span(s, Space) + 1 IN k + Span(From(s, k + 1), Alnum \cup Space)

\* domain: any first character, and white space before and after.  What follows in the
\* alternative, ipv4_address, is only tried when there is none, and then fails as well.
HostLength(s) ==
  LET k == Span(s, Space) + 1 IN k + Span(From(s, k + 1), DomainChar \cup Space)

\* How many numbers a short has, and which.
Width == 65536
Shorts == -(Width \div 2) .. Width \div 2 - 1

\* short_: a 16 bit number with a sign, or nothing.  There is no space in it.
Short(s) ==
  LET sign == IF s # <<>> /\ s[1].c \in {"+", "-"} THEN s[1].c ELSE ""
      digits == IF sign = "" THEN s ELSE Tail(s)
      value == IF sign = "-" THEN -digits[1].n ELSE digits[1].n
  IN  IF digits # <<>> /\ digits[1].c = "num" /\ value \in Shorts
      THEN [ok |-> TRUE, value |-> value, rest |-> Tail(digits)]
      ELSE [ok |-> FALSE, value |-> 0, rest |-> s]

PathNoQuery(s) ==                        \* (mutant) the query is not part of it
  Squeeze(SubSeq(s, 1, Span(s, Ascii \ {"?"})))

\* target_path: up to the first character that is not ASCII.
Path(s) == Squeeze(SubSeq(s, 1, Span(s, Ascii)))

\* url: the port, once there is a colon, must be a short_; it is kept in an unsigned short.
Parse(u) ==
  IF u.scheme = "other" \/ Squeeze(u.text) = <<>> \/ Squeeze(u.text)[1].c \notin Ascii THEN Failed
  ELSE LET k == HostLength(u.text)
           host == Squeeze(SubSeq(u.text, 1, k))
           rest == From(u.text, k + 1)
           port == Short(From(rest, 2 + Span(Tail(rest), Space)))
       IN  IF rest = <<>> \/ rest[1].c # ":" THEN Url("parsed", host, <<>>, Path(rest))
           ELSE IF port.ok
                THEN Url("parsed", host, <<port.value % Width>>, Path(port.rest))
                ELSE Throws

-----------------------------------------------------------------------------
(* url_view *)

\* What an unsigned short holds.
Ports == 0 .. Width - 1

\* port(), for a URL that was parsed.
Port(u) ==
  IF Parse(u).port # <<>> THEN Parse(u).port[1]
  ELSE IF u.scheme = "http" THEN 80 ELSE 443

\* What target() means to return ...
TargetPath(u) == IF Parse(u).target = <<>> THEN <<Char("/")>> ELSE Parse(u).target

\* ... but the string it makes a view of is gone when it returns: the reader may find it
\* there still, or something else.
Garbage == <<Char("garbage")>>
Targets(u) == {TargetPath(u), Garbage}

FirstSegment(t) ==                       \* (mutant) find for rfind
  LET k == SelectInSeq(t, LAMBDA x : x.c = "/") IN IF k = 0 THEN <<>> ELSE From(t, k + 1)

\* What follows the last /.
LastSegment(t) ==
  LET k == SelectLastInSeq(t, LAMBDA x : x.c = "/") IN IF k = 0 THEN <<>> ELSE From(t, k + 1)

\* resource_name(): there may be a / in what it finds, or none.
ResourceNames(u) == {LastSegment(TargetPath(u)), Garbage, <<>>}

=============================================================================
