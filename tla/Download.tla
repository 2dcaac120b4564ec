-------------------------------- MODULE Download --------------------------------
(***************************************************************************)
(* download_file: one program that downloads files one after the other.    *)
(* Each call takes the name of the file from the URL, sends a GET request  *)
(* with a session of its own, opens the file and writes the body of the    *)
(* response to it, buffer by buffer.  The session and its adapter are seen *)
(* as one request that fails or is answered.                               *)
(***************************************************************************)
EXTENDS Url

CONSTANTS
  Urls,         \* the URLs that are asked for
  MaxBuffers,   \* bound: buffers of a body
  MaxCalls      \* bound: calls of download_file

ASSUME DownloadAssumption ==
  /\ MaxBuffers \in Nat /\ MaxCalls \in Nat
  /\ \A u \in Urls : IsUrl(u)

VARIABLES
  files,        \* the directory: a function from the names there are to contents
  pc,           \* where in download_file the program is
  url,          \* the argument, of the last call
  given,        \* whether that call was given a file name
  fname,        \* fname
  request,      \* what the session sends, and where
  body,         \* the buffers of the response that are not written yet
  good,         \* the state of the stream `out'
  n,            \* calls so far
  last          \* history: for every file, the call that opened it last, how many buffers
                \* its response had, and whether all writes of it succeeded

vars == <<files, pc, url, given, fname, request, body, good, n, last>>

NoRequest == [host |-> <<>>, port |-> 0, target |-> <<>>]

Init ==
  /\ files = <<>> /\ last = <<>>
  /\ pc = "idle" /\ n = 0
  /\ url = [scheme |-> "other", text |-> <<>>] /\ given = FALSE
  /\ fname = <<>> /\ request = NoRequest
  /\ body = <<>> /\ good = TRUE

\* f with k mapped to v as well.
With(f, k, v) == [x \in DOMAIN f \cup {k} |-> IF x = k THEN v ELSE f[x]]

\* The body of the response to call m when it has k buffers.
Body(m, k) == [i \in 1 .. k |-> [call |-> m, buffer |-> i]]

-----------------------------------------------------------------------------
(* The name of the file *)

\* An exception, or the return: the program goes on, the session is gone.
Leaves ==
  /\ pc' = "idle" /\ fname' = <<>> /\ request' = NoRequest /\ body' = <<>> /\ good' = TRUE

\* What is refused at once: nothing at all, and a URL that ends in a slash (as "http://"
\* does, whose text is empty).
Refused(u) == u.text # <<>> => Last(u.text).c = "/"

\* Without a file name: the resource name of the URL.
FromUrl ==
  \/ /\ Parse(url') = Throws \/ <<>> \in ResourceNames(url')
     /\ Leaves
  \/ /\ Parse(url') # Throws
     /\ fname' \in ResourceNames(url') \ {<<>>}
     /\ pc' = "named"
     /\ UNCHANGED <<request, body, good>>

\* With a file name, which nobody assigns to fname: the assertion that there is one.
NotAssigned ==
  /\ pc' = "aborted"
  /\ UNCHANGED <<fname, request, body, good>>

DownloadFile ==
  /\ pc = "idle" /\ n < MaxCalls
  /\ n' = n + 1 /\ url' \in Urls /\ given' \in BOOLEAN
  /\ \/ Refused(url') /\ Leaves
     \/ ~Refused(url') /\ ~given' /\ FromUrl
     \/ ~Refused(url') /\ given' /\ NotAssigned
  /\ UNCHANGED <<files, last>>

-----------------------------------------------------------------------------
(* download_file_impl *)

\* The file is opened: what was in it is gone.
Truncated == With(files, fname, <<>>)

\* session::request parses the URL again and sends the request.
Request ==
  /\ pc = "named" /\ Parse(url).status = "parsed"
  /\ \E t \in Targets(url) : request' = [host |-> Parse(url).host, port |-> Port(url), target |-> t]
  /\ pc' = "sent"
  /\ UNCHANGED <<files, url, given, fname, body, good, n, last>>

\* The assertion of session::request that the URL was parsed.
RequestAborts ==
  /\ pc = "named" /\ Parse(url).status = "failed"
  /\ pc' = "aborted"
  /\ UNCHANGED <<files, url, given, fname, request, body, good, n, last>>

\* An exception of the transport.
RequestFails ==
  /\ pc = "sent" /\ Leaves
  /\ UNCHANGED <<files, url, given, n, last>>

\* Whatever the status code is.
Answered ==
  /\ pc = "sent"
  /\ \E k \in 0 .. MaxBuffers : body' = Body(n, k)
  /\ pc' = "answered"
  /\ UNCHANGED <<files, url, given, fname, request, good, n, last>>

OpenUnchecked ==             \* (mutant) without the test of the stream
  /\ pc = "answered" /\ pc' = "writing"
  /\ UNCHANGED <<files, url, given, fname, request, body, good, n, last>>

\* FileError.
OpenFails ==
  /\ pc = "answered" /\ Leaves
  /\ UNCHANGED <<files, url, given, n, last>>

OpenAppends ==               \* (mutant) std::ios::app
  /\ pc = "answered"
  /\ files' = IF fname \in DOMAIN files THEN files ELSE Truncated
  /\ last' = With(last, fname, [call |-> n, size |-> Len(body), whole |-> TRUE])
  /\ pc' = "writing"
  /\ UNCHANGED <<url, given, fname, request, body, good, n>>

Open ==
  /\ pc = "answered"
  /\ files' = Truncated
  /\ last' = With(last, fname, [call |-> n, size |-> Len(body), whole |-> TRUE])
  /\ pc' = "writing"
  /\ UNCHANGED <<url, given, fname, request, body, good, n>>

\* handle_regular_response: the next buffer is written.
Write ==
  /\ pc = "writing" /\ body # <<>> /\ good
  /\ files' = [files EXCEPT ![fname] = Append(@, Head(body))]
  /\ body' = Tail(body)
  /\ UNCHANGED <<pc, url, given, fname, request, good, n, last>>

\* The disk is full, say: the stream is no longer good ...
WriteFails ==
  /\ pc = "writing" /\ body # <<>> /\ good
  /\ good' = FALSE /\ body' = Tail(body)
  /\ last' = [last EXCEPT ![fname].whole = FALSE]
  /\ UNCHANGED <<files, pc, url, given, fname, request, n>>

\* ... and ignores what is written to it.  Nobody asks.
WriteIgnored ==
  /\ pc = "writing" /\ body # <<>> /\ ~good
  /\ body' = Tail(body)
  /\ UNCHANGED <<files, pc, url, given, fname, request, good, n, last>>

Return ==
  /\ pc = "writing" /\ body = <<>> /\ Leaves
  /\ UNCHANGED <<files, url, given, n, last>>

Next ==
  \/ DownloadFile \/ Request \/ RequestAborts \/ RequestFails \/ Answered
  \/ OpenFails \/ Open \/ Write \/ WriteFails \/ WriteIgnored \/ Return

Spec == Init /\ [][Next]_vars

-----------------------------------------------------------------------------
(* Properties *)

Buffers == [call : 1 .. MaxCalls, buffer : 1 .. MaxBuffers]

\* The types of the variables; there is a name from the moment there is a request, and the
\* file is there while it is written.
TypeOK ==
  /\ pc \in {"idle", "named", "sent", "answered", "writing", "aborted"}
  /\ n \in 0 .. MaxCalls /\ given \in BOOLEAN /\ good \in BOOLEAN
  /\ body \in Seq(Buffers) /\ request.port \in Ports
  /\ \A f \in DOMAIN files : files[f] \in Seq(Buffers)
  /\ pc \in {"named", "sent", "answered", "writing"} => fname # <<>> /\ ~given
  /\ pc = "writing" => fname \in DOMAIN files

\* The answer a file was last opened for.
LastAnswer(f) == Body(last[f].call, last[f].size)

\* A file holds the beginning of the answer to the call that opened it last, all of it once
\* it is closed and no write failed; calls that were refused, failed or were not answered,
\* whatever their file, have left it alone.
FileIsLastAnswer ==
  /\ DOMAIN files = DOMAIN last
  /\ \A f \in DOMAIN files :
       /\ IsPrefix(files[f], LastAnswer(f))
       /\ last[f].whole /\ ~(pc = "writing" /\ f = fname) => files[f] = LastAnswer(f)

\* The inductive invariant behind it: while a file is written, what is in it and what is
\* still to be written are the answer it was opened for.
Holds(f) ==
  IF pc = "writing" /\ f = fname /\ good THEN files[f] \o body = LastAnswer(f)
  ELSE IsPrefix(files[f], LastAnswer(f)) /\ (last[f].whole => files[f] = LastAnswer(f))

FileInv ==
  /\ DOMAIN files = DOMAIN last
  /\ \A f \in DOMAIN last :
       last[f] \in [call : 1 .. MaxCalls, size : 0 .. MaxBuffers, whole : BOOLEAN]
  /\ pc # "idle" => n > 0
  /\ pc = "answered" => body = Body(n, Len(body)) /\ Len(body) <= MaxBuffers
  /\ pc = "writing" => last[fname].whole = good
  /\ pc # "writing" => good
  /\ \A f \in DOMAIN files : Holds(f)

\* Where the name of the file and the request come from: the same URL, parsed twice.
UrlInv ==
  /\ IsUrl(url)
  /\ pc \in {"named", "sent", "answered", "writing"} => fname \in ResourceNames(url) \ {<<>>}
  /\ pc = "sent" => /\ Parse(url).status = "parsed"
                    /\ request.host = Parse(url).host /\ request.port = Port(url)
                    /\ request.target \in Targets(url)

\* The inductive invariant of the whole call.
DownloadInv == FileInv /\ UrlInv

\* The parser neither loses nor moves anything but white space: the host, the port with its
\* colon and the target follow one another in the URL, up to the first character that is not
\* ASCII.  (A port is only compared as a number without a sign.)
SplitKeepsText ==
  LET p == Parse(url)
  IN  p.status = "parsed" /\ (\A i \in 1 .. Len(url.text) : url.text[i].c \notin {"+", "-"})
      => Squeeze(SubSeq(url.text, 1, Span(url.text, Ascii))) =
           p.host \o (IF p.port = <<>> THEN <<>> ELSE <<Char(":"), Num(p.port[1])>>) \o p.target

\* Where the authority of a URL ends: at the first slash or question mark.
AuthorityEnd(s) == Span(s, STRING \ {"/", "?"})

\* Where the first colon is, or 0.
Colon(s) == SelectInSeq(s, LAMBDA t : t.c = ":")

\* The URLs the grammar is meant for, by the positions of their delimiters: a host of
\* letters, digits and dots, maybe a port that fits, maybe a path or query.
Wellformed(u) ==
  LET auth == SubSeq(u.text, 1, AuthorityEnd(u.text))
      colon == Colon(auth)
  IN  /\ u.scheme # "other" /\ auth # <<>> /\ colon # 1
      /\ \A i \in 1 .. Len(u.text) : u.text[i].c \in Ascii \ Space
      /\ \A i \in 1 .. Len(auth) : i < colon \/ colon = 0 => auth[i].c \in DomainChar
      /\ colon # 0 => Len(auth) = colon + 1 /\ auth[colon + 1].c = "num"
                      /\ auth[colon + 1].n \in Shorts

\* For such a URL the request goes to the host and port it names, or to the port of its
\* scheme, and asks for all that follows them, or for /, unless the view of the target was
\* read too late.
RequestFollowsUrl ==
  LET auth == SubSeq(url.text, 1, AuthorityEnd(url.text))
      path == From(url.text, AuthorityEnd(url.text) + 1)
      colon == Colon(auth)
  IN  pc = "sent" /\ Wellformed(url)
      => /\ request.host = IF colon = 0 THEN auth ELSE SubSeq(auth, 1, colon - 1)
         /\ request.port = IF colon # 0 THEN Last(auth).n
                           ELSE IF url.scheme = "https" THEN 443 ELSE 80
         /\ request.target \in {Garbage, IF path = <<>> THEN <<Char("/")>> ELSE path}

\* "The URL file name would be taken as the file name" (http_free_funcs.hpp): the name has
\* no slash in it and ends the URL after one, unless it was read too late.
NameEndsUrl ==
  pc \in {"sent", "answered", "writing"} /\ Wellformed(url) /\ fname # Garbage
  => /\ \A i \in 1 .. Len(fname) : fname[i].c # "/"
     /\ IsSuffix(<<Char("/")>> \o fname, url.text)

\* "A URL for http/https consists of 3/4 components: 1. Scheme 2. Host 3. Path 4. Query
\* String" (parser.hpp): the host a request goes to is all of what comes before the path.
HostIsWhole ==
  pc = "sent" => LET end == Span(url.text, STRING \ {":", "/", "?"})
                 IN  end > 0 => request.host = Squeeze(SubSeq(url.text, 1, end))

\* "If file_name not set, the URL file name would be taken" (http_free_funcs.hpp): and if it
\* is set, the download goes on with it.
GivenNameIsUsed == ~(given /\ pc = "aborted")

=============================================================================
