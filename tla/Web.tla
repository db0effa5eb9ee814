--------------------------------- MODULE Web ----------------------------------
(* HTTP requests: web_connection::process_tcp reads one from the socket of    *)
(* each connection - the request line, the headers, and the body of a POST or *)
(* a form - through __gets and S_recv, which share what has been received and *)
(* not asked for yet (rd_buf), and gives it to process_web.  The client's     *)
(* bytes come in any pieces, stop, or end in the middle.                      *)
(*                                                                            *)
(* A byte is the smallest part the code tells from others: "eol" is \r\n,     *)
(* "length" the header Content-Length, "multipart" the header Content-Type of *)
(* a form, "text" what has no space or colon where one is expected, "file" a  *)
(* GET of a url in doc_urls.                                                  *)
EXTENDS Integers, Sequences, FiniteSets, SequencesExt

CONSTANTS
  Requests,     \* what clients send
  Header,       \* the bytes that stand for a header
  Body          \* the bytes of bodies

\* The places of the bytes of S in s; the i-th of the places K; the bytes there.
Places(s, S) == {k \in DOMAIN s : s[k] \in S}
Nth(K, i) == CHOOSE k \in K : Cardinality({j \in K : j <= k}) = i
Chosen(s, K) == [i \in 1..Cardinality(K) |-> s[Nth(K, i)]]

\* Where the headers of a request end, and what is before and after that.
Blank(r, i) == i \in 2..Len(r) /\ r[i] = "eol" /\ r[i - 1] = "eol"
InHeaders(r, i) == (\E j \in 1..(i - 1) : r[j] = "eol") /\ ~ \E j \in 1..i : Blank(r, j)
AfterHead(r, i) == \E j \in 1..(i - 1) : Blank(r, j)

\* The bytes that stand for headers are where headers are, with one that has no
\* colon at most; a form's bytes are between boundaries, up to its end, and a
\* body that is counted starts after the headers and has no gap.
WellFormed(r) ==
  /\ \A i \in DOMAIN r :
       /\ r[i] \in Header => InHeaders(r, i)
       /\ InHeaders(r, i) => r[i] \in Header \cup {"eol"} \/ (r[i] = "text" /\ r[i - 1] = "eol")
       /\ r[i] \in Body => AfterHead(r, i)
  /\ \A i \in DOMAIN r : \A j \in 1..i :
       AfterHead(r, j) =>
         IF \E k \in DOMAIN r : r[k] = "multipart"
         THEN /\ r[j] = "end" => r[i] \notin Body
              /\ r[j] \notin Body \cup {"boundary", "text"} => \E k \in 1..j : AfterHead(r, k) /\ r[k] = "end"
         ELSE r[i] \in Body => r[j] \in Body

ASSUME WebAssumption ==
  /\ {"length", "multipart"} \subseteq Header /\ "eol" \notin Header
  /\ "boundary" \notin Body
  /\ Requests \subseteq Seq(STRING)
  /\ \A r \in Requests : WellFormed(r)

VARIABLES
  w_sent,      \* what the client sends, all of it
  w_left,      \* what it has not sent yet
  w_client,    \* "there", "closed" or "reset"
  w_net,       \* received by the system
  w_buf,       \* c_socket::rd_buf
  w_fd,        \* m__sock is not -1
  w_at,        \* where process_tcp is
  w_got,       \* what it has read: [line, headers, body]
  w_cached,    \* ___www_cache: "no", or "file" or "nothing" for the document
  w_ran,       \* process_web was called (history)
  w_answers,   \* what was written
  w_stalled    \* a read ended with what had not come (history)

webVars ==
  <<w_sent, w_left, w_client, w_net, w_buf, w_fd, w_at, w_got, w_cached, w_ran, w_answers, w_stalled>>
clientVars == <<w_sent, w_left, w_client>>
doneVars == <<w_cached, w_ran, w_answers>>

WebInit ==
  /\ w_sent \in Requests
  /\ w_left = w_sent /\ w_client = "there" /\ w_net = <<>>
  /\ w_buf = <<>> /\ w_fd = TRUE
  /\ w_at = "line"
  /\ w_got = [line |-> "none", headers |-> <<>>, body |-> <<>>]
  /\ w_cached = "no"
  /\ w_ran = FALSE /\ w_answers = <<>> /\ w_stalled = FALSE
-----------------------------------------------------------------------------
(* The client.                                                               *)

client_sends ==
  /\ w_client = "there"
  /\ \E n \in 1..Len(w_left) :
       /\ w_net' = w_net \o SubSeq(w_left, 1, n)
       /\ w_left' = SubSeq(w_left, n + 1, Len(w_left))
  /\ UNCHANGED <<w_sent, w_client, w_buf, w_fd, w_at, w_got, doneVars, w_stalled>>

\* It closes the connection, or the connection breaks.
client_goes(how) ==
  /\ w_client = "there"
  /\ w_client' = how
  /\ UNCHANGED <<w_sent, w_left, w_net, w_buf, w_fd, w_at, w_got, doneVars, w_stalled>>
-----------------------------------------------------------------------------
(* Reading: __gets and S_recv.                                               *)

\* The position of the delimiter in rd_buf, or 0.
Find(delim) ==
  IF \E i \in DOMAIN w_buf : w_buf[i] = delim
  THEN CHOOSE i \in DOMAIN w_buf :
         w_buf[i] = delim /\ \A j \in 1..(i - 1) : w_buf[j] # delim
  ELSE 0

Has(header) == \E i \in DOMAIN w_got.headers : w_got.headers[i] = header

\* Content-Length: the client counts right.
Count == Cardinality(Places(w_sent, Body))

Reading == {"line", "headers", "body", "form"}
Delimiter == IF w_at = "form" THEN "end" ELSE "eol"

\* Whether what is asked for is in rd_buf: a line, the form, or for S_recv
\* anything.
IsThere == IF w_at = "body" THEN w_buf # <<>> ELSE Find(Delimiter) # 0

\* recv, when poll finds something to read.
receive ==
  /\ w_at \in Reading /\ ~IsThere
  /\ w_fd /\ w_net # <<>>
  /\ w_buf' = w_buf \o w_net /\ w_net' = <<>>
  /\ UNCHANGED <<clientVars, w_fd, w_at, w_got, doneVars, w_stalled>>

\* poll finds that the connection is broken, whatever there is to read.
poll_disconnects ==
  /\ w_at \in Reading /\ ~IsThere
  /\ w_fd /\ w_client = "reset"
  /\ w_fd' = FALSE
  /\ UNCHANGED <<clientVars, w_net, w_buf, w_at, w_got, doneVars, w_stalled>>

\* recv returns 0 again and again.
recv_disconnects ==
  /\ w_at \in Reading /\ ~IsThere
  /\ w_fd /\ w_client = "closed" /\ w_net = <<>>
  /\ w_fd' = FALSE
  /\ UNCHANGED <<clientVars, w_net, w_buf, w_at, w_got, doneVars, w_stalled>>

\* Nothing can come, or nothing has come for a time: 20 s, or 10 s for a body.
GivesUp == ~IsThere /\ (~w_fd \/ w_net = <<>>)

\* Mutant: what has come of the line is returned.
Unfinished_rest == w_buf

\* What __gets returns then: the empty string, which ends the headers too.
Unfinished == <<>>

\* The next line, and what is left in rd_buf.
Line ==
  IF IsThere
  THEN [text |-> SubSeq(w_buf, 1, Find(Delimiter) - 1),
        rest |-> SubSeq(w_buf, Find(Delimiter) + 1, Len(w_buf))]
  ELSE [text |-> Unfinished, rest |-> w_buf]

gets(next, got) ==
  /\ IsThere \/ GivesUp
  /\ w_buf' = Line.rest
  /\ w_at' = next /\ w_got' = got
  /\ w_stalled' = (w_stalled \/ ~IsThere)
  /\ UNCHANGED <<clientVars, w_net, w_fd, doneVars>>
-----------------------------------------------------------------------------
(* process_tcp.                                                              *)

\* The request line: a method and a url, without "..".
request_line ==
  /\ w_at = "line"
  /\ gets(IF Line.text = <<>> \/ Head(Line.text) \in {"text", "dots"} THEN "end" ELSE "headers",
          [w_got EXCEPT !.line = IF Line.text = <<>> THEN "none" ELSE Head(Line.text)])

\* What is read after the headers.
AfterHeaders ==
  IF w_got.line \in {"GET", "file"} THEN "find"
  ELSE IF w_got.line = "POST" /\ Has("multipart") THEN "form"
  ELSE IF w_got.line = "POST" /\ Has("length") THEN "body"
  ELSE "end"

\* A header, or the empty line after the last one.
header ==
  /\ w_at = "headers"
  /\ gets(IF Line.text = <<>> THEN AfterHeaders
          ELSE IF Head(Line.text) = "text" THEN "end" ELSE "headers",
          [w_got EXCEPT !.headers = @ \o Line.text])

\* More than 5 s for the headers, when one has come.
headers_late ==
  /\ w_at = "headers" /\ IsThere /\ Line.text # <<>>
  /\ w_at' = "end"
  /\ UNCHANGED <<clientVars, w_net, w_buf, w_fd, w_got, doneVars, w_stalled>>

\* Mutant: S_recv is asked for everything, and all there is is the body.
Wanted_all == Len(w_buf)

\* The number of bytes S_recv is asked for.
Wanted == Count - Len(w_got.body)

\* A piece of the body: of rd_buf, no more than is wanted.
recv_body ==
  /\ w_at = "body" /\ IsThere
  /\ LET n == IF Len(w_buf) <= Wanted THEN Len(w_buf) ELSE Wanted IN
     /\ w_got' = [w_got EXCEPT !.body = @ \o SubSeq(w_buf, 1, n)]
     /\ w_buf' = SubSeq(w_buf, n + 1, Len(w_buf))
     /\ w_at' = IF Len(w_got'.body) >= Count THEN "find" ELSE "body"
  /\ UNCHANGED <<clientVars, w_net, w_fd, doneVars, w_stalled>>

\* S_recv has failed, or 10 s have passed.
body_fails ==
  /\ w_at = "body" /\ GivesUp
  /\ w_at' = "end" /\ w_stalled' = TRUE
  /\ UNCHANGED <<clientVars, w_net, w_buf, w_fd, w_got, doneVars>>

\* The parts of a form: between two boundaries, unless one is malformed.
form ==
  /\ w_at = "form"
  /\ gets(IF \E i \in DOMAIN Line.text : Line.text[i] = "text" THEN "end" ELSE "find",
          [w_got EXCEPT !.body = Chosen(Line.text, {k \in DOMAIN Line.text : Line.text[k] # "boundary"})])

\* A file: from the cache, even when nothing is cached for it because it could
\* not be read; else from the disk, and when that fails it is a page.
find_document ==
  /\ w_at = "find"
  /\ IF w_got.line = "file"
     THEN IF w_cached # "no"
          THEN /\ w_answers' = Append(w_answers, w_cached) /\ w_at' = "end"
               /\ UNCHANGED w_cached
          ELSE \E found \in {"file", "nothing"} :
                 /\ w_cached' = found
                 /\ w_answers' = IF found = "file" THEN Append(w_answers, found) ELSE w_answers
                 /\ w_at' = IF found = "file" THEN "end" ELSE "process"
     ELSE w_at' = "process" /\ UNCHANGED <<w_cached, w_answers>>
  /\ UNCHANGED <<clientVars, w_net, w_buf, w_fd, w_got, w_ran, w_stalled>>

\* process_web; the page is written if the connection is open and the page has
\* not been handed over to the chat thread.
process_web_page(answers) ==
  /\ w_at = "process"
  /\ w_ran' = TRUE
  /\ w_answers' = IF w_fd /\ answers THEN Append(w_answers, "page") ELSE w_answers
  /\ w_at' = "end"
  /\ UNCHANGED <<clientVars, w_net, w_buf, w_fd, w_got, w_cached, w_stalled>>

\* The connection is closed, and the handler thread takes the next one.
next_connection ==
  /\ w_at = "end"
  /\ w_sent' \in Requests
  /\ w_left' = w_sent' /\ w_client' = "there" /\ w_net' = <<>>
  /\ w_buf' = <<>> /\ w_fd' = TRUE
  /\ w_at' = "line"
  /\ w_got' = [line |-> "none", headers |-> <<>>, body |-> <<>>]
  /\ w_ran' = FALSE /\ w_answers' = <<>> /\ w_stalled' = FALSE
  /\ UNCHANGED w_cached

process_tcp_step ==
  \/ receive \/ poll_disconnects \/ recv_disconnects
  \/ request_line \/ header \/ headers_late \/ recv_body \/ body_fails \/ form
  \/ find_document \/ \E answers \in BOOLEAN : process_web_page(answers)
  \/ next_connection

WebNext ==
  \/ process_tcp_step \/ client_sends
  \/ \E how \in {"closed", "reset"} : client_goes(how)

WebSpec == WebInit /\ [][WebNext]_webVars
-----------------------------------------------------------------------------
(* Properties.                                                               *)

\* A page is made for the request the client sent - its line, its headers and
\* its body, no more and no less, however the bytes came - unless a read ended
\* before they had (__gets, S_recv, process_tcp).
ReadsWhatWasSent ==
  w_ran /\ ~w_stalled =>
    /\ w_got.line = Head(w_sent)
    /\ w_got.headers = Chosen(w_sent, Places(w_sent, Header))
    /\ w_got.body = IF w_got.line = "POST" THEN Chosen(w_sent, Places(w_sent, Body)) ELSE <<>>

\* Also of a request that has not come completely no part is made up: what is
\* read are bytes that were sent, in their order, none twice.
NothingMadeOf ==
  LET read == <<w_got.line>> \o w_got.headers \o w_got.body IN
  w_ran => \E kept \in SUBSET (DOMAIN w_sent) : read = Chosen(w_sent, kept)

\* What process_web is given is what the client sent, of which nothing is made up.
RequestIsRead == ReadsWhatWasSent /\ NothingMadeOf
=============================================================================
