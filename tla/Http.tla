-------------------------------- MODULE Http --------------------------------
(***************************************************************************)
(* One blocking GET (net/simple_http.c): up to four requests, each read    *)
(* until the server closes, of which all but the last were redirected.     *)
(*                                                                         *)
(* An answer is a kind and the pieces it comes in: "plain", "chunked",     *)
(* "told" (that has a Location without being a redirect), "moved" (that    *)
(* is one) and "twice" (that is one with two Locations), whose first piece *)
(* is the header, and "bare", which has none.  A status that tells of an   *)
(* error is not looked at, and an answer that breaks off is a whole one.   *)
(***************************************************************************)
EXTENDS Naturals, Sequences

CONSTANTS
  Url,      \* addresses
  Answer,   \* what servers answer: [kind, body: its pieces, to: where if moved]
  MaxRequests  \* the requests of one call

VARIABLES
  url,       \* current_url
  requests,  \* requests so far, and redirects followed
  socket,    \* whether it is open
  buffer,    \* what was received: the answer it is from, and how many pieces
  memory,    \* allocations the call holds
  result,    \* what was returned: code and body
  met        \* (for Settled) the kinds of answers the call read the header of, and
             \* "no memory" if there was none for the Location of a redirect

vars == <<url, requests, socket, buffer, memory, result, met>>

Blank   == [answer |-> [kind |-> "none", body |-> <<>>, to |-> CHOOSE u \in Url : TRUE], got |-> 0]
Pending == [rc |-> "pending", body |-> <<>>]
Error   == [rc |-> "err", body |-> <<>>]
Down    == [rc |-> "down", body |-> <<>>]

Idle == result.rc # "pending"

\* A copy of the address there is no memory for is read all the same, which brings
\* the program down; the next call is one of the program started again.
Get ==
  /\ Idle
  /\ url' \in Url
  /\ requests' = 0 /\ socket' = FALSE /\ buffer' = Blank /\ met' = {}
  /\ \/ result' = Pending /\ memory' = {"url"}
     \/ result' = Down /\ memory' = {}

\* The copies of a Location that nobody will free, made so far.
Leaked == memory \cap {"location"}

\* Everything else the call holds is freed on a failure.
Fails == result' = Error /\ socket' = FALSE /\ memory' = Leaked

\* Address, connection, request, buffer: each may fail; otherwise the server has
\* an answer, of which nothing is received yet.
Request ==
  /\ result = Pending /\ ~socket /\ buffer = Blank /\ requests < MaxRequests
  /\ \/ Fails /\ UNCHANGED <<requests, buffer>>
     \/ /\ socket' = TRUE
        /\ requests' = requests + 1
        /\ memory' = memory \cup {"url", "parts", "buffer"}
        /\ \E a \in Answer : buffer' = [answer |-> a, got |-> 0]
        /\ UNCHANGED result
  /\ UNCHANGED <<url, met>>

Receive ==
  /\ socket
  /\ \/ Fails /\ UNCHANGED buffer
     \/ /\ buffer.got < Len(buffer.answer.body)
        /\ buffer' = [buffer EXCEPT !.got = @ + 1]
        /\ UNCHANGED <<socket, memory, result>>
     \/ socket' = FALSE /\ UNCHANGED <<buffer, memory, result>>
  /\ UNCHANGED <<url, requests, met>>

\* The server has closed.
Received == result = Pending /\ ~socket /\ buffer # Blank

Got == SubSeq(buffer.answer.body, 1, buffer.got)

HeaderIn == buffer.answer.kind # "bare" /\ buffer.got > 0

Redirects == HeaderIn /\ buffer.answer.kind \in {"moved", "twice"}

\* The header's lines: nobody frees the copy of a Location that no redirect follows,
\* nor that of one with another behind it.
Unfreed ==
  IF HeaderIn /\ buffer.answer.kind \in {"told", "twice"} THEN {{}, {"location"}} ELSE {{}}

\* Mutant of Redirect: the answer is not freed.
RedirectKeeps ==
  /\ Received /\ Redirects
  /\ url' = buffer.answer.to
  /\ buffer' = Blank
  /\ met' = met \cup {buffer.answer.kind}
  /\ UNCHANGED <<requests, socket, memory, result>>

\* A redirect is followed as soon as its header has come.
Redirect ==
  /\ Received /\ Redirects
  /\ url' = buffer.answer.to
  /\ \E copy \in Unfreed : memory' = {"url"} \cup Leaked \cup copy
  /\ buffer' = Blank
  /\ met' = met \cup {buffer.answer.kind}
  /\ UNCHANGED <<requests, socket, result>>

\* The last redirect is not followed any more: the loop has had its turns, and
\* the address it had come to is never freed.
TooMany ==
  /\ result = Pending /\ ~socket /\ requests = MaxRequests /\ ~Received
  /\ result' = Error
  /\ UNCHANGED <<url, requests, socket, buffer, memory, met>>

\* The body behind the header: as it came, or put together from its chunks, of
\* which one that broke off is left out.  Without a header, or if that broke off,
\* all that came.
Decoded ==
  IF ~HeaderIn THEN {Got}
  ELSE IF buffer.answer.kind = "chunked" /\ buffer.got \in 2..(Len(buffer.answer.body) - 1)
  THEN {Tail(Got), Tail(SubSeq(Got, 1, buffer.got - 1))}
  ELSE {Tail(Got)}

\* Everything else is freed but the body, or with it when there is no memory for
\* that; the first room for the body put together from chunks is written to even if
\* there is none, which brings the program down.  The answer is that of a redirect
\* only if there was no memory for where it leads.
Deliver ==
  /\ Received
  /\ \E copy \in Unfreed :
       \/ HeaderIn /\ result' = Error /\ memory' = Leaked \cup copy
       \/ \E b \in Decoded : /\ result' = [rc |-> "ok", body |-> b]
                            /\ memory' = {"body"} \cup Leaked \cup copy
       \/ HeaderIn /\ buffer.answer.kind = "chunked" /\ result' = Down /\ memory' = {}
  /\ met' = met \cup (IF HeaderIn THEN {buffer.answer.kind} ELSE {})
                 \cup (IF Redirects THEN {"no memory"} ELSE {})
  /\ UNCHANGED <<url, requests, socket, buffer>>

Init ==
  /\ url \in Url
  /\ requests = 0 /\ socket = FALSE /\ buffer = Blank /\ memory = {} /\ result = Error
  /\ met = {}

Next == Get \/ Request \/ Receive \/ Redirect \/ TooMany \/ Deliver

Spec == Init /\ [][Next]_vars

-----------------------------------------------------------------------------
\* Once the call has returned, its connection is closed and it holds nothing but
\* the body it returned, the address after the last redirect it would follow, and
\* Locations of answers that were no redirect or had two; what it returned is the
\* beginning of what the last server sent, which was no redirect whose header had
\* come, unless there was no memory for where that led.
Settled ==
  Idle =>
    /\ ~socket
    /\ ("body" \in memory) = (result.rc = "ok")
    /\ "location" \in memory => met \cap {"told", "twice"} # {}
    /\ memory \ {"body", "location"} # {} =>
         memory \ {"location"} = {"url"} /\ requests = MaxRequests /\ buffer = Blank
    /\ (result.rc = "ok") =>
         /\ Redirects => "no memory" \in met
         /\ LET sent == IF HeaderIn THEN Tail(buffer.answer.body) ELSE buffer.answer.body
            IN  result.body = SubSeq(sent, 1, Len(result.body))
=============================================================================
