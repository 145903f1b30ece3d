---------------------------- MODULE HttpExchange ----------------------------
(***************************************************************************)
(* One HTTP exchange of the agent, as its clients handle it: the clients   *)
(* of chainio's outbound.rs (no redirects, every wait has a timeout), the  *)
(* capped reading of a body (read_body_capped, and the same loop in        *)
(* IpfsGatewaySource::fetch of executor's models.rs).                      *)
(*                                                                         *)
(* An exchange is a record; the operators return the record that follows.  *)
(* A body is a sequence of blocks, a chunk a part of it.  When a timeout   *)
(* fires is left to the module that uses this one: a timed client bounds   *)
(* the whole exchange, a streaming client each wait for bytes.             *)
(***************************************************************************)
EXTENDS Integers, Sequences

CONSTANT NoLength  \* the answer declares no Content-Length

Statuses == {"success", "redirect", "error"}

Quiet == [phase |-> "quiet", declared |-> NoLength, body |-> <<>>]
Sent == [phase |-> "sent", declared |-> NoLength, body |-> <<>>]

Waiting(x) == x.phase \in {"sent", "streaming"}
Failed(x) == [x EXCEPT !.phase = "failed"]

\* The head of the answer.  Redirects are not followed; the fetch and the completion
\* want a success; a Content-Length above the cap is refused before a byte is read.
Answered(x, status, declared, max) ==
  IF status # "success" \/ (declared # NoLength /\ declared > max)
  THEN Failed(x)
  ELSE [x EXCEPT !.phase = "streaming", !.declared = declared]

\* Mutant of Received: only the declared length was looked at.
ReceivedUncapped(x, chunk, max) == [x EXCEPT !.body = @ \o chunk]

\* Mutant of Received: a body of exactly the cap is too large.
ReceivedBelow(x, chunk, max) ==
  IF Len(x.body) + Len(chunk) >= max THEN Failed(x)
  ELSE [x EXCEPT !.body = @ \o chunk]

\* A chunk of the body, unless it would take the total over the cap.
Received(x, chunk, max) ==
  IF Len(x.body) + Len(chunk) > max THEN Failed(x)
  ELSE [x EXCEPT !.body = @ \o chunk]

\* The end of the stream.  (External: a connection that closes before the declared
\* length is a transport error; without one, the end is wherever it closes.)
Ended(x) ==
  IF x.declared # NoLength /\ Len(x.body) # x.declared THEN Failed(x)
  ELSE [x EXCEPT !.phase = "complete"]
=============================================================================
