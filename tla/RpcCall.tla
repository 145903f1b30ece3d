------------------------------ MODULE RpcCall ------------------------------
(***************************************************************************)
(* The JSON-RPC client (chainio/src/rpc.rs) and the gate on outbound       *)
(* endpoints (chainio/src/outbound.rs).  The value of a call is the set of *)
(* the values it returns: empty when the call is an error.                 *)
(***************************************************************************)
EXTENDS Integers

(* ------------------------------ endpoints ------------------------------ *)

\* A URL, as far as the gate tells one from another.  An IPv6 literal is bracketed.
Urls == [scheme : {"https", "http", "ftp", "none"},
         userinfo : BOOLEAN, bracketed : BOOLEAN,
         host : {"empty", "loopback", "remote"},
         port : {"absent", "number", "garbage"}]

\* host_of finds a host: no userinfo, a host, and a port that is a number.  What is in
\* brackets is taken for a host as it is, and the port behind it is not looked at.
HasHost(url) ==
  /\ ~url.userinfo
  /\ url.bracketed \/ (url.host # "empty" /\ url.port # "garbage")

\* TLS to anyone; plaintext only to this machine, or by the dev-only override.
AllowedOutbound(url, allowInsecure) ==
  /\ HasHost(url)
  /\ \/ url.scheme = "https"
     \/ /\ url.scheme = "http"
        /\ url.host = "loopback" \/ allowInsecure

(* ------------------------------- replies ------------------------------- *)

\* What comes back for one POST: silence until the client's timeout, an HTTP
\* failure, a redirect or a body over the cap, a body that is not JSON, or an
\* envelope with an error object and a result that is missing, a string or an
\* object.  "value" is the quantity the result holds, if it is one.
Replies(Values) ==
  [arrives : {"silent", "http_error", "redirect", "oversized", "not_json", "json"},
   error : BOOLEAN,
   result : {"missing", "string", "object"},
   value : {{}} \cup {{v} : v \in Values}]

\* post_capped: only JSON that arrived whole and in time is parsed.
PostCapped(reply) == reply.arrives = "json"

\* eth_chainId, eth_blockNumber: parse_result_string, then parse_quantity.
Quantity(reply) ==
  IF PostCapped(reply) /\ ~reply.error /\ reply.result = "string"
    THEN reply.value ELSE {}

\* eth_getBlockByNumber(..).timestamp: parse_result_value, then parse_quantity.
BlockTimestamp(reply) ==
  IF PostCapped(reply) /\ ~reply.error /\ reply.result = "object"
    THEN reply.value ELSE {}

\* A block time without its lower limit of one second.
SecsPerBlockUnclamped(sample, head, tHead, tPrev) ==
  { (b - a) \div sample :
      a \in {t \in tPrev : \E h \in head : h >= sample},
      b \in {t \in tHead : \A u \in tPrev : t > u} }

\* Seconds per block over "sample" blocks; no value when the chain is too
\* short, its clock stands still or a call fails.
SecsPerBlock(sample, head, tHead, tPrev) ==
  { IF (b - a) \div sample > 1 THEN (b - a) \div sample ELSE 1 :
      a \in {t \in tPrev : \E h \in head : h >= sample},
      b \in {t \in tHead : \A u \in tPrev : t > u} }

\* derive_secs_per_block: a default when the chain gives no value.
DeriveSecsPerBlock(default, sample, head, tHead, tPrev) ==
  LET secs == SecsPerBlock(sample, head, tHead, tPrev)
  IN  IF secs = {} THEN default ELSE CHOOSE s \in secs : TRUE
=============================================================================
