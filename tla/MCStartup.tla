----------------------------- MODULE MCStartup -----------------------------
(***************************************************************************)
(* An instance of Startup: one sound configuration and, from it, one       *)
(* deviation at a time.                                                    *)
(***************************************************************************)
EXTENDS Startup

Tls == [scheme |-> "https", userinfo |-> FALSE, bracketed |-> FALSE, host |-> "remote", port |-> "absent"]
Local == [Tls EXCEPT !.scheme = "http", !.host = "loopback", !.port = "number"]
Plain == [Tls EXCEPT !.scheme = "http"]

Sound == [daemon |-> TRUE, arguments |-> TRUE, settings |-> TRUE,
          addr |-> "loopback", insecure |-> FALSE,
          rpc |-> {Tls}, provider |-> "address",
          gateway |-> {Tls}, llama |-> {Local}, inputs |-> TRUE,
          sha |-> "unset", resident |-> "digest"]

MCConfigs ==
  { Sound,
    [Sound EXCEPT !.daemon = FALSE],
    [Sound EXCEPT !.daemon = FALSE, !.rpc = {}],
    [Sound EXCEPT !.settings = FALSE],
    [Sound EXCEPT !.rpc = {Plain}],
    [Sound EXCEPT !.provider = "unset"],
    [Sound EXCEPT !.inputs = FALSE, !.sha = "garbage"],
    [Sound EXCEPT !.resident = "garbage"] }

MCInitialFiles ==
  { NoFile, NewFile,
    [NewFile EXCEPT !.private = FALSE, !.token = {0}],
    [NewFile EXCEPT !.kind = "foreign", !.token = {0}],
    [NewFile EXCEPT !.kind = "symlink", !.token = {0}] }
=============================================================================
