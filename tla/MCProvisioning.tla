--------------------------- MODULE MCProvisioning ---------------------------
(* Model values of module Provisioning: two jobs for two models, CIDs that    *)
(* name short and long weights or nothing, and a string that is not a CID.    *)
EXTENDS Provisioning, TLC

MCModelOf == ("j1" :> "m1") @@ ("j2" :> "m2")
MCPosted == ("j1" :> <<"a", "b">>) @@ ("j2" :> <<"a">>)
MCSends == ("j1" :> <<"a", "b">>) @@ ("j2" :> <<"a", "a", "a">>)
MCNames ==
  ("short" :> <<"a">>) @@ ("long" :> <<"a", "b">>) @@ ("plain" :> NoDigest)
    @@ ("path" :> <<"b">>)
MCRegistered ==
  ("m1" :> [cid |-> "long", active |-> TRUE]) @@ ("m2" :> [cid |-> "short", active |-> TRUE])
=============================================================================
