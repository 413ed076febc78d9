------------------------------ MODULE MCDaemon ------------------------------
EXTENDS Daemon

Signed == [listen |-> "public", auth |-> "sigv4", insecure |-> FALSE, keys |-> TRUE, region |-> "valid",
           metadata |-> "sqlite", artifacts |-> "data", quota |-> 1, trust |-> "trusted", executor |-> "process"]
Local == [Signed EXCEPT !.listen = "loopback", !.auth = "none", !.keys = FALSE]

(* Two configurations that serve, two that are accepted and cannot start, *)
(* and one mistake each.                                                  *)
MCConfigurations ==
  {Signed, Local, [Signed EXCEPT !.keys = FALSE], [Local EXCEPT !.metadata = "padded"],
   [Local EXCEPT !.listen = "public"], [Signed EXCEPT !.listen = "malformed"],
   [Signed EXCEPT !.region = "other"], [Signed EXCEPT !.metadata = "other"],
   [Signed EXCEPT !.artifacts = ""], [Signed EXCEPT !.quota = 0],
   [Signed EXCEPT !.trust = "other"], [Signed EXCEPT !.executor = "other"]}
MCOffsets == {-1, 1}
=============================================================================
