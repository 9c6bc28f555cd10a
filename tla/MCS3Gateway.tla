---------------------------- MODULE MCS3Gateway ----------------------------
(***************************************************************************)
(* MCProxied: clients, one of them with another secret than the endpoint   *)
(* has, reach it through a proxy that serves it at the root of its own     *)
(* address.  MCDirect: they use the endpoint's own address, prefix         *)
(* included.                                                               *)
(***************************************************************************)
EXTENDS S3Gateway, TLC

MCCredentials == {[access_key |-> "ak", secret |-> "sk"], NoCreds}
Client(base, proxied, secret) ==
  [base |-> base, host |-> "h", region |-> "r", access_key |-> "ak", secret |-> secret, proxied |-> proxied]

MCMount == <<"s3">>
MCProxied == {Client(<<>>, TRUE, "sk"), Client(<<>>, TRUE, "another")}
MCDirect == {Client(MCMount, FALSE, "sk"), Client(MCMount, FALSE, "another")}
MCKeys == {1, 2}

Request(method, bucket, key, query, body) ==
  [method |-> method, bucket |-> bucket, key |-> key, query |-> query, body |-> body]

MCRequests ==
  {Request("PUT", "pics", 1, <<>>, "x"), Request("PUT", "pics", 1, <<>>, "y"), Request("PUT", "pics", 2, <<>>, "x")}
    \cup {Request(op, "pics", 1, <<>>, NoBody) : op \in {"GET", "HEAD", "DELETE"}}
    \cup {Request("PUT", "other", 1, <<>>, "x"), Request("PUT", "pics", BadKey, <<>>, "x")}
    \* the steps of a multipart upload: initiate, a part, abort
    \cup {Request("POST", "pics", 1, <<<<"uploads", "">>>>, NoBody),
          Request("PUT", "pics", 1, <<<<"partNumber", "1">>, <<"uploadId", "u">>>>, "x"),
          Request("DELETE", "pics", 1, <<<<"uploadId", "u">>>>, NoBody)}
=============================================================================
