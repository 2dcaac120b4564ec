-------------------------------- MODULE MCClient --------------------------------
(* Hosts, files and calls for Client. *)
EXTENDS Client

MCDisk ==
  "ca.pem" :> "authority" @@ "other.pem" :> "other authority" @@ "broken.pem" :> "garbage"
    @@ "dir" :> "nothing" @@ "me.pem" :> "me"

MCSigner == [h \in TlsHosts |-> "authority"]

Request(secure, host, params) ==
  Call(<<Param("method", "GET"), Param("url", Location("parsed", secure, host, <<"/">>))>> \o params)

Plain ==
  {Request(FALSE, "a", <<>>), Request(FALSE, "b", <<>>),
   Request(FALSE, "a", <<Param("stream", TRUE)>>),
   Request(FALSE, "a", <<Param("stream", TRUE), Param("stream", FALSE)>>),
   Request(FALSE, "b", <<Param("headers", <<"Host">>)>>)}

Secure ==
  {Request(TRUE, "tls", ps) :
     ps \in {<<>>, <<Param("stream", TRUE)>>, <<Param("verify", Flag(TRUE))>>, <<Param("verify", Flag(FALSE))>>}
            \cup {<<Param("verify", Path(p))>> : p \in DOMAIN MCDisk \ {"me.pem"}}}
  \cup {Request(TRUE, "strict", <<Param("cert", p)>>) : p \in {"me.pem", "dir"}}

Odd ==
  {Call(<<Param("method", "unknown"), Param("url", Location("parsed", FALSE, "b", <<"/">>))>>),
   Call(<<Param("method", "GET"), Param("url", Location("throws", FALSE, "", <<>>))>>),
   Call(<<Param("method", "GET")>>), Edit("erase", "Host")}

MCCalls == Plain \cup Secure \cup Odd

=============================================================================
