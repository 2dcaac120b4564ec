------------------------------ MODULE SecureSetup ------------------------------
(***************************************************************************)
(* How send_secure sets up its TLS stream: the context, the stream made    *)
(* from it, and what verify(...) and cert(...) do to either, in the order  *)
(* of the code.                                                            *)
(***************************************************************************)
CONSTANT
  Disk          \* what is at each path: "nothing" (no regular file), "garbage" (no PEM),
                \* the name of an authority or that of a client certificate

\* An argument of verify: a flag or a path; and none at all.
Flag(b) == [kind |-> "flag", on |-> b, path |-> ""]
Path(p) == [kind |-> "path", on |-> TRUE, path |-> p]
NotGiven == [kind |-> "none", on |-> FALSE, path |-> ""]

\* The context trusts no authority and has no certificate.
NewContext == [trusted |-> {}, cert |-> "nothing"]

\* The stream shares the authorities of its context, and has a copy of its certificate, as
\* it is at that moment; it verifies nothing.
NewStream(ctx) == [verifies |-> FALSE, cert |-> ctx.cert]

VerifiesIfFile(s, verify) == \* (mutant) only with the file that is there
  [s EXCEPT !.verifies =
     verify.on /\ (verify.kind = "path" => Disk[verify.path] # "nothing")]

\* set_verify_mode.
SetVerifyMode(s, verify) == [s EXCEPT !.verifies = verify.on]

\* load_verify_file, which throws on what is no PEM; a path where there is no regular file
\* is passed over.
LoadThrows(verify) == verify.kind = "path" /\ Disk[verify.path] = "garbage"
LoadVerifyFile(ctx, verify) ==
  IF verify.kind = "path" /\ Disk[verify.path] # "nothing"
  THEN [ctx EXCEPT !.trusted = @ \cup {Disk[verify.path]}] ELSE ctx

\* use_certificate_file; its error code is not the one that is looked at.
UseCertificateFile(ctx, cert) ==
  IF cert # "" /\ Disk[cert] \notin {"nothing", "garbage"} THEN [ctx EXCEPT !.cert = Disk[cert]] ELSE ctx

\* What the handshake is done with: the stream is made before the certificate is loaded.
Prepared(verify, cert) ==
  LET stream == SetVerifyMode(NewStream(NewContext), verify)
      ctx == UseCertificateFile(LoadVerifyFile(NewContext, verify), cert)
  IN  [verifies |-> stream.verifies, trusted |-> ctx.trusted, presents |-> stream.cert]

=============================================================================
