----------------------------- MODULE MCHttpFetch -----------------------------
(* HttpFetch with one URL for each way validation can go. *)
EXTENDS HttpFetch

MCUrls ==
  { [parses |-> p, requestable |-> q, scheme |-> s, host |-> h] :
      p \in BOOLEAN, q \in BOOLEAN, s \in {"https", "ftp"}, h \in {"name", NoHost, Unencodable} }
=============================================================================
