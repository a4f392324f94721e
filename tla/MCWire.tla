------------------------------- MODULE MCWire -------------------------------
(***************************************************************************)
(* A small instance of Wire: one client and one node, on the releases before *)
(* and after the enums of errors and of requests grew.                      *)
(***************************************************************************)
EXTENDS Wire

\* One request of the first release, one that declares a version, and one that
\* is sent only where it is announced.
AskedOfEachAge == {"PutRequest", "QuoteRequestV2", "GetOrCloserRequest"}

=============================================================================
