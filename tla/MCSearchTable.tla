--------------------------- MODULE MCSearchTable ---------------------------
(* Model checking of SearchTable: pages of two documents, copied when more *)
(* than three are held, so that copies are made in the loop and after it.  *)
EXTENDS SearchTable

SomeDocuments == 1 .. 6
=============================================================================
