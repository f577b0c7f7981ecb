------------------------------ MODULE MCIngest ------------------------------
(***************************************************************************)
(* Two clients: one posts a batch whose second transition may be malformed *)
(* or routed to the demo ring, the other posts one transition or no list.  *)
(***************************************************************************)
EXTENDS Ingest

CONSTANTS c1, c2

T(i, w) == [intervention |-> i, whole |-> w]
Body(trs) == [list |-> TRUE, trs |-> trs]

MCBodies ==
  {Body(<<T("no", TRUE), T("yes", TRUE)>>), Body(<<T("absent", TRUE), T("no", FALSE)>>),
   Body(<<T("yes", TRUE), T("yes", FALSE)>>), [list |-> FALSE, trs |-> <<>>]}
==============================================================================
