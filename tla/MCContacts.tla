----------------------------- MODULE MCContacts -----------------------------
(* Model values for checking Contacts. *)
EXTENDS Contacts

CONSTANTS n1, n2, r1, r2

MCNodes == {n1, n2}
OneRequest == {r1}
TwoRequests == {r1, r2}
AllDecisions ==
    {"request", "resend", "accept", "block", "unblock", "cancel", "delete",
     "mirror accepted", "mirror blocked"}
AskAndAccept == {"request", "accept"}
AskAndBlock == {"request", "block"}
=============================================================================
