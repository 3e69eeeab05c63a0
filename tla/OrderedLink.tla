---------------------------- MODULE OrderedLink ----------------------------
(***************************************************************************)
(* What a shaped direction promises, whatever implements it: items leave   *)
(* in the order in which they entered, each at most once, and nothing      *)
(* leaves that did not enter.  The link may forget items, never reorder    *)
(* the others.  Each direction of UdpShaper and each reservation group of  *)
(* TcpShaper implements it.                                                *)
(***************************************************************************)
EXTENDS Sequences, Integers

CONSTANT Items      \* what may enter the link

VARIABLES line,     \* the items inside the link, oldest first
          used,     \* the items that have entered so far
          got       \* the items that have left, in order

link == <<line, used, got>>

LinkInit ==
    /\ line = <<>>
    /\ used = {}
    /\ got = <<>>

(* An item enters once: the link never duplicates.                         *)
Enter(x) ==
    /\ x \notin used
    /\ used' = used \cup {x}
    /\ line' = Append(line, x)
    /\ UNCHANGED got

(* The oldest item leaves.                                                 *)
Leave ==
    /\ line # <<>>
    /\ got' = Append(got, Head(line))
    /\ line' = Tail(line)
    /\ UNCHANGED used

(* An item inside the link is forgotten.                                   *)
Forget ==
    /\ \E i \in DOMAIN line :
          line' = SubSeq(line, 1, i - 1) \o SubSeq(line, i + 1, Len(line))
    /\ UNCHANGED <<used, got>>

LinkNext ==
    \/ Leave
    \/ Forget
    \/ \E x \in Items : Enter(x)

LinkSpec == LinkInit /\ [][LinkNext]_link
=============================================================================
