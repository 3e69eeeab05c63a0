---------------------------- MODULE ShapedLink -----------------------------
(***************************************************************************)
(* The shaper of one run of a stand: the stand picks one implementation by *)
(* its arguments when it prepares the network.  Two of them share the      *)
(* clock and the rate of ShaperClock; the third asks a worker for them.    *)
(***************************************************************************)
EXTENDS UdpShaper, TcpShaper, ShaperControl

VARIABLE kind       \* which shaper this run of the stand uses

linkVars == <<kind, clockVars, udpVars, tcpVars, controlVars>>

(* --transport and --shaper-process of the stand.                          *)
Init ==
    /\ kind \in {"udp", "tcp", "process"}
    /\ ClockInit
    /\ UdpInit
    /\ TcpInit
    /\ ControlInit

(* The clock runs and the stand sets the rate of a shaper of its own.      *)
Timing ==
    /\ kind # "process"
    /\ Tick \/ \E r \in Rates : SetRate(r)
    /\ UNCHANGED <<udpVars, tcpVars, controlVars>>

Next ==
    /\ UNCHANGED kind
    /\ \/ Timing
       \/ kind = "udp" /\ UdpStep /\ UNCHANGED <<clockVars, tcpVars, controlVars>>
       \/ kind = "tcp" /\ TcpStep /\ UNCHANGED <<clockVars, udpVars, controlVars>>
       \/ kind = "process" /\ ControlNext /\ UNCHANGED <<clockVars, udpVars, tcpVars>>

Spec == Init /\ [][Next]_linkVars
=============================================================================
