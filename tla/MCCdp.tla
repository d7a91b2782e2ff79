------------------------------- MODULE MCCdp -------------------------------
EXTENDS CdpDelivery

CONSTANTS c1, c2

Certificates == {c1, c2}

(* Two scans and two events that overtake each other; every fault; every   *)
(* fault that leaves the two databases in step; one scan at a time and no  *)
(* fault.                                                                  *)
Overtaking == [certs |-> {c1, c2}, kinds |-> ScanKinds,
               faults |-> {"reorder", "torn"}, overlap |-> 2, sends |-> 2]
Hostile == [certs |-> {c1}, kinds |-> ScanKinds, faults |-> AllFaults, overlap |-> 1, sends |-> 3]
Lossy == [certs |-> {c1}, kinds |-> ScanKinds,
          faults |-> AllFaults \ {"legacy", "quarantine"}, overlap |-> 2, sends |-> 2]
Calm == [certs |-> {c1, c2}, kinds |-> {"complete", "named"}, faults |-> {}, overlap |-> 1, sends |-> 3]

MCWorlds == {Overtaking, Hostile, Lossy, Calm}

(* Nothing goes wrong but that a scan starts while another is delivered.   *)
OverlapWorlds == {[certs |-> {c1, c2}, kinds |-> {"complete"}, faults |-> {}, overlap |-> 2, sends |-> 3]}
=============================================================================
