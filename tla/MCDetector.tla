----------------------------- MODULE MCDetector -----------------------------
(* Two addresses, two patterns, five lines: one attempt by each address, a  *)
(* line that both patterns match, one whose capture is no address, and one  *)
(* whose group is unset.  Reloads between the two configurations raise and  *)
(* lower the rate, widen and narrow the interval, add and drop an exemption *)
(* and a pattern, and switch the block method.                              *)
EXTENDS Detector, TLC

CONSTANTS a1, a2, p, q, la, lb, lboth, lbad, lunset

MCCapture ==
  (la     :> (p :> a1           @@ q :> NoMatch)) @@
  (lb     :> (p :> NoMatch      @@ q :> a2)) @@
  (lboth  :> (p :> a1           @@ q :> a1)) @@
  (lbad   :> (p :> NotAnAddress @@ q :> NoMatch)) @@
  (lunset :> (p :> NoMatch      @@ q :> NoCapture))

MCConfig ==
  { [patterns |-> <<p, q>>, exempted |-> {}, rate_max |-> 1,
     rate_interval |-> 1, block |-> "iptables"],
    [patterns |-> <<q>>, exempted |-> {a2}, rate_max |-> 2,
     rate_interval |-> 2, block |-> "hosts.deny"] }
=============================================================================
