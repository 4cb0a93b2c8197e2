---------------------------- MODULE MCScorecard ----------------------------
(* Instances of Scorecard for TLC.                                         *)
EXTENDS Scorecard

Remote(cloud, cpu, spdk, mid) ==
  [cloud |-> cloud, cpu |-> cpu, driver |-> "", spdk |-> spdk, qd_mid |-> mid,
   aws_demo |-> FALSE, local |-> FALSE]

AllRequests ==
  {Remote("azure", "N2", TRUE, "16"), Remote("aws", "V1", FALSE, "16"),
   Remote("unknown", "V2", TRUE, "32"),
   [Remote("azure", "N2", TRUE, "16") EXCEPT !.local = TRUE],
   [Remote("azure", "N2", TRUE, "16") EXCEPT !.local = TRUE, !.driver = "kernel"],
   [Remote("aws", "V1", TRUE, "16") EXCEPT !.local = TRUE, !.driver = "kernel"],
   [Remote("aws", "V1", TRUE, "16") EXCEPT !.aws_demo = TRUE]}

(* A measurement of 84.95 us whose I/O rate ends in .9, and one above a    *)
(* millisecond.                                                            *)
SomeJobs ==
  {[read_lat |-> 80000, write_lat |-> 89905, read_iops |-> 61234, write_iops |-> 61235],
   [read_lat |-> 1200000, write_lat |-> 1268155, read_iops |-> 4000, write_iops |-> 4001]}
SomeTotals == {[lat |-> 8495, iops |-> 122469]}
=============================================================================
