------------------------------ MODULE MCE1000 -------------------------------
(* Four receive descriptors, so that three frames wait while another is    *)
(* lost, and three transmit descriptors; six frames each way go round both *)
(* rings.                                                                  *)
EXTENDS E1000
=============================================================================
