------------------------------ MODULE MCDBusJobs ------------------------------
(* DBusJobs for TLC: clients are interchangeable.                           *)
EXTENDS DBusJobs, TLC

ClientSymmetry == Permutations(Clients)
=============================================================================
