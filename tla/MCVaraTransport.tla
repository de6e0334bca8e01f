-------------------------- MODULE MCVaraTransport --------------------------
(* VaraTransport with two setup commands, and what the code says of itself *)
(* and does not do.                                                        *)
EXTENDS VaraTransport

\* read_cmd_line: a read that would block is retried until the deadline.
TimeoutOnlyAtDeadline ==
    [][op.name = "connect" /\ op'.end = "Timeout" => op.age >= ConnectWait]_vars
=============================================================================
