-------------------------- MODULE MCServiceManager ---------------------------
(* Four requests, more than a batch: two for the same unit, a restart of the *)
(* Pi and one for a unit that is not listed.                                 *)
EXTENDS ServiceManager

MCAsks == << [action |-> "start",  unit |-> "dmr-host.service"],
             [action |-> "reboot", unit |-> "system"],
             [action |-> "stop",   unit |-> "dmr-host.service"],
             [action |-> "start",  unit |-> "other.service"] >>
MCListed == {"dmr-host.service", "ysf-host.service"}
MCPowerListed == {"reboot"}
==============================================================================
