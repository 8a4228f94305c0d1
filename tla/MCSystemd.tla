------------------------------ MODULE MCSystemd ------------------------------
(***************************************************************************)
(* Instances of Systemd for TLC.                                           *)
(***************************************************************************)
EXTENDS Systemd, TLC

ssh == Unit("ssh", "service", TRUE, "active")
cron == Unit("cron", "service", TRUE, "reloading")
gone == Unit("gone", "service", FALSE, "inactive")
apt == Unit("apt", "timer", TRUE, "active")
dbus == Unit("dbus", "socket", TRUE, "active")

AllUnits == {ssh, cron, gone, apt, dbus}

(* Services in a state inside and outside unitStatesName, with a timer or a  *)
(* socket, and units that are not loaded, beside others and alone.           *)
Lists == { <<ssh, gone, apt>>, <<cron, dbus>>, <<ssh>>, <<gone>> }
===============================================================================
