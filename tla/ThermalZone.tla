------------------------------ MODULE ThermalZone ------------------------------
(***************************************************************************)
(* The thermal_zone collector: collector/thermal_zone_linux.go.  It keeps  *)
(* no state; it reads the thermal zones, sends them, and only then reads   *)
(* the cooling devices.  Both come and go at any time, and both reads may  *)
(* fail.  The values, and the types of zones and devices, are left out.    *)
(***************************************************************************)
EXTENDS Naturals

CONSTANTS
  Zones,            \* thermal zones
  CoolingDevices    \* cooling devices

VARIABLES
  shown,    \* what sysfs shows: [zones, devices]
  pc,       \* control point of Update
  local,    \* locals of Update that outlive a step: none
  past,     \* history: what was read, [zones, devices]
  sent      \* the metrics sent so far

Init ==
  /\ shown \in [zones : SUBSET Zones, devices : SUBSET CoolingDevices]
  /\ pc = "idle"
  /\ local = <<>>
  /\ past = [zones |-> {}, devices |-> {}]
  /\ sent = {}

Series(desc, names) == {[desc |-> desc, name |-> n] : n \in names}

-------------------------------------------------------------------------------
(* sysfs: zones and cooling devices come and go with their drivers.          *)
Change ==
  /\ pc \in {"idle", "zones"}
  /\ shown' \in [zones : SUBSET Zones, devices : SUBSET CoolingDevices]
  /\ UNCHANGED <<pc, local, past, sent>>

(* The zones are read and sent.                                              *)
UpdateZones ==
  /\ pc = "idle"
  /\ pc' = "zones"
  /\ past' = [past EXCEPT !.zones = shown.zones]
  /\ sent' = sent \cup Series("temp", shown.zones)
  /\ UNCHANGED <<shown, local>>

NoDataErrors == {"ErrNotExist", "ErrPermission", "ErrInvalid"}
ReadErrors == NoDataErrors \cup {"EIO"}

(* The zones cannot be read; for three errors the one that is returned says  *)
(* that there are no data.                                                   *)
UpdateZonesFails(err) ==
  /\ pc = "idle"
  /\ pc' = IF err \in NoDataErrors THEN "no data" ELSE "failed"
  /\ UNCHANGED <<shown, local, past, sent>>

(* The cooling devices are read and sent.                                    *)
UpdateDevices ==
  /\ pc = "zones"
  /\ pc' = "done"
  /\ past' = [past EXCEPT !.devices = shown.devices]
  /\ sent' = sent \cup Series("cur_state", shown.devices)
                  \cup Series("max_state", shown.devices)
  /\ UNCHANGED <<shown, local>>

(* Mutant: cooling devices that cannot be read are left out.                 *)
UpdateDevicesSkips ==
  /\ pc = "zones"
  /\ pc' = "done"
  /\ past' = [past EXCEPT !.devices = shown.devices]
  /\ UNCHANGED <<shown, local, sent>>

(* The cooling devices cannot be read: the zones have been sent all the same.*)
UpdateDevicesFails ==
  /\ pc = "zones"
  /\ pc' = "failed"
  /\ UNCHANGED <<shown, local, past, sent>>

Next ==
  \/ Change
  \/ UpdateZones \/ \E err \in ReadErrors : UpdateZonesFails(err)
  \/ UpdateDevices \/ UpdateDevicesFails

-------------------------------------------------------------------------------
(* Properties.                                                               *)

(***************************************************************************)
(* nil means complete: all zones and both states of all cooling devices    *)
(* that were there when each kind was read have been sent.  A failure of   *)
(* the second read is reported, and costs none of the zones.               *)
(***************************************************************************)
ThermalComplete ==
  /\ pc = "done" => sent = Series("temp", past.zones) \cup Series("cur_state", past.devices)
                             \cup Series("max_state", past.devices)
  /\ pc \in {"zones", "failed", "no data"} => sent = Series("temp", past.zones)
===============================================================================
