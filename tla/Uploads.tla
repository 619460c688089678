------------------------------- MODULE Uploads -------------------------------
(***************************************************************************)
(* The two uploads of the portal side by side: documents (DeviceStore) and *)
(* firmware (Ota).  They share the httpd task, which serves one request at *)
(* a time, and the gateway they run on: a restart that an update asked for *)
(* meets whatever the portal is doing 500 ms later, as a power failure     *)
(* does.                                                                   *)
(***************************************************************************)
EXTENDS DeviceStore

CONSTANTS Images, Junk

ASSUME JunkAssumption == Junk \notin Images

VARIABLES part, boot, run, at, upload, restart, told

Firmware == INSTANCE Ota WITH Pieces <- Chunks

firmware == <<part, boot, run, at, upload, restart, told>>
both == <<vars, firmware>>

BothInit == Init /\ Firmware!Init

(* The boot loader comes first; requests are served one after another. *)
StoreStep ==
  /\ at = "idle"
  /\ Boot \/ Start \/ Upload \/ Finish
  /\ UNCHANGED firmware

FirmwareStep ==
  /\ \/ Firmware!BootImage
     \/ pc = "idle" /\ (Firmware!Start \/ Firmware!Receive \/ Firmware!Finish)
  /\ UNCHANGED vars

BothDown == Down /\ Firmware!Down

PowerOff == crashes < MaxCrashes /\ crashes' = crashes + 1 /\ BothDown

(* reboot_task: 500 ms after the answer, whatever is under way. *)
Restart == restart /\ BothDown /\ UNCHANGED crashes

BothNext == StoreStep \/ FirmwareStep \/ PowerOff \/ Restart

BothSpec == BothInit /\ [][BothNext]_both

(* The httpd task runs, and its recv returns after the timeout at latest.  *)
BothFair ==
  /\ BothSpec
  /\ WF_both(at = "idle" /\ Boot /\ UNCHANGED firmware)
  /\ WF_both(at = "idle" /\ Finish /\ UNCHANGED firmware)
  /\ WF_both(at = "idle" /\ PostSilent /\ UNCHANGED firmware)
  /\ WF_both(at = "idle" /\ PostTimesOut /\ UNCHANGED firmware)
  /\ WF_both((Firmware!BootImage \/ Firmware!Finish) /\ UNCHANGED vars)
  /\ WF_both(Firmware!OtaSilent /\ UNCHANGED vars)
  /\ WF_both(Firmware!OtaTimesOut /\ UNCHANGED vars)

-----------------------------------------------------------------------------
(* Types, of the documents and of the firmware.                            *)
BothTypeOK ==
  /\ TypeOK
  /\ part \in [{0, 1} -> Images \cup {Junk}] /\ boot \in {0, 1} /\ run \in {0, 1}
  /\ at \in {"off", "idle", "recv", "set"}
  /\ upload \in [ver : Images \cup {Junk}, got : 0 .. Chunks, silent : 0 .. MaxIdle - 1]
  /\ restart \in BOOLEAN /\ told \in Images \cup {Junk}

(* Types, no half document, and no temporary file left behind.             *)
Safety == BothTypeOK /\ NeverHalf /\ NoTempLeft

(* Whatever interrupts an update, and a second one before the restart of   *)
(* the first, the gateway keeps an image it can start, and never writes    *)
(* into the one it runs.                                                   *)
AlwaysBootable == part[run] # Junk /\ (at = "off" => \E p \in {0, 1} : part[p] # Junk)

(* An update that was confirmed runs after the next start, unless another  *)
(* update has begun to overwrite it.                                       *)
ConfirmedRuns == at # "off" /\ ~restart /\ told # Junk => part[run] = told

(* A client that announces an image and then says nothing does not keep    *)
(* the portal's only task (http_portal.c:1017-1020).                       *)
UpdateEnds == at = "recv" ~> at # "recv"


(* Neither of the two uploads keeps the portal's only task waiting.        *)
UploadsEnd == UploadEnds /\ UpdateEnds

=============================================================================
