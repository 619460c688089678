--------------------------------- MODULE Ota ---------------------------------
(***************************************************************************)
(* Firmware updates over the portal: h_ota in src/main/http_portal.c and   *)
(* the restart it schedules in src/main/mode_mgr.c.                        *)
(*                                                                         *)
(* Two partitions take turns.  An image is written piece by piece into the *)
(* partition that does not run, verified, made the one to boot, and then   *)
(* the gateway restarts.  Until that restart the portal serves requests,   *)
(* another update among them.  The boot loader (external) starts the       *)
(* partition that was chosen and, if it finds no valid image there, the    *)
(* other one.  Roll-back is not configured.                                *)
(*                                                                         *)
(* Abstracted: an image is its version, and Junk is what cannot be booted; *)
(* requests refused for authentication change nothing.                     *)
(***************************************************************************)
EXTENDS Integers

CONSTANTS
  Images,   \* firmware versions
  Junk,     \* a partition without a valid image
  Pieces,   \* pieces of an image
  MaxIdle   \* MAX_IDLE

VARIABLES
  part,     \* what the partitions hold
  boot,     \* the partition chosen to boot
  run,      \* the partition that runs
  at,       \* where the boot loader or the httpd task stands in h_ota
  upload,   \* version being uploaded (Junk: damaged), pieces received, timeouts
  restart,  \* a restart is scheduled
  told      \* history: the version the last update was confirmed for, or Junk

vars == <<part, boot, run, at, upload, restart, told>>

Slots == {0, 1}
Other(p) == 1 - p
NoUpload == [ver |-> Junk, got |-> 0, silent |-> 0]

Init ==
  /\ part \in {[p \in Slots |-> IF p = 0 THEN v ELSE Junk] : v \in Images}
  /\ boot = 0 /\ run = 0 /\ at = "off" /\ upload = NoUpload
  /\ restart = FALSE /\ told = Junk

Go(from, to) == at = from /\ at' = to

(* The boot loader. *)
BootImage ==
  /\ Go("off", "idle")
  /\ run' = IF part[boot] # Junk THEN boot ELSE Other(boot)
  /\ UNCHANGED <<part, boot, upload, restart, told>>

(* Fault: the partition after the chosen one instead of the running one. *)
TargetAfterBoot == Other(boot)

(* esp_ota_get_next_update_partition. *)
Target == Other(run)

(* Nothing is erased before the first piece comes; and beginning may fail. *)
OtaStart(v) ==
  /\ Go("idle", "recv")
  /\ upload' = [NoUpload EXCEPT !.ver = v]
  /\ UNCHANGED <<part, boot, run, restart, told>>

(* esp_ota_write erases what it is about to write. *)
OtaPiece ==
  /\ Go("recv", "recv")
  /\ upload.got < Pieces
  /\ part' = [part EXCEPT ![Target] = IF upload.got + 1 = Pieces THEN upload.ver ELSE Junk]
  /\ upload' = [upload EXCEPT !.got = @ + 1, !.silent = 0]
  /\ told' = IF Target = boot THEN Junk ELSE told
  /\ UNCHANGED <<boot, run, restart>>

(* The client is gone, or the flash cannot be written. *)
OtaAborts ==
  /\ Go("recv", "idle")
  /\ upload.got < Pieces
  /\ upload' = NoUpload
  /\ UNCHANGED <<part, boot, run, restart, told>>

OtaSilent ==
  /\ Go("recv", "recv")
  /\ upload.got < Pieces
  /\ upload.silent + 1 < MaxIdle
  /\ upload' = [upload EXCEPT !.silent = @ + 1]
  /\ UNCHANGED <<part, boot, run, restart, told>>

OtaTimesOut == upload.silent + 1 >= MaxIdle /\ OtaAborts

(* esp_ota_end: a damaged image is refused. *)
OtaEnd ==
  /\ at = "recv" /\ upload.got = Pieces
  /\ IF upload.ver = Junk THEN at' = "idle" /\ upload' = NoUpload
                          ELSE at' = "set" /\ UNCHANGED upload
  /\ UNCHANGED <<part, boot, run, restart, told>>

(* Fault: a choice that could not be stored is reported as an update. *)
OtaSetBootBlindly ==
  /\ Go("set", "idle")
  /\ boot' \in {boot, Target} /\ restart' = TRUE /\ told' = upload.ver
  /\ upload' = NoUpload
  /\ UNCHANGED <<part, run>>

(* esp_ota_set_boot_partition, the answer, and the restart. *)
OtaSetBoot ==
  /\ Go("set", "idle")
  /\ \/ boot' = Target /\ restart' = TRUE /\ told' = upload.ver
     \/ UNCHANGED <<boot, restart, told>>
  /\ upload' = NoUpload
  /\ UNCHANGED <<part, run>>

(* h_reboot, and h_factory when it is done. *)
AskRestart ==
  /\ at = "idle" /\ restart' = TRUE
  /\ UNCHANGED <<part, boot, run, at, upload, told>>

Down ==
  /\ at' = "off" /\ upload' = NoUpload /\ restart' = FALSE
  /\ UNCHANGED <<part, boot, run, told>>

Start   == (\E v \in Images \cup {Junk} : OtaStart(v)) \/ AskRestart
Receive == OtaPiece \/ OtaAborts \/ OtaSilent \/ OtaTimesOut
Finish  == OtaEnd \/ OtaSetBoot

=============================================================================
