---------------------------- MODULE Uploads_proofs ----------------------------
(***************************************************************************)
(* Proofs about the portal's two uploads, for any documents and images,    *)
(* any number of pieces and any number of power failures.                  *)
(*                                                                         *)
(* The invariant says where the store and the update stand, and of each    *)
(* place what it has secured: who is about to replace a document holds a   *)
(* whole temporary file of the version it was asked to store (StoreInv);   *)
(* who is about to choose a partition has written it whole, and what was   *)
(* confirmed lies in the chosen partition until it is overwritten          *)
(* (UpdateInv).                                                            *)
(***************************************************************************)
EXTENDS Uploads, TLAPS

(* What each place of the httpd task in the store relies on.               *)
StoreInv ==
  /\ pc = "init" => ~mounted
  /\ pc \in {"sweep", "recv", "unlink", "rename", "clear"} => mounted
  /\ pc = "recv" => tmp.ver = up /\ up \in Versions
  /\ pc \in {"unlink", "rename"} =>
       tmp.ver = up /\ up \in Versions /\ tmp.len = Chunks
  /\ pc \in {"clear", "answer"} /\ mounted /\ ~stuck => tmp = NoFile
  /\ pc = "clear" => up = NoDoc
  /\ pc = "unlink" => old = doc.ver
  /\ pc = "rename" => doc = NoFile \/ doc.ver = old

(* What each place in an update relies on, and what a confirmation means.  *)
UpdateInv ==
  /\ at = "recv" /\ upload.got = Chunks => part[1 - run] = upload.ver
  /\ at = "set" => part[1 - run] = upload.ver /\ upload.ver # Junk
  /\ told # Junk => part[boot] = told
  /\ told # Junk /\ at # "off" /\ ~restart => run = boot

FirmwareTypeOK ==
  /\ part \in [{0, 1} -> Images \cup {Junk}] /\ boot \in {0, 1} /\ run \in {0, 1}
  /\ at \in {"off", "idle", "recv", "set"}
  /\ upload \in [ver : Images \cup {Junk}, got : 0 .. Chunks, silent : 0 .. MaxIdle - 1]
  /\ restart \in BOOLEAN /\ told \in Images \cup {Junk}

DocumentInv == TypeOK /\ NeverHalf /\ NoTempLeft /\ StoreInv
ImageInv    == FirmwareTypeOK /\ AlwaysBootable /\ UpdateInv

(* The inductive invariant. *)
UploadsInv == DocumentInv /\ ImageInv

USE NoDocAssumption, ChunksAssumption, IdleAssumption, CrashesAssumption, JunkAssumption

-----------------------------------------------------------------------------
(* No file and the files of documents are told apart by their version, as  *)
(* no document has no version.                                             *)
LEMMA FileFacts ==
  /\ NoFile \in File
  /\ NoFile.ver = NoDoc
  /\ \A f \in File : f.ver \in Versions \cup {NoDoc} /\ f.len \in 0 .. Chunks
  /\ \A f \in File : f # NoFile <=> f.ver \in Versions
  /\ \A f \in File : f = NoFile <=> f.ver = NoDoc
  BY DEF NoFile, File

LEMMA FileCut ==
  ASSUME NEW f \in File, f # NoFile, NEW n \in 0 .. Chunks
  PROVE  /\ [f EXCEPT !.len = n] \in File
         /\ [f EXCEPT !.len = n].ver = f.ver
         /\ [f EXCEPT !.len = n].len = n
  BY DEF NoFile, File

-----------------------------------------------------------------------------
(* The document store.                                                     *)

(* The parts of the store's type, apart since the provers take flags,      *)
(* numbers and files by different ways.                                    *)
Flags   == mounted \in BOOLEAN /\ gap \in BOOLEAN /\ stuck \in BOOLEAN
Numbers == silent \in 0 .. MaxIdle - 1 /\ code \in {0, 200, 400, 500, 507}
Files   == /\ doc \in File /\ tmp \in File /\ pc \in Pcs
           /\ up \in Versions \cup {NoDoc} /\ old \in Versions \cup {NoDoc}

LEMMA DocumentParts ==
  DocumentInv <=> /\ Flags /\ Numbers /\ Files /\ crashes \in 0 .. MaxCrashes
                  /\ NeverHalf /\ NoTempLeft /\ StoreInv
  BY DEF DocumentInv, TypeOK, Flags, Numbers, Files

LEMMA InitInv == BothInit => UploadsInv
  <1> SUFFICES ASSUME BothInit PROVE UploadsInv
    OBVIOUS
  <1>1. DocumentInv
    <2>1. Flags
      BY DEF BothInit, Init, Flags
    <2>2. Numbers /\ crashes \in 0 .. MaxCrashes
      BY DEF BothInit, Init, Numbers
    <2>3. Files /\ NeverHalf /\ NoTempLeft /\ StoreInv
      BY FileFacts DEF BothInit, Init, Files, Pcs, NeverHalf, NoTempLeft, StoreInv
    <2> QED BY <2>1, <2>2, <2>3, DocumentParts
  <1>2. PICK v \in Images : part = [p \in {0, 1} |-> IF p = 0 THEN v ELSE Junk]
    BY DEF BothInit, Firmware!Init, Firmware!Slots
  <1>3. part[0] = v /\ part[0] # Junk
    BY <1>2
  <1>4. FirmwareTypeOK
    <2>1. restart \in BOOLEAN
      BY DEF BothInit, Firmware!Init
    <2>2. upload \in [ver : Images \cup {Junk}, got : 0 .. Chunks, silent : 0 .. MaxIdle - 1]
      BY DEF BothInit, Firmware!Init, Firmware!NoUpload
    <2>3. part \in [{0, 1} -> Images \cup {Junk}] /\ boot \in {0, 1} /\ run \in {0, 1}
      BY <1>2 DEF BothInit, Firmware!Init
    <2>4. at \in {"off", "idle", "recv", "set"} /\ told \in Images \cup {Junk}
      BY DEF BothInit, Firmware!Init
    <2> QED BY <2>1, <2>2, <2>3, <2>4 DEF FirmwareTypeOK
  <1>5. AlwaysBootable /\ UpdateInv
    BY <1>3 DEF BothInit, Firmware!Init, AlwaysBootable, UpdateInv
  <1> QED BY <1>1, <1>4, <1>5 DEF UploadsInv, ImageInv

StoreActs == Boot \/ Start \/ Upload \/ Finish

LEMMA FlagsKept == ASSUME Flags, StoreActs \/ Down PROVE Flags'
  <1> USE DEF Flags, Go, Answer, UnlinkTmp
  <1>1. CASE Boot
    BY <1>1 DEF Boot, Mount, Sweep
  <1>2. CASE Start
    BY <1>2 DEF Start, PostStart, ClearStart
  <1>3. CASE Upload
    BY <1>3 DEF Upload, PostChunk, PostSilent, PostAborts, PostTimesOut
  <1>4. CASE Finish
    BY <1>4 DEF Finish, PostClose, PostUnlink, PostRename, ClearDoc, AnswerSent
  <1>5. CASE Down
    <2>1. mounted' \in BOOLEAN /\ gap' \in BOOLEAN
      BY <1>5 DEF Down
    <2>2. stuck' \in BOOLEAN
      BY <1>5, Zenon DEF Down
    <2> QED BY <2>1, <2>2
  <1> QED BY <1>1, <1>2, <1>3, <1>4, <1>5 DEF StoreActs

LEMMA NumbersKept == ASSUME Numbers, StoreActs \/ Down PROVE Numbers'
  <1> USE DEF Numbers, Go, Answer, UnlinkTmp
  <1>1. CASE Boot
    BY <1>1 DEF Boot, Mount, Sweep
  <1>2. CASE Start
    BY <1>2 DEF Start, PostStart, ClearStart
  <1>3. CASE Upload
    BY <1>3 DEF Upload, PostChunk, PostSilent, PostAborts, PostTimesOut
  <1>4. CASE Finish
    BY <1>4 DEF Finish, PostClose, PostUnlink, PostRename, ClearDoc, AnswerSent
  <1>5. CASE Down
    BY <1>5 DEF Down
  <1> QED BY <1>1, <1>2, <1>3, <1>4, <1>5 DEF StoreActs

(* The files, and what the places rely on. *)
Relies == Files /\ NeverHalf /\ NoTempLeft /\ StoreInv

LEMMA BootRelies == Relies /\ Boot => Relies'
  BY FileFacts DEF Relies, Files, Pcs, NeverHalf, NoTempLeft, StoreInv, Go, Boot, Mount, Sweep, UnlinkTmp

LEMMA StartRelies == Relies /\ Start => Relies'
  <1> SUFFICES ASSUME Relies, Start PROVE Relies'
    OBVIOUS
  <1> USE FileFacts DEF Relies, Files, Pcs, NeverHalf, NoTempLeft, StoreInv, Answer, UnlinkTmp
  <1>1. ASSUME NEW v \in Versions, PostStart(v) PROVE Relies'
    <2> DEFINE f == [ver |-> v, len |-> 0]
    <2>1. f \in File /\ f.ver = v
      BY DEF File
    <2> HIDE DEF f
    <2>2. CASE mounted /\ tmp' = f /\ up' = v /\ pc' = "recv"
      BY <1>1, <2>1, <2>2 DEF PostStart
    <2>3. CASE pc' = "answer" /\ UNCHANGED <<tmp, up>>
      BY <1>1, <2>3 DEF PostStart
    <2> QED BY <1>1, <2>2, <2>3 DEF PostStart, f
  <1>2. CASE ClearStart
    <2>1. up' = NoDoc /\ UNCHANGED <<mounted, doc, old>>
      BY <1>2 DEF ClearStart
    <2>2. CASE mounted /\ UnlinkTmp /\ pc' = "clear"
      <3>1. tmp' \in {tmp, NoFile} /\ stuck' = (tmp' # NoFile)
        BY <2>2
      <3> QED BY <2>1, <2>2, <3>1
    <2>3. CASE ~mounted /\ pc' = "answer" /\ UNCHANGED <<tmp, stuck>>
      BY <2>1, <2>3
    <2> QED BY <1>2, <2>2, <2>3 DEF ClearStart
  <1> QED BY <1>1, <1>2 DEF Start

LEMMA UploadRelies == Relies /\ Upload => Relies'
  <1> SUFFICES ASSUME Relies, Upload PROVE Relies'
    OBVIOUS
  <1> USE FileFacts DEF Relies, Files, Pcs, NeverHalf, NoTempLeft, StoreInv
  <1>1. CASE PostChunk
    <2>1. tmp \in File /\ tmp # NoFile /\ pc = "recv"
      BY <1>1 DEF PostChunk, Go
    <2>2. tmp.len + 1 \in 0 .. Chunks
      BY <1>1, <2>1 DEF PostChunk
    <2>3. tmp' \in File /\ tmp'.ver = up
      BY <1>1, <2>1, <2>2, FileCut DEF PostChunk
    <2>4. pc' = "recv" /\ UNCHANGED <<mounted, doc, up, old>>
      BY <1>1 DEF PostChunk, Go
    <2> QED BY <2>1, <2>3, <2>4
  <1>2. CASE PostSilent
    <2>1. pc = "recv" /\ pc' = "recv" /\ UNCHANGED <<mounted, doc, tmp, up, old>>
      BY <1>2 DEF PostSilent, Go
    <2> QED BY <2>1
  <1>3. CASE PostAborts
    <2>1. pc = "recv" /\ pc' = "answer" /\ tmp' \in {tmp, NoFile} /\ stuck' = (tmp' # NoFile)
          /\ UNCHANGED <<mounted, doc, up, old>>
      BY <1>3 DEF PostAborts, Answer, UnlinkTmp
    <2> QED BY <2>1
  <1> QED BY <1>1, <1>2, <1>3 DEF Upload, PostTimesOut

LEMMA FinishRelies == Relies /\ Finish => Relies'
  <1> SUFFICES ASSUME Relies, Finish PROVE Relies'
    OBVIOUS
  <1> USE FileFacts DEF Relies, Files, Pcs, NeverHalf, NoTempLeft, StoreInv, Go, Answer, UnlinkTmp
  <1>1. CASE PostClose
    <2>1. pc = "recv" /\ tmp.len = Chunks /\ old' = doc.ver /\ UNCHANGED <<mounted, doc, up>>
      BY <1>1 DEF PostClose
    <2>2. CASE pc' = "unlink" /\ UNCHANGED <<tmp, stuck>>
      BY <2>1, <2>2
    <2>3. CASE UnlinkTmp /\ pc' = "answer"
      <3>1. tmp' \in {tmp, NoFile} /\ stuck' = (tmp' # NoFile)
        BY <2>3
      <3> QED BY <2>1, <2>3, <3>1
    <2> QED BY <1>1, <2>2, <2>3 DEF PostClose
  <1>2. CASE PostUnlink
    BY <1>2 DEF PostUnlink
  <1>3. CASE PostRename
    <2>1. pc = "rename" /\ pc' = "answer" /\ UNCHANGED <<mounted, up, old>>
      BY <1>3 DEF PostRename
    <2>2. CASE doc' = tmp /\ tmp' = NoFile
      BY <2>1, <2>2
    <2>3. CASE UnlinkTmp /\ doc' = doc
      <3>1. tmp' \in {tmp, NoFile} /\ stuck' = (tmp' # NoFile)
        BY <2>3
      <3> QED BY <2>1, <2>3, <3>1
    <2> QED BY <1>3, <2>2, <2>3 DEF PostRename
  <1>4. CASE ClearDoc
    BY <1>4 DEF ClearDoc
  <1>5. CASE AnswerSent
    BY <1>5 DEF AnswerSent
  <1> QED BY <1>1, <1>2, <1>3, <1>4, <1>5 DEF Finish

(* Whatever is lost of an unfinished upload, the documents stay whole.     *)
LEMMA DownRelies == Relies /\ Down => Relies'
  <1> SUFFICES ASSUME Relies, Down PROVE Relies'
    OBVIOUS
  <1> USE FileFacts DEF Relies, Files, Pcs, NeverHalf, NoTempLeft, StoreInv
  <1>1. tmp' \in File
    <2>1. CASE pc = "recv"
      <3>1. PICK n \in 0 .. tmp.len : tmp' = [tmp EXCEPT !.len = n]
        BY <2>1 DEF Down
      <3>2. n \in 0 .. Chunks /\ tmp # NoFile
        BY <2>1
      <3> QED BY <3>1, <3>2, FileCut
    <2>2. CASE pc # "recv"
      BY <2>2 DEF Down
    <2> QED BY <2>1, <2>2
  <1>2. pc' = "init" /\ mounted' = FALSE /\ up' = NoDoc /\ old' = NoDoc /\ doc' = doc /\ stuck' = stuck
    BY DEF Down
  <1> QED BY <1>1, <1>2

LEMMA StoreActsKeepCrashes == StoreActs => crashes' = crashes
  BY DEF StoreActs, Boot, Mount, Sweep, Start, PostStart, ClearStart, Upload, PostChunk, PostSilent,
         PostAborts, PostTimesOut, Finish, PostClose, PostUnlink, PostRename, ClearDoc, AnswerSent

LEMMA StoreKeepsInv ==
  ASSUME DocumentInv, StoreActs, crashes' = crashes PROVE DocumentInv'
  <1>1. Flags' /\ Numbers'
    BY DocumentParts, FlagsKept, NumbersKept
  <1>2. Relies'
    BY DocumentParts, BootRelies, StartRelies, UploadRelies, FinishRelies DEF StoreActs, Relies
  <1>3. crashes' \in 0 .. MaxCrashes
    BY DocumentParts
  <1> QED BY <1>1, <1>2, <1>3 DEF Relies, DocumentInv, TypeOK, Flags, Numbers, Files

LEMMA DownKeepsInv ==
  ASSUME DocumentInv, Down, crashes' \in 0 .. MaxCrashes PROVE DocumentInv'
  <1>1. Flags' /\ Numbers'
    BY DocumentParts, FlagsKept, NumbersKept
  <1>2. Relies'
    BY DocumentParts, DownRelies DEF Relies
  <1> QED BY <1>1, <1>2 DEF Relies, DocumentInv, TypeOK, Flags, Numbers, Files

LEMMA DocumentUnchanged == DocumentInv /\ UNCHANGED vars => DocumentInv'
  BY DEF DocumentInv, TypeOK, NeverHalf, NoTempLeft, StoreInv, vars

-----------------------------------------------------------------------------
(* The firmware.                                                           *)

LEMMA ImageKept ==
  ASSUME ImageInv, Firmware!BootImage \/ Firmware!Start \/ Firmware!Receive \/ Firmware!Finish
  PROVE  ImageInv'
  <1> USE DEF ImageInv, FirmwareTypeOK, AlwaysBootable, UpdateInv, Firmware!Go, Firmware!Target,
              Firmware!Other, Firmware!NoUpload
  <1>1. CASE Firmware!BootImage
    BY <1>1 DEF Firmware!BootImage
  <1>2. ASSUME NEW v \in Images \cup {Junk}, Firmware!OtaStart(v) PROVE ImageInv'
    BY <1>2 DEF Firmware!OtaStart
  <1>3. CASE Firmware!AskRestart
    BY <1>3 DEF Firmware!AskRestart
  <1>4. CASE Firmware!OtaPiece
    <2>1. 1 - run \in {0, 1} /\ 1 - run # run
      OBVIOUS
    <2>2. upload'.got = upload.got + 1 /\ upload'.ver = upload.ver /\ upload.got + 1 \in 0 .. Chunks
      BY <1>4 DEF Firmware!OtaPiece
    <2>3. part'[run] = part[run]
      BY <1>4, <2>1 DEF Firmware!OtaPiece
    <2>4. upload.got + 1 = Chunks => part'[1 - run] = upload.ver
      BY <1>4, <2>1 DEF Firmware!OtaPiece
    <2>5. boot # 1 - run => part'[boot] = part[boot]
      BY <1>4 DEF Firmware!OtaPiece
    <2>6. FirmwareTypeOK'
      <3>1. restart' = restart /\ at' = at /\ boot' = boot /\ run' = run
        BY <1>4 DEF Firmware!OtaPiece
      <3>2. upload' \in [ver : Images \cup {Junk}, got : 0 .. Chunks, silent : 0 .. MaxIdle - 1]
        <4>1. /\ upload \in [ver : Images \cup {Junk}, got : 0 .. Chunks, silent : 0 .. MaxIdle - 1]
              /\ upload' = [upload EXCEPT !.got = @ + 1, !.silent = 0]
          BY <1>4 DEF Firmware!OtaPiece
        <4>2. 0 \in 0 .. MaxIdle - 1
          OBVIOUS
        <4> QED BY <4>1, <4>2, <2>2
      <3>3. part' \in [{0, 1} -> Images \cup {Junk}] /\ told' \in Images \cup {Junk}
        BY <1>4, <2>1 DEF Firmware!OtaPiece
      <3> QED BY <3>1, <3>2, <3>3
    <2>7. UpdateInv'
      BY <1>4, <2>2, <2>4, <2>5 DEF Firmware!OtaPiece
    <2>8. AlwaysBootable'
      BY <1>4, <2>3 DEF Firmware!OtaPiece
    <2> QED BY <2>6, <2>7, <2>8
  <1>5. CASE Firmware!OtaAborts
    BY <1>5 DEF Firmware!OtaAborts
  <1>6. CASE Firmware!OtaSilent
    BY <1>6 DEF Firmware!OtaSilent
  <1>7. CASE Firmware!OtaEnd
    BY <1>7 DEF Firmware!OtaEnd
  <1>8. CASE Firmware!OtaSetBoot
    <2>1. at = "set" /\ at' = "idle" /\ UNCHANGED <<part, run>>
          /\ upload' = [ver |-> Junk, got |-> 0, silent |-> 0]
      BY <1>8 DEF Firmware!OtaSetBoot
    <2>2. \/ boot' = 1 - run /\ restart' = TRUE /\ told' = upload.ver
          \/ UNCHANGED <<boot, restart, told>>
      BY <1>8 DEF Firmware!OtaSetBoot
    <2>3. upload' \in [ver : Images \cup {Junk}, got : 0 .. Chunks, silent : 0 .. MaxIdle - 1]
      BY <2>1
    <2>4. restart' \in BOOLEAN
      BY <2>2
    <2>5. boot' \in {0, 1} /\ told' \in Images \cup {Junk}
      BY <2>2
    <2>6. told' # Junk => part'[boot'] = told'
      BY <2>1, <2>2
    <2>7. told' # Junk /\ ~restart' => run' = boot'
      BY <2>1, <2>2
    <2> QED BY <2>1, <2>3, <2>4, <2>5, <2>6, <2>7
  <1> QED BY <1>1, <1>2, <1>3, <1>4, <1>5, <1>6, <1>7, <1>8
          DEF Firmware!Start, Firmware!Receive, Firmware!Finish, Firmware!OtaTimesOut

LEMMA ImageDown == ImageInv /\ Firmware!Down => ImageInv'
  <1> SUFFICES ASSUME ImageInv, Firmware!Down PROVE ImageInv'
    OBVIOUS
  <1> USE DEF ImageInv, FirmwareTypeOK
  <1>1. at' = "off" /\ restart' = FALSE /\ UNCHANGED <<part, boot, run, told>>
        /\ upload' = [ver |-> Junk, got |-> 0, silent |-> 0]
    BY DEF Firmware!Down, Firmware!NoUpload
  <1>2. upload' \in [ver : Images \cup {Junk}, got : 0 .. Chunks, silent : 0 .. MaxIdle - 1]
    BY <1>1
  <1>3. FirmwareTypeOK'
    BY <1>1, <1>2
  <1>4. AlwaysBootable' /\ UpdateInv'
    BY <1>1 DEF AlwaysBootable, UpdateInv
  <1> QED BY <1>3, <1>4

LEMMA ImageUnchanged == ImageInv /\ UNCHANGED firmware => ImageInv'
  BY DEF ImageInv, FirmwareTypeOK, AlwaysBootable, UpdateInv, firmware

-----------------------------------------------------------------------------
LEMMA StepKeepsInv == UploadsInv /\ [BothNext]_both => UploadsInv'
  <1> SUFFICES ASSUME UploadsInv, [BothNext]_both PROVE UploadsInv'
    OBVIOUS
  <1> USE DEF UploadsInv
  <1>1. CASE StoreStep
    <2>1. StoreActs /\ UNCHANGED firmware
      BY <1>1 DEF StoreStep, StoreActs
    <2>2. crashes' = crashes
      BY <2>1, StoreActsKeepCrashes
    <2> QED BY <2>1, <2>2, StoreKeepsInv, ImageUnchanged
  <1>2. CASE FirmwareStep
    BY <1>2, ImageKept, DocumentUnchanged DEF FirmwareStep
  <1>3. CASE PowerOff
    <2>1. crashes' \in 0 .. MaxCrashes
      BY <1>3 DEF PowerOff, DocumentInv, TypeOK
    <2> QED BY <1>3, <2>1, DownKeepsInv, ImageDown DEF PowerOff, BothDown
  <1>4. CASE Restart
    <2>1. crashes' \in 0 .. MaxCrashes
      BY <1>4 DEF Restart, DocumentInv, TypeOK
    <2> QED BY <1>4, <2>1, DownKeepsInv, ImageDown DEF Restart, BothDown
  <1>5. CASE UNCHANGED both
    BY <1>5, DocumentUnchanged, ImageUnchanged DEF both
  <1> QED BY <1>1, <1>2, <1>3, <1>4, <1>5 DEF BothNext

(* The invariant holds whatever fails and whenever the gateway restarts.   *)
THEOREM UploadsInvariant == BothSpec => []UploadsInv
  <1>1. BothInit => UploadsInv
    BY InitInv
  <1>2. UploadsInv /\ [BothNext]_both => UploadsInv'
    BY StepKeepsInv
  <1> QED BY <1>1, <1>2, PTL DEF BothSpec

(* Types; no half document can be read; and a temporary file is left only  *)
(* where a call to delete it failed: for any number of power failures and  *)
(* of calls to the file system that fail (device_store.c:50-124).          *)
THEOREM UploadsSafe == BothSpec => []Safety
  <1>1. UploadsInv => Safety
    BY DEF UploadsInv, DocumentInv, ImageInv, FirmwareTypeOK, Safety, BothTypeOK
  <1> QED BY <1>1, UploadsInvariant, PTL

(* The gateway always keeps an image it can start, and never writes into   *)
(* the running one (http_portal.c:985-1058).                               *)
THEOREM GatewayBoots == BothSpec => []AlwaysBootable
  <1>1. UploadsInv => AlwaysBootable
    BY DEF UploadsInv, ImageInv
  <1> QED BY <1>1, UploadsInvariant, PTL

(* What an update confirmed is what runs after the restart.                *)
THEOREM ConfirmedImageRuns == BothSpec => []ConfirmedRuns
  <1>1. UploadsInv => ConfirmedRuns
    BY DEF UploadsInv, ImageInv, UpdateInv, ConfirmedRuns
  <1> QED BY <1>1, UploadsInvariant, PTL

-----------------------------------------------------------------------------
(* The refinement: what the store does is what Document promises.          *)

LEMMA PromisedInit == BothInit => Promise!Init
  BY DEF BothInit, Init, NoFile, Promise!Init, Promise!Idle, Stored, Served

(* One step of the store maps to a step of the promise or to a stutter.    *)
LEMMA StoreKeepsPromise ==
  ASSUME DocumentInv, Boot \/ Start \/ Upload \/ Finish
  PROVE  Promise!Next \/ UNCHANGED <<Stored, Served>>
  <1> USE FileFacts DEF DocumentInv, TypeOK, StoreInv, Stored, Served, Promise!Idle, Go, Answer, UnlinkTmp
  <1>1. CASE Boot
    BY <1>1 DEF Boot, Mount, Sweep
  <1>2. ASSUME NEW v \in Versions, PostStart(v) PROVE Promise!Ask \/ UNCHANGED <<Stored, Served>>
    BY <1>2 DEF PostStart, Promise!Ask
  <1>3. CASE ClearStart
    <2>1. Promise!Ask \/ UNCHANGED <<Stored, Served>>
      BY <1>3 DEF ClearStart, Promise!Ask
    <2> QED BY <2>1 DEF Promise!Next
  <1>4. CASE PostChunk \/ PostSilent
    BY <1>4 DEF PostChunk, PostSilent
  <1>5. CASE PostAborts
    <2>1. Promise!Refuse
      BY <1>5 DEF PostAborts, Promise!Refuse
    <2> QED BY <2>1 DEF Promise!Next
  <1>6. CASE PostClose
    <2>1. Promise!Refuse \/ UNCHANGED <<Stored, Served>>
      BY <1>6 DEF PostClose, Promise!Refuse
    <2> QED BY <2>1 DEF Promise!Next
  <1>7. CASE PostUnlink
    BY <1>7 DEF PostUnlink
  <1>8. CASE PostRename
    <2>1. Promise!Apply \/ Promise!Refuse \/ Promise!Lose
      BY <1>8 DEF PostRename, Promise!Apply, Promise!Refuse, Promise!Lose
    <2> QED BY <2>1 DEF Promise!Next
  <1>9. CASE ClearDoc
    <2>1. Promise!Apply \/ Promise!Refuse
      BY <1>9 DEF ClearDoc, Promise!Apply, Promise!Refuse
    <2> QED BY <2>1 DEF Promise!Next
  <1>10. CASE AnswerSent
    <2>1. Promise!Confirm \/ UNCHANGED <<Stored, Served>>
      BY <1>10 DEF AnswerSent, Promise!Confirm
    <2> QED BY <2>1 DEF Promise!Next
  <1> QED BY <1>1, <1>2, <1>3, <1>4, <1>5, <1>6, <1>7, <1>8, <1>9, <1>10
          DEF Start, Upload, Finish, PostTimesOut, Promise!Next

(* When the gateway goes down the request is gone, and the document with   *)
(* it only between unlink and rename.                                      *)
LEMMA DownKeepsPromise ==
  ASSUME DocumentInv, Down PROVE Promise!Next \/ UNCHANGED <<Stored, Served>>
  <1> USE FileFacts DEF DocumentInv, TypeOK, Pcs, StoreInv, Stored, Served, Promise!Idle, Down
  <1>1. CASE pc = "rename"
    <2>1. Served = [st |-> "asked", to |-> up] /\ Served' = [st |-> "idle", to |-> NoDoc]
      BY <1>1
    <2>2. gap' = TRUE /\ Stored = old /\ Stored' = doc.ver
      BY <1>1
    <2>3. Promise!Crash \/ Promise!Lose
      BY <1>1, <2>1, <2>2 DEF Promise!Crash, Promise!Lose
    <2> QED BY <2>3 DEF Promise!Next
  <1>2. CASE pc # "rename"
    <2>1. Promise!Crash \/ UNCHANGED <<Stored, Served>>
      BY <1>2 DEF Promise!Crash
    <2> QED BY <2>1 DEF Promise!Next
  <1> QED BY <1>1, <1>2

(* The store, with updates and restarts around it, implements the promise  *)
(* of device_store.h: the document is replaced as a whole or not at all,   *)
(* and can be lost only in the one gap that Document makes an exception    *)
(* for.                                                                    *)
THEOREM StoreImplementsDocument == BothSpec => KeepsPromise
  <1>1. BothInit => Promise!Init
    BY PromisedInit
  <1>2. UploadsInv /\ [BothNext]_both => [Promise!Next]_<<Stored, Served>>
    <2> SUFFICES ASSUME UploadsInv, [BothNext]_both
                 PROVE  Promise!Next \/ UNCHANGED <<Stored, Served>>
      OBVIOUS
    <2>1. DocumentInv
      BY DEF UploadsInv
    <2>2. CASE StoreStep
      BY <2>1, <2>2, StoreKeepsPromise DEF StoreStep
    <2>3. CASE UNCHANGED vars
      BY <2>3 DEF vars, Stored, Served
    <2>4. CASE PowerOff \/ Restart
      BY <2>1, <2>4, DownKeepsPromise DEF PowerOff, Restart, BothDown
    <2> QED BY <2>2, <2>3, <2>4 DEF BothNext, FirmwareStep, both
  <1> QED BY <1>1, <1>2, UploadsInvariant, PTL DEF BothSpec, KeepsPromise, Promise!Spec

=============================================================================
