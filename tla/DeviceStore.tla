----------------------------- MODULE DeviceStore -----------------------------
(***************************************************************************)
(* The document of the device manager on flash (src/main/device_store.c)   *)
(* and the handlers behind /api/eo (src/main/http_portal.c).               *)
(*                                                                         *)
(* A new document is written to a temporary file; commit deletes the old   *)
(* document and renames the temporary file.  All handlers run one after    *)
(* another in the httpd task.  Power can fail between any two calls to the *)
(* file system; each unlink and rename of SPIFFS (external) takes effect   *)
(* completely or not at all, written data may be lost until fclose.        *)
(*                                                                         *)
(* Abstracted: a document is its version, in Chunks pieces of 1 KB; the    *)
(* refusals that change no state (authentication, length) are left out,    *)
(* and the file system is formatted only before the first document.        *)
(***************************************************************************)
EXTENDS Integers

CONSTANTS
  Versions,   \* contents of documents
  NoDoc,      \* no file
  Chunks,     \* pieces of a document
  MaxIdle,    \* MAX_IDLE: timeouts in a row that end an upload
  MaxCrashes  \* bound of the model: power failures

ASSUME NoDocAssumption   == NoDoc \notin Versions
ASSUME ChunksAssumption  == Chunks \in Nat \ {0}
ASSUME IdleAssumption    == MaxIdle \in Nat \ {0}
ASSUME CrashesAssumption == MaxCrashes \in Nat

VARIABLES
  mounted,   \* s_mounted
  doc, tmp,  \* files DOC_PATH and TMP_PATH: version and pieces, or NoFile
  pc,        \* where the httpd task (or, at boot, devstore_init) stands
  up,        \* version being uploaded
  silent,    \* idle: timeouts since the last piece
  code,      \* HTTP status the handler is about to send
  old,       \* history: version of the document when the commit began
  gap,       \* history: the last step failed between unlink and rename
  stuck,     \* history: a failed unlink has left the temporary file, and
             \* nothing has removed or replaced it since
  crashes

vars == <<mounted, doc, tmp, pc, up, silent, code, old, gap, stuck, crashes>>

NoFile == [ver |-> NoDoc, len |-> 0]
File   == [ver : Versions, len : 0 .. Chunks] \cup {NoFile}

Init ==
  /\ mounted = FALSE /\ doc = NoFile /\ tmp = NoFile
  /\ pc = "init" /\ up = NoDoc /\ silent = 0 /\ code = 0 /\ old = NoDoc /\ gap = FALSE /\ stuck = FALSE
  /\ crashes = 0

Go(from, to) == pc = from /\ pc' = to

(* unlink(TMP_PATH), whose result no caller looks at.                      *)
UnlinkTmp == tmp' \in {tmp, NoFile} /\ stuck' = (tmp' # NoFile)

-----------------------------------------------------------------------------
(* devstore_init, before the HTTP server is started.                       *)

Mount ==
  /\ \/ Go("init", "sweep") /\ mounted' = TRUE
     \/ Go("init", "idle") /\ mounted' = FALSE
  /\ gap' = FALSE
  /\ UNCHANGED <<silent, doc, tmp, stuck, up, code, old, crashes>>

(* Fault: what an interrupted upload left stays.                           *)
SweepNot ==
  /\ Go("sweep", "idle")
  /\ gap' = FALSE
  /\ UNCHANGED <<silent, mounted, doc, tmp, stuck, up, code, old, crashes>>

(* What an interrupted upload left goes away, if it can be deleted.        *)
Sweep ==
  /\ Go("sweep", "idle")
  /\ UnlinkTmp
  /\ gap' = FALSE
  /\ UNCHANGED <<silent, mounted, doc, up, code, old, crashes>>

-----------------------------------------------------------------------------
(* h_eo_post, with devstore_open_write, devstore_commit, devstore_abort.   *)

Answer(c) == pc' = "answer" /\ code' = c

PostStart(v) ==
  /\ pc = "idle"
  /\ \/ mounted /\ tmp' = [ver |-> v, len |-> 0] /\ stuck' = FALSE /\ up' = v /\ pc' = "recv"
        /\ UNCHANGED code
     \/ mounted /\ Answer(500) /\ UNCHANGED <<tmp, stuck, up>>
     \/ ~mounted /\ Answer(507) /\ UNCHANGED <<tmp, stuck, up>>
  /\ gap' = FALSE /\ silent' = 0
  /\ UNCHANGED <<mounted, doc, old, crashes>>

PostChunk ==
  /\ Go("recv", "recv")
  /\ tmp.len < Chunks
  /\ tmp' = [tmp EXCEPT !.len = @ + 1]
  /\ gap' = FALSE /\ silent' = 0
  /\ UNCHANGED <<mounted, doc, stuck, up, code, old, crashes>>

(* The client is gone, or the file system is full. *)
PostAborts ==
  /\ pc = "recv" /\ tmp.len < Chunks
  /\ UnlinkTmp
  /\ Answer(400)
  /\ gap' = FALSE
  /\ UNCHANGED <<silent, mounted, doc, up, old, crashes>>

(* Fault: a timeout is not counted. *)
PostSilentUncounted ==
  /\ pc = "recv" /\ tmp.len < Chunks
  /\ UNCHANGED vars

(* The client sends nothing for recv_wait_timeout: the upload goes on, ... *)
PostSilent ==
  /\ Go("recv", "recv")
  /\ tmp.len < Chunks
  /\ silent + 1 < MaxIdle /\ silent' = silent + 1
  /\ gap' = FALSE
  /\ UNCHANGED <<mounted, doc, tmp, stuck, up, code, old, crashes>>

(* ... but not for ever. *)
PostTimesOut == silent + 1 >= MaxIdle /\ PostAborts

(* Fault: an upload that broke off is committed too. *)
PostCloseAny ==
  /\ pc = "recv"
  /\ pc' = "unlink"
  /\ old' = doc.ver
  /\ gap' = FALSE
  /\ UNCHANGED <<silent, mounted, doc, tmp, stuck, up, code, crashes>>

(* fclose: data that cannot be flushed now fails the upload. *)
PostClose ==
  /\ pc = "recv" /\ tmp.len = Chunks
  /\ \/ pc' = "unlink" /\ UNCHANGED <<tmp, stuck, code>>
     \/ UnlinkTmp /\ Answer(507)
  /\ old' = doc.ver
  /\ gap' = FALSE
  /\ UNCHANGED <<silent, mounted, doc, up, crashes>>

(* The result of deleting the old document is not looked at. *)
PostUnlink ==
  /\ Go("unlink", "rename")
  /\ doc' \in {NoFile, doc}
  /\ gap' = FALSE
  /\ UNCHANGED <<silent, mounted, tmp, stuck, up, code, old, crashes>>

(* rename does not replace a file that exists, and may fail. *)
PostRename ==
  /\ pc = "rename"
  /\ \/ doc = NoFile /\ doc' = tmp /\ tmp' = NoFile /\ Answer(200)
        /\ gap' = FALSE /\ UNCHANGED stuck
     \/ UnlinkTmp /\ Answer(507) /\ UNCHANGED doc /\ gap' = TRUE
  /\ UNCHANGED <<silent, mounted, up, old, crashes>>

-----------------------------------------------------------------------------
(* h_eo_clear and devstore_clear.                                          *)

ClearStart ==
  /\ pc = "idle"
  /\ IF mounted THEN UnlinkTmp /\ pc' = "clear" /\ UNCHANGED code
                ELSE Answer(500) /\ UNCHANGED <<tmp, stuck>>
  /\ up' = NoDoc
  /\ gap' = FALSE
  /\ UNCHANGED <<silent, mounted, doc, old, crashes>>

(* Fault: a document that could not be deleted is reported as deleted. *)
ClearDocBlindly ==
  /\ pc = "clear"
  /\ doc' \in {doc, NoFile}
  /\ Answer(200)
  /\ gap' = FALSE
  /\ UNCHANGED <<silent, mounted, tmp, stuck, up, old, crashes>>

ClearDoc ==
  /\ pc = "clear"
  /\ \/ doc' = NoFile /\ Answer(200)
     \/ doc # NoFile /\ doc' = doc /\ Answer(500)
  /\ gap' = FALSE
  /\ UNCHANGED <<silent, mounted, tmp, stuck, up, old, crashes>>

AnswerSent ==
  /\ Go("answer", "idle")
  /\ code' = 0 /\ up' = NoDoc /\ old' = NoDoc /\ silent' = 0
  /\ gap' = FALSE
  /\ UNCHANGED <<mounted, doc, tmp, stuck, crashes>>

(* The gateway goes down.  What fclose has not flushed yet may be lost. *)
Down ==
  /\ gap' = (pc = "rename")
  /\ pc' = "init" /\ mounted' = FALSE /\ up' = NoDoc /\ silent' = 0 /\ code' = 0 /\ old' = NoDoc
  /\ IF pc = "recv" THEN \E n \in 0 .. tmp.len : tmp' = [tmp EXCEPT !.len = n]
                    ELSE UNCHANGED tmp
  /\ UNCHANGED <<doc, stuck>>

PowerFails == crashes < MaxCrashes /\ crashes' = crashes + 1 /\ Down

Boot   == Mount \/ Sweep
Start  == (\E v \in Versions : PostStart(v)) \/ ClearStart
Upload == PostChunk \/ PostSilent \/ PostAborts \/ PostTimesOut
Finish == PostClose \/ PostUnlink \/ PostRename \/ ClearDoc \/ AnswerSent

Next == Boot \/ Start \/ Upload \/ Finish \/ PowerFails

Spec == Init /\ [][Next]_vars

(* The httpd task runs, and its recv returns after the timeout at latest; *)
(* that a client sends is not assumed.                                     *)
Fairness == WF_vars(Boot) /\ WF_vars(Finish) /\ WF_vars(PostSilent) /\ WF_vars(PostTimesOut)

-----------------------------------------------------------------------------
Pcs == {"init", "sweep", "idle", "recv", "unlink", "rename", "clear", "answer"}

(* Types of all variables.                                                 *)
TypeOK ==
  /\ mounted \in BOOLEAN /\ doc \in File /\ tmp \in File /\ pc \in Pcs
  /\ silent \in 0 .. MaxIdle - 1
  /\ up \in Versions \cup {NoDoc} /\ code \in {0, 200, 400, 500, 507}
  /\ old \in Versions \cup {NoDoc} /\ gap \in BOOLEAN /\ stuck \in BOOLEAN
  /\ crashes \in 0 .. MaxCrashes

(* A document that can be read is never a part of one, wherever power      *)
(* failed and whatever the file system refused (device_store.h:22-23).     *)
NeverHalf == doc # NoFile => doc.len = Chunks

(* No temporary file takes up space while the server waits for requests    *)
(* with the store mounted, whatever ended the upload: unless a call to     *)
(* delete it failed (device_store.c:50-55, 95, 105, 114, 120).             *)
NoTempLeft == pc = "idle" /\ mounted /\ ~stuck => tmp = NoFile

(* A client that announces a document and then says nothing does not keep  *)
(* the portal's only task (http_portal.c:934-936).                         *)
UploadEnds == pc = "recv" ~> pc # "recv"

(* The store keeps the promise of Document over every step and failure; it *)
(* can lose the document only in the step in which power, or the file      *)
(* system, fails between unlink and rename (device_store.c:87-109).        *)
Served == CASE pc = "answer" /\ code = 200              -> [st |-> "done", to |-> up]
            [] pc \in {"recv", "unlink", "rename", "clear"} -> [st |-> "asked", to |-> up]
            [] OTHER                                    -> [st |-> "idle", to |-> NoDoc]
Stored == IF pc = "rename" THEN old ELSE doc.ver
Promise == INSTANCE Document WITH doc <- Stored, req <- Served, except <- gap
KeepsPromise == Promise!Spec

(* The same promise without that exception, as device_store.h:49 states it:*)
(* "ersetzt damit das Dokument atomar".                                    *)
Strict == INSTANCE Document WITH doc <- Stored, req <- Served, except <- FALSE
ReplacesAtomically == Strict!Spec

=============================================================================
