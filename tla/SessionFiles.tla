---------------------------- MODULE SessionFiles ----------------------------
(***************************************************************************)
(* The files of one session: the upload route, which awaits between its    *)
(* read of the index and its write of it, the routes that list and serve   *)
(* files, and the share link kept beside them.  Contents, names and types  *)
(* are left out but for what is refused and what goes to the sandbox.      *)
(***************************************************************************)
EXTENDS Naturals, Sequences, SequencesExt, FiniteSets

CONSTANTS
  Uploads,      \* requests to upload a file; each stands for its file too
  MaxFiles      \* the setting session_file_upload_max_files

ASSUME MaxFilesIsPositive == MaxFiles \in Nat \ {0}

VARIABLES
  session,      \* the session: "here" or "deleted"
  index,        \* uploads/index.json: the files listed, in order
  stored,       \* the files written beside it
  upload,       \* where each request is
  snapshot,     \* the index as each request has read it
  beside,       \* observation: whose snapshot was out when this one's was written
  share         \* share.json: a link exists

filesVars == <<session, index, stored, upload, snapshot, beside, share>>

FilesInit ==
  /\ session = "here"
  /\ index = <<>>
  /\ stored = {}
  /\ upload = [u \in Uploads |-> "unsent"]
  /\ snapshot = [u \in Uploads |-> <<>>]
  /\ beside = [u \in Uploads |-> {}]
  /\ share = FALSE

(* requests that hold a snapshot of the index *)
Holding == {u \in Uploads : upload[u] \in {"buffering", "sending"}}

(* the session is looked up before the form is awaited, and never again *)
UploadBegins(u) ==
  /\ upload[u] = "unsent"
  /\ upload' = [upload EXCEPT ![u] = IF session = "here" THEN "parsing" ELSE "refused"]
  /\ UNCHANGED <<session, index, stored, snapshot, beside, share>>

(* no file, an empty or too large one, a type that is not allowed *)
UploadInvalid(u) ==
  /\ upload[u] = "parsing"
  /\ upload' = [upload EXCEPT ![u] = "refused"]
  /\ UNCHANGED <<session, index, stored, snapshot, beside, share>>

QuotaReached == Len(index) >= MaxFiles

UploadReadsIndex(u) ==
  /\ upload[u] = "parsing"
  /\ IF QuotaReached
     THEN /\ upload' = [upload EXCEPT ![u] = "refused"]
          /\ UNCHANGED snapshot
     ELSE /\ upload' = [upload EXCEPT ![u] = "buffering"]
          /\ snapshot' = [snapshot EXCEPT ![u] = index]
  /\ UNCHANGED <<session, index, stored, beside, share>>

(* a record of one file for an index of one file *)
RecordAlone(u) ==
  /\ index' = <<u>>
  /\ beside' = [beside EXCEPT ![u] = Holding \ {u}]
  /\ upload' = [upload EXCEPT ![u] = "answered"]

(* the new record goes behind those of the snapshot *)
Record(u) ==
  /\ index' = Append(snapshot[u], u)
  /\ beside' = [beside EXCEPT ![u] = Holding \ {u}]
  /\ upload' = [upload EXCEPT ![u] = "answered"]

(* the bytes are there: an image, or a session without a sandbox, is done *)
UploadStores(u) ==
  /\ upload[u] = "buffering"
  /\ stored' = stored \union {u}
  /\ \/ Record(u)
     \/ /\ upload' = [upload EXCEPT ![u] = "sending"]
        /\ UNCHANGED <<index, beside>>
  /\ UNCHANGED <<session, snapshot, share>>

(* the sandbox has the file, or could not take it: recorded either way *)
UploadSent(u) ==
  /\ upload[u] = "sending"
  /\ Record(u)
  /\ UNCHANGED <<session, stored, snapshot, share>>

(* the link is made once; DELETE removes the row and leaves the files *)
ShareSession ==
  /\ session = "here"
  /\ share' = TRUE
  /\ UNCHANGED <<session, index, stored, upload, snapshot, beside>>

DeleteSession ==
  /\ session = "here"
  /\ session' = "deleted"
  /\ UNCHANGED <<index, stored, upload, snapshot, beside, share>>

(* requests die with the relay; what is on disk stays *)
FilesCrash ==
  /\ \E u \in Uploads : upload[u] \in {"parsing", "buffering", "sending"}
  /\ upload' = [u \in Uploads |->
                  IF upload[u] \in {"parsing", "buffering", "sending"} THEN "lost" ELSE upload[u]]
  /\ UNCHANGED <<session, index, stored, snapshot, beside, share>>

FilesNext ==
  \/ \E u \in Uploads : \/ UploadBegins(u) \/ UploadInvalid(u) \/ UploadReadsIndex(u)
                        \/ UploadStores(u) \/ UploadSent(u)
  \/ ShareSession \/ DeleteSession \/ FilesCrash

FilesSpec == FilesInit /\ [][FilesNext]_filesVars

-----------------------------------------------------------------------------
FilesTypeOK ==
  /\ session \in {"here", "deleted"}
  /\ index \in Seq(Uploads)
  /\ stored \subseteq Uploads
  /\ upload \in [Uploads -> {"unsent", "parsing", "buffering", "sending", "answered",
                             "refused", "lost"}]
  /\ snapshot \in [Uploads -> Seq(Uploads)]
  /\ beside \in [Uploads -> SUBSET Uploads]
  /\ share \in BOOLEAN

(***************************************************************************)
(* A file whose upload was answered is listed, unless an upload that had   *)
(* read the index before wrote it back after (sessions.ts:1389, 1453).     *)
(***************************************************************************)
OnlyOverlappedUploadsAreLost ==
  \A u \in Uploads :
    upload[u] = "answered" /\ u \notin ToSet(index)
      => \E v \in beside[u] : upload[v] = "answered"

(***************************************************************************)
(* The quota is checked before an await and used after it, and holds all   *)
(* the same: who overtakes the check is overwritten (sessions.ts:1390).    *)
(***************************************************************************)
QuotaHolds == Len(index) <= MaxFiles

(***************************************************************************)
(* What is listed can be served: GET .../content reads the file of any     *)
(* record without asking whether it is there (sessions.ts:1489), also      *)
(* after a crash between the file and the index.                           *)
(***************************************************************************)
ListedIsStored == ToSet(index) \subseteq stored
=============================================================================
