----------------------------- MODULE StagedCopy -----------------------------
(***************************************************************************)
(* trigger_remote_to_remote_transfer                                       *)
(* (src/crabport-ui/src/views/sftp/helpers.rs): a copy between two hosts   *)
(* downloads into a temporary directory and uploads from there. The        *)
(* download is an ordinary transfer, with a row to pause it by; nobody     *)
(* tells the copy when it ends, so it watches the size of the file.        *)
(***************************************************************************)
EXTENDS TransferControl

CONSTANT Polls      \* bound: polls until the deadline of 5 minutes

ASSUME PollsAssumption == Polls \in Nat

VARIABLES
    copy,           \* the copy: "watching", "uploading", "cleaned"
    polled, last_size, stable_count,
    staged          \* chunks in the file when the upload was started

copyVars == <<copy, polled, last_size, stable_count, staged>>

CopyTypeOK ==
    /\ TypeOK /\ copy \in {"watching", "uploading", "cleaned"}
    /\ polled \in 0..Polls /\ last_size \in 0..Chunks /\ stable_count \in 0..3
    /\ staged \in 0..Chunks

CopyInit ==
    /\ Init /\ copy = "watching"
    /\ polled = 0 /\ last_size = 0 /\ stable_count = 0 /\ staged = 0

\* Slip: no deadline.
NeverExpired == FALSE
Expired == polled = Polls
Still == moved > 0 /\ moved = last_size

StartUpload == copy' = "uploading" /\ staged' = moved

\* Every 200 ms: the same size three times over, or the deadline, is the end.
Poll ==
    /\ copy = "watching"
    /\ polled' = IF polled < Polls THEN polled + 1 ELSE polled
    /\ IF Expired THEN StartUpload /\ UNCHANGED <<last_size, stable_count>>
       ELSE /\ last_size' = moved
            /\ stable_count' = IF ~Still THEN 0 ELSE IF stable_count < 3 THEN stable_count + 1 ELSE 3
            /\ IF Still /\ stable_count >= 2 THEN StartUpload ELSE UNCHANGED <<copy, staged>>
    /\ UNCHANGED vars

\* 30 seconds later the directory is removed.
CleanUp == copy = "uploading" /\ copy' = "cleaned" /\ UNCHANGED <<vars, polled, last_size, stable_count, staged>>

CopyNext == (Next /\ UNCHANGED copyVars) \/ Poll \/ CleanUp

CopySpec ==
    /\ CopyInit /\ [][CopyNext]_<<vars, copyVars>>
    /\ WF_vars(NotifyOne /\ UNCHANGED copyVars) /\ WF_vars(Step /\ UNCHANGED copyVars)
    /\ WF_<<vars, copyVars>>(Poll) /\ WF_<<vars, copyVars>>(CleanUp)

-----------------------------------------------------------------------------
(* Properties *)

\* The copy ends and cleans up, even when its download never does.
CopyEnds == <>(copy = "cleaned")

\* "wait for the download to finish, then upload": the destination gets the
\* whole file.
CopiesWhole == copy # "watching" => staged = Chunks
=============================================================================
