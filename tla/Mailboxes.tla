------------------------------ MODULE Mailboxes ------------------------------
(***************************************************************************)
(* The globals through which the HTTPS server task hands work to the       *)
(* control task: four Strings and one flag, with no lock around any of     *)
(* them, and the two files under /downloads on the SD card that carry the  *)
(* payload of a download and of an upload.                                 *)
(*                                                                         *)
(* The empty String means "nothing to do": the server task writes a        *)
(* command, the control task runs it and writes "" back.                   *)
(***************************************************************************)
EXTENDS Integers

CONSTANTS Texts,   \* shell input a browser can send
          Paths,   \* file paths a browser can ask for
          Torn     \* a String copied while another task was overwriting it

Empty == ""

(* Commands, paths and the markers are told apart, as the code does.       *)
ASSUME ValuesAssumption ==
    /\ Empty \notin Texts \cup Paths \cup {Torn}
    /\ Torn \notin Texts \cup Paths

VARIABLES
    switch_ssh,      \* "0" or "1": the machine to switch to
    ssh_command,     \* input for the remote shell
    racing,          \* the server task is inside the assignment to ssh_command,
                     \* and the control task has not reset it meanwhile
    upload_command,  \* where /downloads/upload is to be sent
    up,              \* /downloads/upload, as the upload now being served sees it
    scp_command,     \* the remote file to be fetched into /downloads/file
    dlPath,          \* whose copy /downloads/file is, "" if there is no file,
    dlWhole,         \* whether it is complete,
    dlLeft,          \* and whether it is left over: an earlier boot ended with it
                     \* on the card, or a request could not remove it
    hp_1_status_req,
    \* History: what the control task has run from each mailbox for the
    \* request now in it (for shell input, the last that was written), and
    \* whether that upload arrived complete.
    ranSsh, ranUpload, ranScp, ranStatus, sent

switchBox == <<switch_ssh>>
sshBox    == <<ssh_command, racing, ranSsh>>
uploadBox == <<upload_command, up, ranUpload, sent>>
scpBox    == <<scp_command, dlPath, dlWhole, dlLeft, ranScp>>
statusBox == <<hp_1_status_req, ranStatus>>

mailVars == <<switchBox, sshBox, uploadBox, scpBox, statusBox>>

Switches == {"0", "1"}
Asked == "echo alive"
Uploads == {"none", "stale", "part", "full"}

MailTypeOK ==
    /\ switch_ssh \in Switches \cup {Empty}
    /\ ssh_command \in Texts \cup {Empty}
    /\ racing \in BOOLEAN
    /\ ranSsh \in Texts \cup {Empty, Torn}
    /\ upload_command \in Paths \cup {Empty}
    /\ up \in Uploads
    /\ ranUpload \in Paths \cup {Empty}
    /\ sent \in BOOLEAN
    /\ scp_command \in Paths \cup {Empty}
    /\ dlPath \in Paths \cup {Empty}
    /\ dlWhole \in BOOLEAN
    /\ dlLeft \in BOOLEAN
    /\ ranScp \in Paths \cup {Empty}
    /\ hp_1_status_req \in BOOLEAN
    /\ ranStatus \in {Asked, Empty}

(* The globals as the loader initialises them, on a card with no files.    *)
MailInit ==
    /\ switch_ssh = Empty
    /\ ssh_command = Empty /\ racing = FALSE /\ ranSsh = Empty
    /\ upload_command = Empty /\ up = "none" /\ ranUpload = Empty /\ sent = FALSE
    /\ scp_command = Empty /\ ranScp = Empty
    /\ dlPath = Empty /\ dlWhole = FALSE /\ dlLeft = FALSE
    /\ hp_1_status_req = FALSE /\ ranStatus = Empty

(* What an upload file already on the card is worth to the next request.   *)
Aged(u) == IF u = "none" THEN "none" ELSE "stale"

(* After a reset the globals start over; the files are still on the card.  *)
MailReset ==
    /\ switch_ssh' = Empty
    /\ ssh_command' = Empty /\ racing' = FALSE /\ ranSsh' = Empty
    /\ upload_command' = Empty /\ up' = Aged(up) /\ ranUpload' = Empty
    /\ sent' = FALSE
    /\ scp_command' = Empty /\ ranScp' = Empty
    /\ dlLeft' = (dlPath # Empty) /\ UNCHANGED <<dlPath, dlWhole>>
    /\ hp_1_status_req' = FALSE /\ ranStatus' = Empty

(***************************************************************************)
(* What the control task gets when it looks at ssh_command.  The Arduino   *)
(* String stores the length last, so a reader that races with the first    *)
(* assignment still sees ""; one that races with an overwrite sees the old *)
(* text or a mixture of both.  The other mailboxes are only written while  *)
(* they are empty (upload, scp) or hold a single character (switch).       *)
(***************************************************************************)
SshCommandSeen ==
    IF racing /\ ssh_command # Empty THEN {ssh_command, Torn} ELSE {ssh_command}

(* String::toInt on what switchSsh0 and switchSsh1 write; 0 if no number.  *)
ToInt(text) == IF text = "1" THEN 1 ELSE 0
==============================================================================
