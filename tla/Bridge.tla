-------------------------------- MODULE Bridge --------------------------------
(***************************************************************************)
(* The control task and the HTTPS server task of the ESP32 bridge running  *)
(* at the same time on two cores, joined by the mailboxes, and the resets  *)
(* that wipe the memory but not the SD card.                               *)
(***************************************************************************)
EXTENDS ControlTask, ServerTask

CONSTANT PowerMayFail  \* the board may be reset at any moment

ASSUME PowerAssumption == PowerMayFail \in BOOLEAN

vars == <<mailVars, sshVars, ctlVars, srvVars>>

Init == MailInit /\ SshInit /\ CtlInit /\ SrvInit

(* A panic stops both cores: the server task takes no step after it.       *)
Control == ControlStep /\ UNCHANGED srvVars
Server == ctlPc # "panic" /\ ServerStep /\ UNCHANGED <<ctlVars, sshVars>>
Handler == ctlPc # "panic" /\ HandlerStep /\ UNCHANGED <<ctlVars, sshVars>>

(* A panic or a loss of power: setup() runs again, the SD card is as it was. *)
Reboot ==
    /\ PowerMayFail \/ ctlPc = "panic"
    /\ MailReset /\ SshReset /\ CtlReset /\ SrvReset

(* The part of it that is bound to happen.                                 *)
Recover == ctlPc = "panic" /\ Reboot

Next == Control \/ Server \/ Reboot

Spec == Init /\ [][Next]_vars

(***************************************************************************)
(* The control task is alone on its priority on core 0 and sleeps only in  *)
(* delays; the server task shares core 1 with loopTask, round robin at the *)
(* same priority: both keep running.  A panic always resets the board.     *)
(* Nothing obliges a browser to send a request.                            *)
(***************************************************************************)
FairSpec ==
    /\ Spec
    /\ WF_vars(Control)
    /\ WF_vars(Handler)
    /\ WF_vars(Recover)

-----------------------------------------------------------------------------
(* Every global, object field and program counter keeps its type.          *)
TypeOK == MailTypeOK /\ SshTypeOK /\ CtlTypeOK /\ SrvTypeOK

(* The mailboxes are the only thing that keeps the two tasks off the same  *)
(* file: /downloads/file is never streamed or removed by handleSCP while   *)
(* scp_read() is writing it, and /downloads/upload is never rewritten by   *)
(* handleUPLOAD while scp_write() is sending it.                           *)
FilesExclusive ==
    /\ ~(ctlPc = "data" /\ At("reply", "scp"))
    /\ ~(ctlPc = "send" /\ srvPc = "fill")

(* A handler that waited on a mailbox for a transfer or a status check     *)
(* answers only after the control task has run exactly that request.       *)
AttemptedBeforeReply ==
    (srvPc = "reply" /\ srvArg # Empty) =>
        CASE srvReq = "upload" -> ranUpload = srvArg
          [] srvReq = "scp"    -> ranScp = srvArg
          [] srvReq = "status" -> ranStatus = srvArg
          [] OTHER             -> TRUE

(* What handleSCP streams is the file that was asked for, or one that a    *)
(* reset or a failed SD.remove left on the card: as long as the card and   *)
(* the power hold, never one of another request.                           *)
ServedIsRequested ==
    At("reply", "scp") => (dlPath \in {Empty, srvArg} \/ dlLeft)

(* At most one machine has an open session and it is the current one; its  *)
(* shell channel exists exactly as long as the session; conn is never set  *)
(* without them, and still is when the work it was tested for is done, so  *)
(* write() and the transfers never follow a null or dangling pointer.      *)
HandlesConsistent ==
    /\ \A i \in Servers :
          /\ session[i] = "live" => i = current
          /\ channel[i] = "live" <=> session[i] = "live"
          /\ conn[i] => channel[i] = "live"
    /\ ctlPc \in {"teardown", "write", "push", "send", "pull", "data"} => conn[current]

(* libssh_begin() and ssh_finalize() balance over every path through       *)
(* connect() and brutal_exception(): the library is never finalised under  *)
(* an open session and never initialised twice.                            *)
LibraryBalanced ==
    ctlPc # "hung" =>
        begun = 1 + (IF session[current] = "live" THEN 1 ELSE 0)

(* A transfer waiting in its mailbox is neither overwritten nor erased     *)
(* before the control task has copied it as its argument (the reset of     *)
(* upload_command and scp_command in ex_main hits what was run).           *)
PendingTransferKept ==
    [][~Reboot =>
          /\ upload_command \notin {Empty, upload_command'} => ctlArg = upload_command
          /\ scp_command \notin {Empty, scp_command'} => ctlArg = scp_command]_vars

-----------------------------------------------------------------------------
(***************************************************************************)
(* The mailboxes that are waited for, seen as request channels.            *)
(***************************************************************************)
Waits(req) == srvReq = req /\ srvPc \in {"wait", "reply"}

(* The control task is at work on the request in a mailbox, or was when it *)
(* hung or panicked.                                                       *)
WorksOn(steps, ran) == ctlPc \in steps \/ (ctlPc \in {"hung", "panic"} /\ ran # Empty)

Phase(req, pending, works) ==
    IF pending THEN IF works THEN "running" ELSE "posted"
               ELSE IF Waits(req) THEN "finished" ELSE "idle"

AskedOf(req) == IF Waits(req) THEN srvArg ELSE Empty
DoneOf(req, ran) == IF Waits(req) THEN ran ELSE Empty

UploadChannel == INSTANCE RequestChannel WITH
    Payloads <- Paths, Nothing <- Empty, starting <- ctlPc = "boot",
    phase <- Phase("upload", upload_command # Empty,
                   WorksOn({"send", "uploadClear"}, ranUpload)),
    asked <- AskedOf("upload"), done <- DoneOf("upload", ranUpload)

ScpChannel == INSTANCE RequestChannel WITH
    Payloads <- Paths, Nothing <- Empty, starting <- ctlPc = "boot",
    phase <- Phase("scp", scp_command # Empty, WorksOn({"data", "scpClear"}, ranScp)),
    asked <- AskedOf("scp"), done <- DoneOf("scp", ranScp)

StatusChannel == INSTANCE RequestChannel WITH
    Payloads <- {Asked}, Nothing <- Empty, starting <- ctlPc = "boot",
    phase <- Phase("status", hp_1_status_req,
                   WorksOn({"reconnect", "statusClear"}, ranStatus)),
    asked <- AskedOf("status"), done <- DoneOf("status", ranStatus)

(* handleUPLOAD and the upload branch of ex_main implement the channel:    *)
(* each path is sent once, not again and not for another request.          *)
UploadIsChannel == UploadChannel!ChannelSpec

(* The same for handleSCP and the scp branch.                              *)
ScpIsChannel == ScpChannel!ChannelSpec

(* The same for handleSSHStatus1 and the status branch: one "echo alive"   *)
(* per request, although a failed one is followed by a reconnect.          *)
StatusIsChannel == StatusChannel!ChannelSpec

(* Between the end of the check that handleSSHStatus1 waits for and its    *)
(* reading of conn, nothing but a switch to another machine (or a reset)   *)
(* changes the value that it reports.                                      *)
ReportedAsChecked ==
    [][(Waits("status") /\ ~hp_1_status_req /\ conn'[current'] # conn[current])
          => ctlPc \in {"teardown", "swConnect"} \/ Reboot]_vars

-----------------------------------------------------------------------------
(* What a machine has added to libssh's count.  Only the current one adds, *)
(* and a connect() that never returns has not added anything yet.          *)
BegunFor(i) ==
    IF i # current THEN 1
    ELSE IF ctlPc = "hung" /\ session[i] # "live" THEN begun - 1 ELSE begun

Machine(i) == INSTANCE SshConnect WITH
    object <- [session |-> session[i], channel |-> channel[i], begun |-> BegunFor(i)]

(* Whatever switches, failed checks and resets there are, ex_main() uses   *)
(* each machine's object as connect() and brutal_exception() expect: no    *)
(* second connect() over an open session, nothing freed that was never     *)
(* assigned, no machine left with a session while another is current.      *)
MachinesAreObjects ==
    /\ \A i \in Servers : Machine(i)!ConnectInit
    /\ [][\A i \in Servers : Machine(i)!BoardNext]_vars

-----------------------------------------------------------------------------
(* The connection is down, and not merely because a switch is under way.   *)
Down ==
    ~Connected /\ ctlPc \notin {"teardown", "index", "swConnect", "swClear"}

(* A status request is answered, connected or not, whatever else was       *)
(* pending (handleSSHStatus1 and the last branch of ex_main).              *)
StatusAnswered == At("wait", "status") ~> srvPc = "idle"

(* A handler polls for something that the control task passes over because *)
(* it has no connection.                                                   *)
Stranded ==
    /\ srvPc = "wait" /\ srvReq \in {"post", "upload", "scp"} /\ ~Cleared
    /\ ~Connected /\ ctlPc \in {"poll", "chkSsh", "chkUpload", "chkScp", "chkStatus"}

(* Only a reset frees a stranded handler: the status request that would    *)
(* make ex_main reconnect has to come through the same server task.        *)
StrandedForGood == [][Stranded /\ ~Reboot => Stranded']_vars

(* Every request is answered unless its handler is stranded, its client    *)
(* vanished in the middle of the body, or the control task hangs in a call *)
(* of libssh or in the websocket write of read(): no mailbox starves       *)
(* another, although ex_main serves them in a fixed order, and no fourth   *)
(* way to lose the server task exists.                                     *)
HandlerReturns ==
    srvPc # "idle" ~> (srvPc \in {"idle", "stuck"} \/ Stranded \/ ctlPc = "hung")

(* What was asked of switch_ssh before ex_main reads it for a switch comes *)
(* to the connect() to that machine, to the link being down, or to a later *)
(* request in its place.                                                   *)
CarriedOut(text) ==
    (switch_ssh = text /\ ctlPc \notin {"swConnect", "swClear"})
       ~> \/ ctlPc = "swConnect" /\ current = ToInt(text)
          \/ Down
          \/ switch_ssh \notin {text, Empty}

(* A switch request is carried out, and its mailbox is emptied, unless the *)
(* link is down.  A request that comes after switch_ssh has been read for  *)
(* an earlier one is left out: it may be erased, as ErasedOnlyWhenDone     *)
(* shows.                                                                  *)
SwitchCarriedOut ==
    /\ \A text \in Switches : CarriedOut(text)
    /\ switch_ssh # Empty ~> (switch_ssh = Empty \/ Down)

(* A task that is neither finished nor lost can take its next step: the    *)
(* loop of ex_main has no branch in which it waits for the server task, a  *)
(* handler waits for its mailbox only, and a panic can always restart.     *)
TasksCanStep ==
    /\ ctlPc \notin {"hung", "panic"} => ENABLED <<Control>>_vars
    /\ (ctlPc # "panic" /\ (srvPc \in {"assign", "fill", "reply"} \/ (srvPc = "wait" /\ Cleared)))
          => ENABLED <<Handler>>_vars
    /\ ctlPc = "panic" => ENABLED <<Recover>>_vars

-----------------------------------------------------------------------------
(***************************************************************************)
(* Why the safety properties hold, one conjunct per mailbox or object.     *)
(***************************************************************************)

(* A path in a transfer mailbox is that of the handler that waits for it,  *)
(* and the control task works on a transfer only while the path is there.  *)
(* A path still waiting has not been run, one that is worked on has.  A    *)
(* handler whose mailbox has been emptied finds that its path was run.     *)
UploadHandOver ==
    /\ upload_command # Empty => At("wait", "upload") /\ upload_command = srvArg
    /\ ctlPc \in {"push", "send", "uploadClear"} => upload_command # Empty
    /\ ctlPc \in {"send", "uploadClear"} =>
          ctlArg = upload_command /\ ranUpload = upload_command
    /\ (upload_command # Empty /\ ctlPc \notin {"send", "uploadClear"})
          => ranUpload = Empty \/ (ctlPc = "hung" /\ ranUpload = upload_command)
    /\ (srvReq = "upload" /\ srvPc \in {"wait", "reply"} /\ upload_command = Empty)
          => ranUpload = srvArg

ScpHandOver ==
    /\ scp_command # Empty => At("wait", "scp") /\ scp_command = srvArg
    /\ ctlPc \in {"pull", "data", "scpClear"} => scp_command # Empty
    /\ ctlPc \in {"data", "scpClear"} =>
          ctlArg = scp_command /\ ranScp = scp_command
    /\ (scp_command # Empty /\ ctlPc \notin {"data", "scpClear"})
          => ranScp = Empty \/ (ctlPc = "hung" /\ ranScp = scp_command)
    /\ (srvReq = "scp" /\ srvPc \in {"wait", "reply"} /\ scp_command = Empty)
          => ranScp = srvArg

(* The flag is up only while handleSSHStatus1 waits, and comes down only   *)
(* after the remote machine has been asked.                                *)
StatusHandOver ==
    /\ hp_1_status_req => At("wait", "status")
    /\ ctlPc \in {"exec", "reconnect", "statusClear"} => hp_1_status_req
    /\ ctlPc \in {"reconnect", "statusClear"} => ranStatus = Asked
    /\ ctlPc = "boot" => ranStatus = Empty
    /\ (hp_1_status_req /\ ctlPc \notin {"reconnect", "statusClear", "hung", "panic"})
          => ranStatus = Empty
    /\ srvReq = "status" => srvArg = Asked
    /\ (srvReq = "status" /\ srvPc \in {"wait", "reply"} /\ ~hp_1_status_req)
          => ranStatus = Asked

(* A download on the card belongs to the handler that waits for it or      *)
(* streams it, or is left over.                                            *)
DownloadOwned ==
    dlPath # Empty =>
        \/ dlLeft
        \/ srvReq = "scp" /\ srvPc \in {"wait", "reply"} /\ dlPath = srvArg

(* The handler that is running has an argument of its own kind, and none   *)
(* of its upload has been run while its body is still arriving.            *)
ArgumentsFit ==
    /\ srvPc = "assign" => srvReq \in {"ws", "post"} /\ srvArg \in Texts \cup {Empty}
    /\ srvPc = "fill" => srvReq = "upload" /\ ranUpload = Empty
    /\ srvReq \in {"upload", "scp"} => srvArg \in Paths \cup {Empty}

(* Which pointers have been assigned at each point of the loop.            *)
SessionDiscipline ==
    /\ ctlPc \notin {"boot", "swConnect", "hung"} => session[current] # "wild"
    /\ ctlPc \in {"boot", "index", "swConnect"} => session[current] # "live"
    /\ ctlPc = "reconnect" => ~Connected

(* Inductive: together with the types, what HandlesConsistent and          *)
(* LibraryBalanced need as well as the properties of the mailboxes.        *)
IndInv ==
    /\ TypeOK
    /\ HandlesConsistent
    /\ LibraryBalanced
    /\ SessionDiscipline
    /\ ArgumentsFit
    /\ UploadHandOver
    /\ ScpHandOver
    /\ StatusHandOver
    /\ DownloadOwned

-----------------------------------------------------------------------------
(* Statements the source makes about itself that the code does not keep.   *)

(* main.cpp, handleUPLOAD: "Wait until the file has ACTUALLY UPLOADED      *)
(* before returning"; handleSCP: "Make sure file is written correctly".    *)
TransferCompleteBeforeAnswer ==
    (srvPc = "reply" /\ srvArg # Empty) =>
        /\ srvReq = "upload" => sent
        /\ (srvReq = "scp" /\ dlPath # Empty) => dlPath = srvArg /\ dlWhole /\ ~dlLeft

(* main.cpp, ex_main: "Write the websocket data to ssh" and "Switch        *)
(* primary control over to targeted new computer": shell input leaves its  *)
(* mailbox only once it is written to the channel, and a switch request    *)
(* only once it is carried out.                                            *)
ErasedOnlyWhenDone ==
    [][~Reboot =>
          /\ (ssh_command # Empty /\ ssh_command' # ssh_command) => ranSsh = ssh_command
          /\ (switch_ssh # Empty /\ switch_ssh' = Empty) => current = ToInt(switch_ssh)]_vars

(* main.cpp, setup: "Make the server async": the server task keeps coming  *)
(* back for the next request.                                              *)
ServerKeepsServing == []<>(srvPc = "idle")
==============================================================================
