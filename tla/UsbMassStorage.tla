---------------------------- MODULE UsbMassStorage ----------------------------
(***************************************************************************)
(* USBHost_MSC (lib/cpp/Device/USB/USBHost-MSC.cpp): the mass storage      *)
(* class driver, on two bulk endpoints (BulkPipe).  A                      *)
(* command is a command wrapper (CBW) on the OUT endpoint, a data stage,   *)
(* and a status wrapper (CSW) on the IN endpoint.  A halted endpoint is    *)
(* recovered together with the transport; a broken status wrapper takes a  *)
(* Bulk-Only reset and a clear of both endpoints.                          *)
(*                                                                         *)
(* The callbacks of the transport run in the event handler; Finish, which  *)
(* may start the next command of the bring-up, is a step of its own that   *)
(* the handler waits for.  The client submits reads and writes, and aborts *)
(* a command it has waited for too long.                                   *)
(***************************************************************************)
EXTENDS BulkPipe

CONSTANTS
    MaxChunks,   \* bound: endpoint packets of the longest write
    MaxAborts,   \* bound: commands the client gives up on
    kMaxCapacityRetries

ASSUME StorageAssumption ==
    /\ Endpoints = {"in", "out"} /\ InEndpoints = {"in"}
    /\ Items = {"cbw", "data", "csw"} /\ Requests = {"GetMaxLun", "ClearHalt", "Reset"}
    /\ MaxChunks \in Nat \ {0} /\ MaxAborts \in Nat /\ kMaxCapacityRetries \in Nat

VARIABLES
    msc,       \* the driver object
    device,    \* packets the device still expects; whether the last CBW it took, and
               \* the status wrapper in csw_raw_, have the tag of the last command
    aborted,   \* how many commands were aborted
    accepted   \* a command was accepted since the last abort, if there was one

storageVars == <<pipeVars, msc, device, aborted, accepted>>

StorageInit ==
    /\ PipeInit
    /\ msc = [stage |-> "Idle", phase |-> "Idle", recovery |-> "None", recovery_ep |-> "in",
              dir_in |-> TRUE, left |-> 0, retries |-> 0,
              ready |-> FALSE, fin |-> "none"]
    /\ device = [expects |-> 0, tag |-> FALSE, csw_tag |-> FALSE]
    /\ aborted = 0 /\ accepted = TRUE

-----------------------------------------------------------------------------
(* Commands                                                                *)

\* Mutant of BulkTransfer's callers: the refusal is ignored.
BulkTransferBusy(m, e, item) ==
    \/ Accepts(e) /\ msc' = m /\ Submit(e, item, 1) /\ UNCHANGED <<control, halted, broken>>
    \/ ~Accepts(e) /\ msc' = m /\ UNCHANGED <<xfer, control, halted, broken>>

\* BulkTransfer; a refusal finishes the command.  Every transfer has size 1: a
\* buffer and a length tell the three kinds apart.
BulkTransfer(m, e, item) ==
    \/ Accepts(e) /\ msc' = m /\ Submit(e, item, 1) /\ UNCHANGED <<control, halted, broken>>
    \/ ~Accepts(e) /\ msc' = [m EXCEPT !.fin = "Failed"] /\ UNCHANGED <<xfer, control, halted, broken>>

\* StartCommand, from an idle driver: the CBW, with a tag nobody has seen.  Every
\* command has a data stage.
StartCommand(m, dir_in, chunks) ==
    /\ BulkTransfer([m EXCEPT !.stage = "Cbw", !.dir_in = dir_in, !.left = chunks],
                    "out", "cbw")
    /\ device' = [device EXCEPT !.tag = FALSE, !.csw_tag = FALSE]
    /\ accepted' = (accepted \/ Accepts("out"))

SubmitData(m) ==
    BulkTransfer([m EXCEPT !.stage = "Data"], IF m.dir_in THEN "in" ELSE "out", "data")

SubmitCsw(m) == BulkTransfer([m EXCEPT !.stage = "Csw"], "in", "csw")

\* A transition of the driver object alone.
Becomes(m) ==
    msc' = m /\ UNCHANGED <<xfer, control, halted, broken>>

\* ControlOut of a request; it may be refused (setup_stage_map_ is full).
SendControl(m, req, e, refused) ==
    /\ msc' = m
    /\ IF refused THEN UNCHANGED control ELSE Send(req, e)
    /\ UNCHANGED <<xfer, halted, broken>>

\* FinishRecovery, up to Finish.
Finished(m) == [m EXCEPT !.recovery = "None", !.fin = "Failed"]

\* BeginHaltRecovery and BeginResetRecovery
BeginRecovery(m, stage, req, e, refused) ==
    IF m.recovery # "None" THEN Becomes(m)
    ELSE LET n == [m EXCEPT !.recovery = stage, !.recovery_ep = e]
         IN  SendControl(IF refused THEN Finished(n) ELSE n, req, e, refused)

BeginHaltRecovery(m, e, refused) == BeginRecovery(m, "ClearHalt", "ClearHalt", e, refused)
BeginResetRecovery(m, refused) ==
    BeginRecovery(m, "MassStorageReset", "Reset", m.recovery_ep, refused)

\* ParseCsw: what the status wrapper says, once length, signature and tag are right.
ParseCsw(m, valid, refused) ==
    IF ~valid \/ ~device.csw_tag THEN BeginResetRecovery(m, refused)
    ELSE \/ Becomes([m EXCEPT !.fin = "Ok"])
         \/ Becomes([m EXCEPT !.fin = "CswStatus"])
         \/ Becomes([m EXCEPT !.fin = "Failed"])     \* a residue
         \/ BeginResetRecovery(m, refused)           \* a phase error

-----------------------------------------------------------------------------
(* Callbacks of the transport                                              *)

Calls(fns) == call # NoCall /\ ~call.done /\ call.fn \in fns
Returns(err) == call' = [call EXCEPT !.done = TRUE, !.err = err]

\* Mutant of the loop over packets: the last one is left out.
MorePacketsButOne(m) == m.left > 2

\* out_sent_ < data_len_ once the packet is counted
MorePackets(m) == m.left > 1

\* Mutant of the test: the transport's recovery is not waited for.
NeverRecovering(m) == FALSE

\* IsBulkRecoveryPending
Recovering(m) == xfer[m.recovery_ep].phase \in {"reset", "clear", "resume"}

\* Mutant of the retry: not counted.
RetryUncounted(m) == [m EXCEPT !.phase = "ReadCapacity"]

\* Another READ CAPACITY
Retry(m) == [m EXCEPT !.phase = "ReadCapacity", !.retries = @ + 1]

\* OnBulkCompleted.  It looks at the stage, not at the endpoint; the lengths of
\* the three kinds of transfer differ, but for a packet and a read of the same size.
OnBulkCompleted(refused) ==
    /\ Calls({"Completed", "ResetDone"})
    /\ LET Whole(item) == call.item = item /\ call.len = 1
           m == msc
       IN  CASE m.stage = "Idle" -> Becomes(m)
             [] m.stage # "Idle" /\ call.fn = "ResetDone" -> BeginHaltRecovery(m, call.ep, refused)
             [] m.stage = "Cbw" /\ call.fn = "Completed" ->
                   IF Whole("cbw") THEN SubmitData(m) ELSE BeginResetRecovery(m, refused)
             [] m.stage = "Data" /\ call.fn = "Completed" ->
                   IF m.dir_in THEN SubmitCsw(m)
                   ELSE IF ~Whole("data") THEN BeginResetRecovery(m, refused)
                   ELSE IF MorePackets(m) THEN SubmitData([m EXCEPT !.left = @ - 1])
                   ELSE SubmitCsw([m EXCEPT !.left = 0])
             [] m.stage = "Csw" /\ call.fn = "Completed" ->
                   \E valid \in {Whole("csw"), FALSE} : ParseCsw(m, valid, refused)
    /\ Returns(/\ msc.stage # "Idle" /\ call.fn = "ResetDone"
               /\ refused \/ msc.recovery # "None")
    /\ UNCHANGED <<device, aborted, accepted>>

\* OnBulkRecoveryCompleted
OnBulkRecoveryCompleted ==
    /\ Calls({"Recovered"})
    /\ \/ /\ msc.recovery = "None" /\ msc.stage # "Idle" /\ ~call.ok
          /\ Becomes([msc EXCEPT !.fin = "Failed"])
       \/ /\ msc.recovery = "AwaitTransport" /\ call.ep = msc.recovery_ep
          /\ Becomes(Finished(msc))
       \/ /\ ~(msc.recovery = "None" /\ msc.stage # "Idle" /\ ~call.ok)
          /\ ~(msc.recovery = "AwaitTransport" /\ call.ep = msc.recovery_ep)
          /\ Becomes(msc)
    /\ Returns(FALSE)
    /\ UNCHANGED <<device, aborted, accepted>>

\* OnControlCompleted during a recovery: the request must be the one the stage
\* waits for.  A cleared halt hands over to the transport while it recovers too.
OnRecoveryControl(refused) ==
    LET m  == msc
        Is(req, e) == call.item = req /\ (req = "ClearHalt" => call.ep = e)
        expected == CASE m.recovery = "ClearHalt"        -> Is("ClearHalt", m.recovery_ep)
                      [] m.recovery = "MassStorageReset" -> Is("Reset", "in")
                      [] m.recovery = "ClearBulkIn"      -> Is("ClearHalt", "in")
                      [] m.recovery = "ClearBulkOut"     -> Is("ClearHalt", "out")
                      [] OTHER -> FALSE
        Go(stage, e) == LET n == [m EXCEPT !.recovery = stage]
                        IN  SendControl(IF refused THEN Finished(n) ELSE n, "ClearHalt", e, refused)
    IN  /\ m.recovery # "None"
        /\ CASE ~call.ok -> Becomes(Finished(m))
             [] call.ok /\ m.recovery = "AwaitTransport" -> Becomes(m)
             [] call.ok /\ m.recovery # "AwaitTransport" /\ ~expected -> Becomes(Finished(m))
             [] call.ok /\ expected /\ m.recovery = "ClearHalt" ->
                   Becomes(IF Recovering(m)
                           THEN [m EXCEPT !.recovery = "AwaitTransport"] ELSE Finished(m))
             [] call.ok /\ expected /\ m.recovery = "MassStorageReset" -> Go("ClearBulkIn", "in")
             [] call.ok /\ expected /\ m.recovery = "ClearBulkIn" -> Go("ClearBulkOut", "out")
             [] call.ok /\ expected /\ m.recovery = "ClearBulkOut" -> Becomes(Finished(m))
        /\ Returns(call.ok /\ (~expected \/ (refused /\ m.recovery # "ClearHalt"
                                                     /\ m.recovery # "ClearBulkOut")))
        /\ UNCHANGED <<device, accepted>>

\* OnControlCompleted outside a recovery: GET_MAX_LUN, answered or stalled, is
\* followed by INQUIRY.
OnPlainControl ==
    /\ msc.recovery = "None"
    /\ IF msc.phase = "GetMaxLun"
       THEN StartCommand([msc EXCEPT !.phase = "Inquiry"], TRUE, 0)
       ELSE Becomes(msc) /\ UNCHANGED <<device, accepted>>
    /\ Returns(FALSE)

OnControlCompleted(refused) ==
    /\ Calls({"ControlDone", "ClearHaltDone"})
    /\ OnRecoveryControl(refused) \/ OnPlainControl
    /\ UNCHANGED aborted

\* Finish: INQUIRY is followed by READ CAPACITY, and a READ CAPACITY that failed
\* by REQUEST SENSE, which may ask for another try.
Finish ==
    LET m == [msc EXCEPT !.stage = "Idle", !.fin = "none"] IN
    /\ msc.fin # "none"
    /\ \/ /\ m.phase = "Inquiry"
          /\ StartCommand([m EXCEPT !.phase = "ReadCapacity"], TRUE, 0)
       \/ /\ m.phase = "ReadCapacity" /\ msc.fin = "CswStatus"
          /\ StartCommand([m EXCEPT !.phase = "RequestSense"], TRUE, 0)
       \/ /\ m.phase = "RequestSense" /\ msc.fin = "Ok" /\ m.retries < kMaxCapacityRetries
          /\ StartCommand(Retry(m), TRUE, 0)
       \/ /\ (m.phase = "ReadCapacity" /\ msc.fin # "CswStatus") \/ m.phase = "RequestSense"
          /\ Becomes([m EXCEPT !.phase = "Done",
                         !.ready = @ \/ (m.phase = "ReadCapacity" /\ msc.fin = "Ok")])
          /\ UNCHANGED <<device, accepted>>
       \/ /\ m.phase = "Done"
          /\ Becomes(m)
          /\ UNCHANGED <<device, accepted>>
    /\ UNCHANGED <<call, aborted>>

-----------------------------------------------------------------------------
(* Client and device                                                       *)

\* OnEndpointsConfigured: the bring-up starts with GET_MAX_LUN.
OnEndpointsConfigured(refused) ==
    /\ call = NoCall /\ msc.phase = "Idle"
    /\ SendControl([msc EXCEPT !.phase = IF refused THEN "Done" ELSE "GetMaxLun"],
                   "GetMaxLun", "in", refused)
    /\ UNCHANGED <<call, device, aborted, accepted>>

\* ReadBlocks and WriteBlocks
Request(dir_in, chunks) ==
    /\ call = NoCall /\ msc.fin = "none"
    /\ msc.ready /\ msc.phase = "Done" /\ msc.stage = "Idle"
    /\ StartCommand(msc, dir_in, chunks)
    /\ UNCHANGED <<call, aborted>>

\* AbortCommand, by a client that timed out, also in the bring-up, whose phase it
\* leaves where it is.  Without a command it does nothing.
AbortCommand ==
    /\ aborted < MaxAborts /\ call = NoCall /\ msc.fin = "none"
    /\ msc.stage # "Idle"
    /\ Becomes([msc EXCEPT !.stage = "Idle", !.recovery = "None", !.left = 0])
    /\ aborted' = aborted + 1 /\ accepted' = FALSE
    /\ UNCHANGED <<call, device>>

\* The device takes the CBW and the packets it receives, and answers with a
\* status wrapper for the last CBW it took.
DeviceStep(e) ==
    /\ Serve(e)
    /\ LET item == xfer[e].item
       IN  device' = CASE item = "cbw" -> [device EXCEPT !.tag = TRUE, !.expects = msc.left]
                       [] item = "csw" -> [device EXCEPT !.csw_tag = device.tag]
                       [] item = "data" -> [device EXCEPT !.expects =
                                               IF e = "out" /\ @ > 0 THEN @ - 1 ELSE @]
    /\ UNCHANGED <<msc, aborted, accepted>>

-----------------------------------------------------------------------------
(* Specification                                                           *)

Host == msc.fin = "none" /\ HostStep /\ UNCHANGED <<msc, device, aborted, accepted>>

ControlFailsInSilence == FailsInSilence /\ UNCHANGED <<msc, device, aborted, accepted>>

Driver ==
    \/ \E refused \in BOOLEAN : OnBulkCompleted(refused) \/ OnControlCompleted(refused)
    \/ OnBulkRecoveryCompleted
    \/ Finish

Client ==
    \/ \E refused \in BOOLEAN : OnEndpointsConfigured(refused)
    \/ \E chunks \in 1 .. MaxChunks : Request(FALSE, chunks)
    \/ Request(TRUE, 0)
    \/ AbortCommand

StorageNext ==
    \/ Host \/ Driver \/ Client
    \/ ControlFailsInSilence
    \/ \E e \in Endpoints : DeviceStep(e)

StorageSpec == StorageInit /\ [][StorageNext]_storageVars

\* The host goes on as long as it has something to do, as TransferSettles shows
\* for XhciBulk (with a hub that answers, if there is a transaction translator), the
\* device serves its bulk endpoints, and the driver returns from its callbacks.
\* Requests on a halted default pipe are nothing the host can do.
StorageFairness ==
    /\ WF_storageVars(Host)
    /\ \A e \in Endpoints : WF_storageVars(DeviceStep(e))
    /\ WF_storageVars(Driver)

FairStorageSpec == StorageSpec /\ StorageFairness

\* A client that goes on asking.  The host makes progress between its calls.
RetryingSpec == FairStorageSpec /\ SF_storageVars(Host) /\ WF_storageVars(Request(TRUE, 0))

-----------------------------------------------------------------------------
(* Properties                                                              *)

Broken == \E e \in Endpoints : broken[e]

\* Between two commands no transfer of the driver is under way: the client may
\* reuse its buffer, and cbw_ and csw_raw_ are free for the next command.  Only
\* an abort or a failed recovery leaves a transfer behind.
FinishedIsQuiet ==
    msc.stage = "Idle" /\ call = NoCall /\ aborted = 0 /\ ~Broken =>
        \A e \in Endpoints : xfer[e] = NoXfer

\* A command succeeds only when the device took this very command, whatever
\* completions of aborted commands still arrive, and, unless one was aborted (or
\* a recovery failed),
\* all packets of a write: OnBulkCompleted takes the late completion of an
\* aborted read for that of a packet it has just submitted.
OkMeansServed ==
    msc.fin = "Ok" =>
        /\ device.tag
        /\ ~msc.dir_in /\ aborted = 0 /\ ~Broken => device.expects = 0

\* A request of the driver is on the default pipe, halted by an earlier one.
Unanswered == halted /\ control # <<>>

\* Every command finishes: it succeeds, fails, is aborted, or a recovery fails; or
\* its recovery needs a request on a default pipe that is halted, as it is once the
\* device has stalled GET_MAX_LUN.
CommandFinishes == msc.stage # "Idle" ~> msc.stage = "Idle" \/ Broken \/ Unanswered

\* The bring-up comes to an end, however often the device reports that it is not
\* ready yet and whatever transfers of it fail, unless it needs a request on a halted
\* default pipe or a client aborts a command of it, which leaves phase_ as it is.
BringUpCompletes ==
    msc.phase = "GetMaxLun" ~> msc.phase = "Done" \/ Broken \/ Unanswered \/ aborted > 0

\* "Drop an in-flight command whose completion never arrived (caller timed
\* out), so StartCommand does not answer kFull to every later command forever."
AbortRestoresService ==
    aborted > 0 /\ msc.phase = "Done" ~> accepted \/ Broken \/ halted

=============================================================================
