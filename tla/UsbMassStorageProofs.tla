------------------------- MODULE UsbMassStorageProofs -------------------------
(***************************************************************************)
(* Proofs about UsbMassStorage, for every length of a write, any number of *)
(* retries and aborts, and whatever transport and device do.               *)
(*                                                                         *)
(* Driver, transport and device each have their own idea of where a        *)
(* command is: the stage and the stage of a recovery, the phases of the    *)
(* two transfers, the control requests under way and the running callback, *)
(* and the packets the device expects.  The inductive invariant says which *)
(* of them go together as long as no command was aborted and no recovery   *)
(* failed.                                                                 *)
(***************************************************************************)
EXTENDS UsbMassStorage, TLAPS

(* The inductive invariant                                                 *)

\* The phases of a transfer.
XferPhases == {"free", "active", "reset", "clear", "resume"}

\* A transfer of the driver.
XferType == [phase : XferPhases, item : Items \cup {NoItem}, size : {0, 1}, served : BOOLEAN]

\* A control request.
ControlType == [req : Requests, ep : Endpoints]

\* A running callback.
CallType ==
    [fn : {"Completed", "ResetDone", "Recovered", "ControlDone", "ClearHaltDone"},
     ep : Endpoints, ok : BOOLEAN, item : Items \cup {NoItem} \cup Requests, len : Nat,
     done : BOOLEAN, err : BOOLEAN]

\* The driver object.
DriverType ==
    [stage : {"Idle", "Cbw", "Data", "Csw"},
     phase : {"Idle", "GetMaxLun", "Inquiry", "ReadCapacity", "RequestSense", "Done"},
     recovery : {"None", "ClearHalt", "AwaitTransport", "MassStorageReset", "ClearBulkIn",
                 "ClearBulkOut"},
     recovery_ep : Endpoints, dir_in : BOOLEAN, left : Nat, retries : Nat,
     ready : BOOLEAN, fin : {"none", "Ok", "CswStatus", "Failed"}]

\* Types of the variables.
TypeInv ==
    /\ xfer \in [Endpoints -> XferType]
    /\ \A e \in Endpoints : xfer[e].phase = "active" => xfer[e].item \in Items
    /\ control \in Seq(ControlType) /\ halted \in BOOLEAN
    /\ call \in CallType \cup {NoCall}
    /\ broken \in [Endpoints -> BOOLEAN]
    /\ msc \in DriverType
    /\ device \in [expects : Nat, tag : BOOLEAN, csw_tag : BOOLEAN]
    /\ aborted \in Nat /\ accepted \in BOOLEAN

\* A status wrapper with the command's tag comes from a device that took the
\* command's CBW, and success from such a status wrapper; a command finishes when
\* its callback has returned.
ResultInv ==
    /\ device.csw_tag => device.tag
    /\ msc.fin = "Ok" => device.csw_tag /\ msc.stage = "Csw" /\ call.fn = "Completed"
    /\ msc.fin # "none" => call = NoCall \/ call.done

\* The callback has returned with an error the recovery does not survive.
Doomed ==
    call.done /\ \/ call.fn = "ResetDone" /\ call.err
                 \/ call.fn = "ClearHaltDone" /\ (~call.ok \/ call.err)

\* A command was aborted, or a recovery has failed or is about to: nothing is
\* known of the transfers any more.
Lost == aborted > 0 \/ Broken \/ Doomed

\* The transport is in no callback that waits for the driver.
Between == call = NoCall \/ (call.done /\ call.fn # "ClearHaltDone")

\* The transport is in a callback that the driver has still to answer.
Within(fn) == call # NoCall /\ ~call.done /\ call.fn = fn

\* The endpoint of a stage.
StageEndpoint == IF msc.stage = "Csw" \/ (msc.stage = "Data" /\ msc.dir_in) THEN "in" ELSE "out"

\* What the stage transfers.
StageItem == CASE msc.stage = "Cbw" -> "cbw" [] msc.stage = "Data" -> "data" [] OTHER -> "csw"

\* No transfer is under way.
AllFree == \A e \in Endpoints : xfer[e] = NoXfer

\* The transfer of the stage is the only one, and in one of the phases.
Alone(phases) ==
    /\ xfer[StageEndpoint].phase \in phases
    /\ xfer[StageEndpoint].item = StageItem /\ xfer[StageEndpoint].size = 1
    /\ \A e \in Endpoints \ {StageEndpoint} : xfer[e] = NoXfer

\* The request is the only one under way.
Requested(req, e) ==
    Len(control) = 1 /\ control[1].req = req /\ (req = "ClearHalt" => control[1].ep = e)

\* The callback of that request.
Answering(fn, req, e) == Within(fn) /\ call.item = req /\ (req = "ClearHalt" => call.ep = e)

\* Between two commands.
IdleInv == msc.stage = "Idle" =>
    /\ msc.recovery = "None" /\ msc.fin = "none" /\ AllFree
    /\ \/ Between /\ control = <<>>
       \/ Between /\ msc.phase = "GetMaxLun" /\ Requested("GetMaxLun", "in")
       \/ Within("ControlDone") /\ msc.phase = "GetMaxLun" /\ control = <<>>

\* A command under way without a recovery: its transfer is under way, or its
\* callback, or the command is about to finish.
BusyInv == msc.stage # "Idle" /\ msc.recovery = "None" =>
    /\ control = <<>>
    /\ msc.fin = "none" =>
          \/ Between /\ Alone({"active", "reset"})
          \/ Within("Completed") /\ AllFree /\ call.item = StageItem
          \/ Within("ResetDone") /\ call.ep = StageEndpoint /\ Alone({"clear"})
    /\ msc.fin # "none" => Between /\ AllFree

\* The recovery of a halted endpoint.
HaltInv ==
    /\ msc.recovery = "ClearHalt" =>
          /\ msc.recovery_ep = StageEndpoint /\ Alone({"clear"})
          /\ \/ Between /\ Requested("ClearHalt", StageEndpoint)
             \/ Answering("ClearHaltDone", "ClearHalt", StageEndpoint) /\ control = <<>>
    /\ msc.recovery = "AwaitTransport" =>
          /\ msc.recovery_ep = StageEndpoint /\ control = <<>>
          /\ \/ /\ call # NoCall /\ call.done /\ call.fn = "ClearHaltDone"
                /\ call.ep = StageEndpoint /\ Alone({"clear"})
             \/ call = NoCall /\ Alone({"resume"})
             \/ Within("Recovered") /\ call.ep = StageEndpoint /\ AllFree

\* What a stage of the Bulk-Only reset waits for.
Awaited(stage, req, e) == msc.recovery = stage =>
    /\ AllFree
    /\ \/ Between /\ Requested(req, e)
       \/ Answering("ControlDone", req, e) /\ control = <<>>

\* The recovery of the whole device.
ResetInv ==
    /\ Awaited("MassStorageReset", "Reset", "in")
    /\ Awaited("ClearBulkIn", "ClearHalt", "in")
    /\ Awaited("ClearBulkOut", "ClearHalt", "out")

\* Where the command is.
PlaceInv ==
    /\ msc.phase \in {"Idle", "GetMaxLun"} => msc.stage = "Idle"
    /\ msc.phase = "Idle" => call = NoCall /\ control = <<>>
    /\ msc.recovery # "None" => msc.stage # "Idle" /\ msc.fin = "none"
    /\ IdleInv /\ BusyInv /\ HaltInv /\ ResetInv

\* The transfer of the stage has been served: the device is done with it.
Taken == Within("Completed") \/ (xfer[StageEndpoint].phase = "active" /\ xfer[StageEndpoint].served)

\* A write: the packets the device expects are the ones the driver has not sent.
PacketsInv == ~msc.dir_in =>
    /\ msc.stage \in {"Cbw", "Data"} /\ msc.fin = "none" => msc.left > 0
    /\ msc.stage = "Cbw" /\ msc.recovery = "None" /\ Taken => device.expects = msc.left
    /\ msc.stage = "Data" /\ msc.recovery = "None" =>
          /\ Taken => device.expects = msc.left - 1
          /\ ~Taken /\ xfer[StageEndpoint].phase = "active" => device.expects = msc.left
    /\ msc.stage = "Csw" => device.expects = 0

\* The inductive invariant.
StorageInv ==
    /\ TypeInv /\ ResultInv
    /\ ~Lost => PlaceInv /\ PacketsInv

-----------------------------------------------------------------------------
(* Types                                                                   *)

\* What is running is one of the callbacks.
LEMMA CallKinds ==
    /\ NoCall \notin CallType
    /\ \A c \in CallType : c.fn # "none"
    /\ ~NoCall.done /\ NoCall.fn = "none"
  BY DEF NoCall, CallType

\* A callback has the type of one.
LEMMA CallTyped ==
    ASSUME NEW fn \in {"Completed", "ResetDone", "Recovered", "ControlDone", "ClearHaltDone"},
           NEW e \in Endpoints, NEW ok \in BOOLEAN,
           NEW item \in Items \cup {NoItem} \cup Requests, NEW len \in Nat
    PROVE  CallOf(fn, e, ok, item, len) \in CallType
  BY DEF CallOf, CallType

\* An endpoint without a transfer.
LEMMA FreeTyped == NoXfer \in XferType /\ NoXfer.phase = "free"
  BY DEF NoXfer, XferType, XferPhases

\* Initially everything has its type.
LEMMA TypeInit == StorageInit => TypeInv
<1> SUFFICES ASSUME StorageInit PROVE TypeInv
  OBVIOUS
<1>1. /\ xfer \in [Endpoints -> XferType]
      /\ \A e \in Endpoints : xfer[e].phase = "active" => xfer[e].item \in Items
  BY FreeTyped DEF StorageInit, PipeInit
<1>2. control = <<>> /\ halted = FALSE /\ call = NoCall
  BY DEF StorageInit, PipeInit
<1>3. control \in Seq(ControlType)
  BY <1>2
<1>4. broken \in [Endpoints -> BOOLEAN]
  BY DEF StorageInit, PipeInit
<1>5. /\ msc \in DriverType /\ device \in [expects : Nat, tag : BOOLEAN, csw_tag : BOOLEAN]
      /\ aborted \in Nat /\ accepted \in BOOLEAN
  BY StorageAssumption DEF StorageInit, DriverType
<1> QED BY <1>1, <1>2, <1>3, <1>4, <1>5 DEF TypeInv

\* Types of the transport's variables and of the driver object.
PipeTypes ==
    /\ xfer \in [Endpoints -> XferType]
    /\ \A e \in Endpoints : xfer[e].phase = "active" => xfer[e].item \in Items
    /\ control \in Seq(ControlType) /\ halted \in BOOLEAN
    /\ broken \in [Endpoints -> BOOLEAN]

\* The transport keeps the types.
LEMMA HostTypes == ASSUME TypeInv, HostStep PROVE PipeTypes' /\ call' \in CallType \cup {NoCall}
<1>1. ASSUME NEW e \in Endpoints, NEW len \in 0 .. xfer[e].size, Complete(e, len)
      PROVE  PipeTypes' /\ call' \in CallType \cup {NoCall}
  <2>1. call' \in CallType
    <3>1. xfer[e].item \in Items /\ xfer[e].size \in {0, 1} /\ len \in Nat
      BY <1>1 DEF TypeInv, XferType, Complete
    <3> QED BY <1>1, <3>1, CallTyped DEF Complete, Call
  <2> QED BY <1>1, <2>1, FreeTyped DEF TypeInv, PipeTypes, Complete, Free
<1>2. ASSUME NEW e \in Endpoints, Fail(e) PROVE PipeTypes' /\ call' \in CallType \cup {NoCall}
  BY <1>2 DEF TypeInv, PipeTypes, XferType, XferPhases, Fail, Enter
<1>3. ASSUME NEW e \in Endpoints, ResetEnds(e) \/ ResumeEnds(e)
      PROVE  PipeTypes' /\ call' \in CallType \cup {NoCall}
  <2>1. \A fn \in {"ResetDone", "Recovered"}, ok \in BOOLEAN : CallOf(fn, e, ok, NoItem, 0) \in CallType
    BY CallTyped
  <2>2. call' \in CallType
    BY <1>3, <2>1 DEF ResetEnds, ResumeEnds, Call
  <2>3. CASE Enter(e, "clear") /\ UNCHANGED <<broken, control, halted>>
    BY <2>2, <2>3 DEF TypeInv, PipeTypes, XferType, XferPhases, Enter
  <2>4. CASE Free(e) /\ (Break(e) \/ UNCHANGED broken) /\ UNCHANGED <<control, halted>>
    BY <2>2, <2>4, FreeTyped DEF TypeInv, PipeTypes, Free, Break
  <2> QED BY <1>3, <2>3, <2>4 DEF ResetEnds, ResumeEnds
<1>4. ASSUME ControlEnds PROVE PipeTypes' /\ call' \in CallType \cup {NoCall}
  <2>1. Head(control) \in ControlType /\ Tail(control) \in Seq(ControlType)
    BY <1>4 DEF TypeInv, ControlEnds
  <2>2. call' \in CallType
    BY <1>4, <2>1, CallTyped DEF ControlEnds, Call, ControlType
  <2> QED BY <1>4, <2>1, <2>2 DEF TypeInv, PipeTypes, ControlEnds
<1>5. ASSUME Return PROVE PipeTypes' /\ call' \in CallType \cup {NoCall}
  <2>1. call \in CallType /\ call.ep \in Endpoints
    BY <1>5 DEF TypeInv, Return, CallType
  <2>2. CallOf("Recovered", call.ep, FALSE, NoItem, 0) \in CallType
    BY <2>1, CallTyped
  <2>3. call' \in CallType \cup {NoCall}
    BY <1>5, <2>2 DEF Return, Call
  <2>4. CASE UNCHANGED xfer /\ UNCHANGED broken
    BY <1>5, <2>3, <2>4 DEF TypeInv, PipeTypes, Return
  <2>5. CASE Enter(call.ep, "resume") /\ UNCHANGED broken
    BY <1>5, <2>1, <2>3, <2>5 DEF TypeInv, PipeTypes, XferType, XferPhases, Enter, Return
  <2>6. CASE Free(call.ep) /\ Break(call.ep)
    BY <1>5, <2>1, <2>3, <2>6, FreeTyped DEF TypeInv, PipeTypes, Free, Break, Return
  <2> QED BY <1>5, <2>4, <2>5, <2>6 DEF Return
<1> QED BY <1>1, <1>2, <1>3, <1>4, <1>5 DEF HostStep

\* So does a submission of the driver.
LEMMA TransferTypes ==
    ASSUME TypeInv, NEW m \in DriverType, NEW e \in Endpoints, NEW item \in Items,
           BulkTransfer(m, e, item)
    PROVE  PipeTypes' /\ msc' \in DriverType
<1>1. CASE Accepts(e)
  <2>1. msc' = m /\ control' = control /\ halted' = halted /\ broken' = broken
    BY <1>1 DEF BulkTransfer
  <2>2. xfer' = [xfer EXCEPT ![e] = [phase |-> "active", item |-> item, size |-> 1, served |-> FALSE]]
    BY <1>1 DEF BulkTransfer, Submit
  <2> QED BY <2>1, <2>2 DEF TypeInv, PipeTypes, XferType, XferPhases
<1>2. CASE ~Accepts(e)
  <2>1. msc' = [m EXCEPT !.fin = "Failed"] /\ UNCHANGED <<xfer, control, halted, broken>>
    BY <1>2 DEF BulkTransfer
  <2> QED BY <2>1 DEF TypeInv, PipeTypes, DriverType
<1> QED BY <1>1, <1>2

\* And a control request of the driver.
LEMMA ControlTypes ==
    ASSUME TypeInv, NEW m \in DriverType, NEW req \in Requests, NEW e \in Endpoints,
           NEW refused \in BOOLEAN, SendControl(m, req, e, refused)
    PROVE  PipeTypes' /\ msc' \in DriverType
<1>1. [req |-> req, ep |-> e] \in ControlType
  BY DEF ControlType
<1>2. control' \in Seq(ControlType)
  BY <1>1 DEF SendControl, Send, TypeInv
<1> QED BY <1>2 DEF SendControl, TypeInv, PipeTypes

\* The names of endpoints, buffers and requests.
LEMMA Names ==
    /\ "in" \in Endpoints /\ "out" \in Endpoints
    /\ "cbw" \in Items /\ "data" \in Items /\ "csw" \in Items
    /\ "GetMaxLun" \in Requests /\ "ClearHalt" \in Requests /\ "Reset" \in Requests
  BY StorageAssumption

\* A change of stages and counters keeps the type of the driver object.
LEMMA DriverTyped ==
    ASSUME NEW m \in DriverType
    PROVE  /\ \A s \in {"Idle", "Cbw", "Data", "Csw"} : [m EXCEPT !.stage = s] \in DriverType
           /\ \A f \in {"none", "Ok", "CswStatus", "Failed"} : [m EXCEPT !.fin = f] \in DriverType
           /\ Finished(m) \in DriverType /\ Finished(m).fin = "Failed"
           /\ \A s \in {"None", "ClearHalt", "AwaitTransport", "MassStorageReset", "ClearBulkIn",
                        "ClearBulkOut"} :
                 /\ [m EXCEPT !.recovery = s] \in DriverType
                 /\ \A e \in Endpoints : [m EXCEPT !.recovery = s, !.recovery_ep = e] \in DriverType
           /\ \A n \in Nat : [m EXCEPT !.left = n] \in DriverType
           /\ m.left \in Nat /\ m.recovery_ep \in Endpoints
  BY DEF DriverType, Finished

\* A command and a stage of the driver keep the types.
LEMMA StartTypes ==
    ASSUME TypeInv, NEW m \in DriverType, NEW dir_in \in BOOLEAN, NEW chunks \in Nat,
           StartCommand(m, dir_in, chunks)
    PROVE  PipeTypes' /\ msc' \in DriverType
           /\ device' \in [expects : Nat, tag : BOOLEAN, csw_tag : BOOLEAN]
           /\ accepted' \in BOOLEAN
<1>1. [m EXCEPT !.stage = "Cbw", !.dir_in = dir_in, !.left = chunks] \in DriverType
  BY DEF DriverType
<1>2. PipeTypes' /\ msc' \in DriverType
  BY <1>1, Names, TransferTypes DEF StartCommand
<1>3. device' \in [expects : Nat, tag : BOOLEAN, csw_tag : BOOLEAN]
  BY DEF StartCommand, TypeInv
<1>4. accepted' \in BOOLEAN
  BY DEF StartCommand, TypeInv
<1> QED BY <1>2, <1>3, <1>4

\* The stages of a command keep the types.
LEMMA StageTypes ==
    ASSUME TypeInv, NEW m \in DriverType, SubmitData(m) \/ SubmitCsw(m)
    PROVE  PipeTypes' /\ msc' \in DriverType
<1>1. [m EXCEPT !.stage = "Data"] \in DriverType /\ [m EXCEPT !.stage = "Csw"] \in DriverType
  BY DriverTyped
<1> QED BY <1>1, Names, TransferTypes DEF SubmitData, SubmitCsw

\* A transition of the driver alone keeps the types.
LEMMA BecomesTypes ==
    ASSUME TypeInv, NEW m \in DriverType, Becomes(m)
    PROVE  PipeTypes' /\ msc' \in DriverType
  BY DEF Becomes, TypeInv, PipeTypes

\* The beginning of a recovery keeps the types.
LEMMA BeginTypes ==
    ASSUME TypeInv, NEW m \in DriverType, NEW refused \in BOOLEAN,
           \/ \E e \in Endpoints : BeginHaltRecovery(m, e, refused)
           \/ BeginResetRecovery(m, refused)
    PROVE  PipeTypes' /\ msc' \in DriverType
<1>1. PICK stage \in {"ClearHalt", "MassStorageReset"}, req \in Requests, e \in Endpoints :
          BeginRecovery(m, stage, req, e, refused)
  BY Names, DriverTyped DEF BeginHaltRecovery, BeginResetRecovery
<1>2. CASE m.recovery # "None"
  BY <1>1, <1>2, BecomesTypes DEF BeginRecovery
<1>3. CASE m.recovery = "None"
  <2> DEFINE n == [m EXCEPT !.recovery = stage, !.recovery_ep = e]
  <2>1. n \in DriverType
    BY DriverTyped
  <2>2. Finished(n) \in DriverType
    BY <2>1, DriverTyped
  <2>3. SendControl(IF refused THEN Finished(n) ELSE n, req, e, refused)
    BY <1>1, <1>3 DEF BeginRecovery
  <2> HIDE DEF n
  <2> QED BY <2>1, <2>2, <2>3, ControlTypes
<1> QED BY <1>2, <1>3

\* What a callback leaves behind.
LEMMA ReturnsTypes ==
    ASSUME TypeInv, call # NoCall, NEW err \in BOOLEAN, Returns(err)
    PROVE  call' \in CallType /\ call'.done /\ call'.err = err /\ call'.fn = call.fn
           /\ call'.ep = call.ep /\ call'.ok = call.ok
  BY DEF Returns, TypeInv, CallType

\* OnBulkCompleted, case by case.
LEMMA CompletedCases ==
    ASSUME TypeInv, NEW refused \in BOOLEAN, OnBulkCompleted(refused), NEW P,
           ASSUME msc.stage = "Idle", Becomes(msc) PROVE P,
           ASSUME msc.stage # "Idle", call.fn = "ResetDone",
                  BeginHaltRecovery(msc, call.ep, refused) PROVE P,
           ASSUME msc.stage # "Idle", call.fn = "Completed", BeginResetRecovery(msc, refused)
           PROVE  P,
           ASSUME msc.stage = "Cbw", call.fn = "Completed", SubmitData(msc) PROVE P,
           ASSUME msc.stage = "Data", msc.dir_in, call.fn = "Completed", SubmitCsw(msc) PROVE P,
           ASSUME msc.stage = "Data", ~msc.dir_in, call.fn = "Completed", msc.left > 1,
                  SubmitData([msc EXCEPT !.left = @ - 1]) PROVE P,
           ASSUME msc.stage = "Data", ~msc.dir_in, call.fn = "Completed", ~(msc.left > 1),
                  SubmitCsw([msc EXCEPT !.left = 0]) PROVE P,
           ASSUME msc.stage = "Csw", call.fn = "Completed",
                  NEW fin \in {"Ok", "CswStatus", "Failed"}, fin = "Ok" => device.csw_tag,
                  Becomes([msc EXCEPT !.fin = fin]) PROVE P
    PROVE  P
<1> DEFINE Whole(item) == call.item = item /\ call.len = 1
<1>1. msc.stage \in {"Idle", "Cbw", "Data", "Csw"} /\ call.fn \in {"Completed", "ResetDone"}
  BY DEF TypeInv, DriverType, OnBulkCompleted, Calls
<1>2. CASE msc.stage = "Idle"
  BY <1>2 DEF OnBulkCompleted
<1>3. CASE msc.stage # "Idle" /\ call.fn = "ResetDone"
  BY <1>3 DEF OnBulkCompleted
<1>4. CASE msc.stage = "Cbw" /\ call.fn = "Completed"
  <2>1. IF Whole("cbw") THEN SubmitData(msc) ELSE BeginResetRecovery(msc, refused)
    BY <1>4 DEF OnBulkCompleted
  <2> QED BY <1>4, <2>1
<1>5. CASE msc.stage = "Data" /\ call.fn = "Completed"
  <2>1. IF msc.dir_in THEN SubmitCsw(msc)
        ELSE IF ~Whole("data") THEN BeginResetRecovery(msc, refused)
        ELSE IF MorePackets(msc) THEN SubmitData([msc EXCEPT !.left = @ - 1])
        ELSE SubmitCsw([msc EXCEPT !.left = 0])
    BY <1>5 DEF OnBulkCompleted
  <2> HIDE DEF Whole
  <2>2. CASE msc.dir_in
    BY <1>5, <2>1, <2>2
  <2>3. CASE ~msc.dir_in /\ ~Whole("data")
    BY <1>5, <2>1, <2>3
  <2>4. CASE ~msc.dir_in /\ Whole("data") /\ MorePackets(msc)
    BY <1>5, <2>1, <2>4 DEF MorePackets
  <2>5. CASE ~msc.dir_in /\ Whole("data") /\ ~MorePackets(msc)
    BY <1>5, <2>1, <2>5 DEF MorePackets
  <2> QED BY <2>2, <2>3, <2>4, <2>5
<1>6. CASE msc.stage = "Csw" /\ call.fn = "Completed"
  <2>1. \E valid \in {Whole("csw"), FALSE} : ParseCsw(msc, valid, refused)
    BY <1>6 DEF OnBulkCompleted
  <2>2. CASE BeginResetRecovery(msc, refused)
    BY <1>6, <2>2
  <2>3. CASE device.csw_tag /\ Becomes([msc EXCEPT !.fin = "Ok"])
    BY <1>6, <2>3
  <2>4. CASE Becomes([msc EXCEPT !.fin = "CswStatus"])
    BY <1>6, <2>4
  <2>5. CASE Becomes([msc EXCEPT !.fin = "Failed"])
    BY <1>6, <2>5
  <2> QED BY <2>1, <2>2, <2>3, <2>4, <2>5 DEF ParseCsw
<1> QED BY <1>1, <1>2, <1>3, <1>4, <1>5, <1>6

\* OnBulkCompleted keeps the types.
LEMMA CompletedTypes ==
    ASSUME TypeInv, NEW refused \in BOOLEAN, OnBulkCompleted(refused)
    PROVE  TypeInv'
<1>1. msc \in DriverType /\ call \in CallType /\ call # NoCall /\ call.ep \in Endpoints
  BY DEF TypeInv, OnBulkCompleted, Calls, CallType
<1>2. call' \in CallType
  <2>1. (/\ msc.stage # "Idle" /\ call.fn = "ResetDone"
         /\ refused \/ msc.recovery # "None") \in BOOLEAN
    OBVIOUS
  <2> QED BY <1>1, <2>1, ReturnsTypes DEF OnBulkCompleted
<1>3. PipeTypes' /\ msc' \in DriverType
  <2>1. ASSUME NEW m \in DriverType, Becomes(m) PROVE PipeTypes' /\ msc' \in DriverType
    BY <2>1, BecomesTypes
  <2>2. ASSUME NEW m \in DriverType, SubmitData(m) \/ SubmitCsw(m)
        PROVE  PipeTypes' /\ msc' \in DriverType
    BY <2>2, StageTypes
  <2>3. ASSUME BeginHaltRecovery(msc, call.ep, refused) \/ BeginResetRecovery(msc, refused)
        PROVE  PipeTypes' /\ msc' \in DriverType
    BY <1>1, <2>3, BeginTypes
  <2>4. /\ msc.left > 1 => [msc EXCEPT !.left = @ - 1] \in DriverType
        /\ [msc EXCEPT !.left = 0] \in DriverType
    BY <1>1 DEF DriverType
  <2>5. \A f \in {"Ok", "CswStatus", "Failed"} : [msc EXCEPT !.fin = f] \in DriverType
    BY <1>1, DriverTyped
  <2> QED BY <1>1, <2>1, <2>2, <2>3, <2>4, <2>5, CompletedCases
<1> QED BY <1>2, <1>3 DEF TypeInv, PipeTypes, OnBulkCompleted

\* The control request the stage of the recovery waits for.
Expected ==
    CASE msc.recovery = "ClearHalt"        -> call.item = "ClearHalt" /\ call.ep = msc.recovery_ep
      [] msc.recovery = "MassStorageReset" -> call.item = "Reset"
      [] msc.recovery = "ClearBulkIn"      -> call.item = "ClearHalt" /\ call.ep = "in"
      [] msc.recovery = "ClearBulkOut"     -> call.item = "ClearHalt" /\ call.ep = "out"
      [] OTHER -> FALSE

\* The next stage of a recovery.
NextStage(stage) == [msc EXCEPT !.recovery = stage]

\* OnControlCompleted during a recovery, case by case.
LEMMA RecoveryCases ==
    ASSUME TypeInv, NEW refused \in BOOLEAN, OnRecoveryControl(refused), NEW P,
           ASSUME ~call.ok, Becomes(Finished(msc)) PROVE P,
           ASSUME call.ok, msc.recovery # "AwaitTransport", ~Expected, Becomes(Finished(msc))
           PROVE  P,
           ASSUME call.ok, msc.recovery = "AwaitTransport", Becomes(msc) PROVE P,
           ASSUME call.ok, Expected, msc.recovery = "ClearHalt", Recovering(msc),
                  Becomes(NextStage("AwaitTransport"))
           PROVE  P,
           ASSUME call.ok, Expected, msc.recovery = "ClearHalt", ~Recovering(msc),
                  Becomes(Finished(msc))
           PROVE  P,
           ASSUME call.ok, Expected,
                  NEW stage \in {"ClearBulkIn", "ClearBulkOut"}, NEW e \in {"in", "out"},
                  \/ msc.recovery = "MassStorageReset" /\ stage = "ClearBulkIn" /\ e = "in"
                  \/ msc.recovery = "ClearBulkIn" /\ stage = "ClearBulkOut" /\ e = "out",
                  SendControl(IF refused THEN Finished(NextStage(stage)) ELSE NextStage(stage),
                              "ClearHalt", e, refused)
           PROVE  P,
           ASSUME call.ok, Expected, msc.recovery = "ClearBulkOut", Becomes(Finished(msc)) PROVE P
    PROVE  P
<1>1. msc.recovery \in {"ClearHalt", "AwaitTransport", "MassStorageReset", "ClearBulkIn",
                        "ClearBulkOut"}
  BY DEF TypeInv, DriverType, OnRecoveryControl
<1>2. CASE ~call.ok
  BY <1>2 DEF OnRecoveryControl
<1>3. CASE call.ok /\ msc.recovery = "AwaitTransport"
  BY <1>3 DEF OnRecoveryControl
<1>4. CASE call.ok /\ msc.recovery # "AwaitTransport" /\ ~Expected
  <2>1. Becomes(Finished(msc))
    BY <1>1, <1>4 DEF OnRecoveryControl, Expected
  <2> QED BY <1>4, <2>1
<1>5. CASE call.ok /\ Expected /\ msc.recovery = "ClearHalt"
  <2>1. Becomes(IF Recovering(msc) THEN NextStage("AwaitTransport") ELSE Finished(msc))
    BY <1>5 DEF OnRecoveryControl, Expected, NextStage
  <2> QED BY <1>5, <2>1
<1>6. CASE call.ok /\ Expected /\ msc.recovery = "MassStorageReset"
  <2>1. SendControl(IF refused THEN Finished(NextStage("ClearBulkIn"))
                    ELSE NextStage("ClearBulkIn"), "ClearHalt", "in", refused)
    BY <1>6 DEF OnRecoveryControl, Expected, NextStage
  <2> QED BY <1>6, <2>1
<1>7. CASE call.ok /\ Expected /\ msc.recovery = "ClearBulkIn"
  <2>1. SendControl(IF refused THEN Finished(NextStage("ClearBulkOut"))
                    ELSE NextStage("ClearBulkOut"), "ClearHalt", "out", refused)
    BY <1>7 DEF OnRecoveryControl, Expected, NextStage
  <2> QED BY <1>7, <2>1
<1>8. CASE call.ok /\ Expected /\ msc.recovery = "ClearBulkOut"
  <2>1. Becomes(Finished(msc))
    BY <1>8 DEF OnRecoveryControl, Expected
  <2> QED BY <1>8, <2>1
<1> QED BY <1>1, <1>2, <1>3, <1>4, <1>5, <1>6, <1>7, <1>8

\* OnControlCompleted keeps the types.
LEMMA ControlCompletedTypes ==
    ASSUME TypeInv, NEW refused \in BOOLEAN, OnControlCompleted(refused)
    PROVE  TypeInv'
<1>1. /\ msc \in DriverType /\ call \in CallType /\ call # NoCall /\ call.ep \in Endpoints
      /\ aborted' = aborted
  BY DEF TypeInv, OnControlCompleted, Calls, CallType
<1>2. call' \in CallType
  BY <1>1, ReturnsTypes DEF OnControlCompleted, OnRecoveryControl, OnPlainControl, TypeInv, CallType
<1>3. ASSUME NEW m \in DriverType, Becomes(m) PROVE PipeTypes' /\ msc' \in DriverType
  BY <1>3, BecomesTypes
<1>4. CASE OnRecoveryControl(refused)
  <2>1. Finished(msc) \in DriverType
    BY <1>1, DriverTyped
  <2>2. \A s \in {"AwaitTransport", "ClearBulkIn", "ClearBulkOut"} :
           NextStage(s) \in DriverType /\ Finished(NextStage(s)) \in DriverType
    BY <1>1, DriverTyped DEF NextStage
  <2>3. ASSUME NEW s \in {"ClearBulkIn", "ClearBulkOut"}, NEW e \in {"in", "out"},
               SendControl(IF refused THEN Finished(NextStage(s)) ELSE NextStage(s),
                           "ClearHalt", e, refused)
        PROVE  PipeTypes' /\ msc' \in DriverType
    BY <2>2, <2>3, Names, ControlTypes
  <2>4. PipeTypes' /\ msc' \in DriverType
    BY <1>1, <1>3, <1>4, <2>1, <2>2, <2>3, RecoveryCases
  <2> QED BY <1>1, <1>2, <1>4, <2>4 DEF TypeInv, PipeTypes, OnRecoveryControl
<1>5. CASE OnPlainControl
  <2>1. CASE msc.phase = "GetMaxLun"
    <3>1. [msc EXCEPT !.phase = "Inquiry"] \in DriverType
      BY <1>1 DEF DriverType
    <3> QED BY <1>1, <1>2, <1>5, <2>1, <3>1, StartTypes DEF TypeInv, PipeTypes, OnPlainControl
  <2>2. CASE msc.phase # "GetMaxLun"
    BY <1>1, <1>2, <1>3, <1>5, <2>2 DEF TypeInv, PipeTypes, OnPlainControl
  <2> QED BY <2>1, <2>2
<1> QED BY <1>4, <1>5 DEF OnControlCompleted

\* OnBulkRecoveryCompleted keeps the types.
LEMMA RecoveredTypes == ASSUME TypeInv, OnBulkRecoveryCompleted PROVE TypeInv'
<1>1. msc \in DriverType /\ call \in CallType /\ call # NoCall
  BY DEF TypeInv, OnBulkRecoveryCompleted, Calls
<1>2. call' \in CallType
  BY <1>1, ReturnsTypes DEF OnBulkRecoveryCompleted
<1>3. [msc EXCEPT !.fin = "Failed"] \in DriverType /\ Finished(msc) \in DriverType
  BY <1>1, DriverTyped
<1>4. PipeTypes' /\ msc' \in DriverType
  BY <1>1, <1>3, BecomesTypes DEF OnBulkRecoveryCompleted
<1> QED BY <1>2, <1>4 DEF TypeInv, PipeTypes, OnBulkRecoveryCompleted

\* Finish keeps the types.
LEMMA FinishTypes == ASSUME TypeInv, Finish PROVE TypeInv'
<1> DEFINE m == [msc EXCEPT !.stage = "Idle", !.fin = "none"]
<1>0. m \in DriverType
  BY DEF TypeInv, DriverType
<1>1. ASSUME NEW n \in DriverType
      PROVE  /\ \A p \in {"ReadCapacity", "RequestSense"} : [n EXCEPT !.phase = p] \in DriverType
             /\ Retry(n) \in DriverType
             /\ \A b \in BOOLEAN : [n EXCEPT !.phase = "Done", !.ready = b] \in DriverType
  <2>1. \A p \in {"ReadCapacity", "RequestSense"} : [n EXCEPT !.phase = p] \in DriverType
    BY DEF DriverType
  <2>2. Retry(n) \in DriverType
    <3>1. n.retries + 1 \in Nat
      BY DEF DriverType
    <3>2. \A k \in Nat : [n EXCEPT !.phase = "ReadCapacity", !.retries = k] \in DriverType
      BY DEF DriverType
    <3> QED BY <3>1, <3>2 DEF Retry
  <2>3. \A b \in BOOLEAN : [n EXCEPT !.phase = "Done", !.ready = b] \in DriverType
    BY DEF DriverType
  <2> QED BY <2>1, <2>2, <2>3
<1>2. ASSUME NEW n \in DriverType, StartCommand(n, TRUE, 0) PROVE TypeInv'
  BY <1>2, StartTypes DEF TypeInv, PipeTypes, Finish
<1>3. ASSUME NEW n \in DriverType, Becomes(n), UNCHANGED <<device, accepted>> PROVE TypeInv'
  BY <1>3, BecomesTypes DEF TypeInv, PipeTypes, Finish
<1>5. [m EXCEPT !.phase = "Done", !.ready = @ \/ (m.phase = "ReadCapacity" /\ msc.fin = "Ok")]
        \in DriverType
  <2>1. (m.ready \/ (m.phase = "ReadCapacity" /\ msc.fin = "Ok")) \in BOOLEAN
    OBVIOUS
  <2> HIDE DEF m
  <2> QED BY <1>0, <1>1, <2>1
<1>6. (\/ StartCommand([m EXCEPT !.phase = "ReadCapacity"], TRUE, 0)
       \/ StartCommand([m EXCEPT !.phase = "RequestSense"], TRUE, 0)
       \/ StartCommand(Retry(m), TRUE, 0))
      \/ (/\ \/ Becomes([m EXCEPT !.phase = "Done",
                          !.ready = @ \/ (m.phase = "ReadCapacity" /\ msc.fin = "Ok")])
             \/ Becomes(m)
          /\ UNCHANGED <<device, accepted>>)
  BY DEF Finish
<1> HIDE DEF m
<1> QED BY <1>0, <1>1, <1>2, <1>3, <1>5, <1>6

\* The client's calls and the device keep the types.
LEMMA ClientTypes == ASSUME TypeInv, Client PROVE TypeInv'
<1>1. ASSUME NEW refused \in BOOLEAN, OnEndpointsConfigured(refused) PROVE TypeInv'
  <2>1. [msc EXCEPT !.phase = IF refused THEN "Done" ELSE "GetMaxLun"] \in DriverType
    BY DEF TypeInv, DriverType
  <2> QED BY <1>1, <2>1, Names, ControlTypes DEF TypeInv, PipeTypes, OnEndpointsConfigured
<1>2. ASSUME NEW dir_in \in BOOLEAN, NEW chunks \in Nat, Request(dir_in, chunks) PROVE TypeInv'
  BY <1>2, StartTypes DEF TypeInv, PipeTypes, Request
<1>3. ASSUME AbortCommand PROVE TypeInv'
  <2>1. [msc EXCEPT !.stage = "Idle", !.recovery = "None", !.left = 0] \in DriverType
    BY DEF TypeInv, DriverType
  <2>2. PipeTypes' /\ msc' \in DriverType
    BY <1>3, <2>1, BecomesTypes DEF AbortCommand
  <2>3. aborted' \in Nat /\ call' = call /\ device' = device
    BY <1>3 DEF TypeInv, AbortCommand
  <2>4. accepted' \in BOOLEAN
    BY <1>3 DEF AbortCommand
  <2> QED BY <2>2, <2>3, <2>4 DEF TypeInv, PipeTypes
<1>4. 0 \in Nat /\ \A n \in 1 .. MaxChunks : n \in Nat
  BY StorageAssumption
<1> QED BY <1>1, <1>2, <1>3, <1>4 DEF Client

\* The device keeps the types.
LEMMA DeviceTypes == ASSUME TypeInv, NEW e \in Endpoints, DeviceStep(e) PROVE TypeInv'
<1>1. xfer[e].item \in {"cbw", "data", "csw"} /\ msc.left \in Nat
  BY StorageAssumption DEF TypeInv, DriverType, DeviceStep, Serve
<1>2. device' \in [expects : Nat, tag : BOOLEAN, csw_tag : BOOLEAN]
  <2>1. CASE xfer[e].item = "cbw"
    BY <1>1, <2>1 DEF TypeInv, DeviceStep
  <2>2. CASE xfer[e].item = "csw"
    BY <1>1, <2>2 DEF TypeInv, DeviceStep
  <2>3. CASE xfer[e].item = "data"
    <3>1. device' = [device EXCEPT !.expects = IF e = "out" /\ @ > 0 THEN @ - 1 ELSE @]
      BY <2>3 DEF DeviceStep
    <3>2. device.expects \in Nat
      BY DEF TypeInv
    <3>3. PICK n \in Nat : device' = [device EXCEPT !.expects = n]
      BY <3>1, <3>2
    <3> QED BY <3>3 DEF TypeInv
  <2> QED BY <1>1, <2>1, <2>2, <2>3
<1>3. PipeTypes'
  <2>1. xfer' = [xfer EXCEPT ![e].served = TRUE] /\ control' = control /\ broken' = broken
    BY DEF DeviceStep, Serve
  <2>2. xfer' \in [Endpoints -> XferType]
    <3>1. xfer \in [Endpoints -> XferType] /\ xfer[e] \in XferType
      BY DEF TypeInv
    <3>2. \A x \in XferType : [x EXCEPT !.served = TRUE] \in XferType
      BY DEF XferType
    <3>3. PICK x \in XferType : xfer' = [xfer EXCEPT ![e] = x]
      BY <2>1, <3>1, <3>2
    <3> QED BY <3>1, <3>3
  <2>3. \A f \in Endpoints : xfer'[f].phase = xfer[f].phase /\ xfer'[f].item = xfer[f].item
    BY <2>1 DEF TypeInv, XferType
  <2>4. halted' \in BOOLEAN
    BY DEF DeviceStep, Serve, TypeInv
  <2> QED BY <2>1, <2>2, <2>3, <2>4 DEF TypeInv, PipeTypes
<1>4. msc' = msc /\ call' = call /\ aborted' = aborted /\ accepted' = accepted
  BY DEF DeviceStep, Serve
<1> QED BY <1>2, <1>3, <1>4 DEF TypeInv, PipeTypes

\* Nothing changes, but the default pipe may halt.
Still ==
    /\ halted' \in {halted, TRUE}
    /\ UNCHANGED <<xfer, control, call, broken, msc, device, aborted, accepted>>

\* So it is when a control request fails in silence, and when nothing happens.
LEMMA StillSteps == ControlFailsInSilence \/ UNCHANGED storageVars => Still
BY DEF ControlFailsInSilence, FailsInSilence, storageVars, pipeVars, Still

\* Every step keeps the types.
LEMMA TypeStep == TypeInv /\ [StorageNext]_storageVars => TypeInv'
<1> SUFFICES ASSUME TypeInv, [StorageNext]_storageVars PROVE TypeInv'
  OBVIOUS
<1>1. CASE Host
  BY <1>1, HostTypes DEF Host, TypeInv, PipeTypes
<1>2. CASE Driver
  BY <1>2, CompletedTypes, ControlCompletedTypes, RecoveredTypes, FinishTypes DEF Driver
<1>3. CASE Still
  BY <1>3 DEF TypeInv, Still
<1> QED BY <1>1, <1>2, <1>3, ClientTypes, DeviceTypes, StillSteps DEF StorageNext

-----------------------------------------------------------------------------
(* Results, and what is lost for good                                      *)

\* No step takes back an abort or a failed recovery, and a callback that has
\* returned stays until the transport goes on.
LEMMA Steady ==
    ASSUME TypeInv, [StorageNext]_storageVars
    PROVE  /\ aborted' \in Nat /\ aborted' >= aborted
           /\ \A e \in Endpoints : broken[e] => broken'[e]
           /\ call # NoCall /\ call.done => call' = call \/ Return
<1>1. ASSUME NEW refused \in BOOLEAN, OnBulkCompleted(refused)
      PROVE  aborted' = aborted /\ broken' = broken /\ ~call.done
  <2>1. aborted' = aborted /\ ~call.done
    BY <1>1 DEF OnBulkCompleted, Calls
  <2>2. ASSUME NEW m, Becomes(m) PROVE broken' = broken
    BY <2>2 DEF Becomes
  <2>3. ASSUME NEW m, SubmitData(m) \/ SubmitCsw(m) PROVE broken' = broken
    BY <2>3 DEF SubmitData, SubmitCsw, BulkTransfer
  <2>4. ASSUME NEW m, \/ BeginHaltRecovery(m, call.ep, refused) \/ BeginResetRecovery(m, refused)
        PROVE  broken' = broken
    BY <2>4 DEF BeginHaltRecovery, BeginResetRecovery, BeginRecovery, Becomes, SendControl
  <2>5. broken' = broken
    BY <1>1, <2>2, <2>3, <2>4, CompletedCases
  <2> QED BY <2>1, <2>5
<1>2. ASSUME NEW refused \in BOOLEAN, OnControlCompleted(refused)
      PROVE  aborted' = aborted /\ broken' = broken /\ ~call.done
  <2>1. aborted' = aborted /\ ~call.done
    BY <1>2 DEF OnControlCompleted, Calls
  <2>2. ASSUME NEW m, Becomes(m) PROVE broken' = broken
    BY <2>2 DEF Becomes
  <2>3. ASSUME NEW m, NEW e, SendControl(m, "ClearHalt", e, refused) PROVE broken' = broken
    BY <2>3 DEF SendControl
  <2>4. CASE OnRecoveryControl(refused)
    BY <2>1, <2>2, <2>3, <2>4, RecoveryCases
  <2>5. CASE OnPlainControl
    BY <2>1, <2>5 DEF OnPlainControl, StartCommand, BulkTransfer, Becomes
  <2> QED BY <1>2, <2>4, <2>5 DEF OnControlCompleted
<1>3. ASSUME OnBulkRecoveryCompleted
      PROVE  aborted' = aborted /\ broken' = broken /\ ~call.done
  BY <1>3 DEF OnBulkRecoveryCompleted, Calls, Becomes
<1>4. ASSUME Finish PROVE aborted' = aborted /\ broken' = broken /\ call' = call
  BY <1>4 DEF Finish, StartCommand, BulkTransfer, Becomes
<1>5. ASSUME Client PROVE aborted' \in {aborted, aborted + 1} /\ broken' = broken /\ call' = call
  BY <1>5 DEF Client, OnEndpointsConfigured, Request, AbortCommand, SendControl, StartCommand,
              BulkTransfer, Becomes
<1>6. ASSUME NEW e \in Endpoints, DeviceStep(e)
      PROVE  aborted' = aborted /\ broken' = broken /\ call' = call
  BY <1>6 DEF DeviceStep, Serve
<1>7. ASSUME Host
      PROVE  /\ aborted' = aborted /\ \A e \in Endpoints : broken[e] => broken'[e]
             /\ call # NoCall /\ call.done => Return
  <2>1. aborted' = aborted /\ (call # NoCall => Return)
    BY <1>7 DEF Host, HostStep, Complete, Fail, ResetEnds, ResumeEnds, ControlEnds
  <2>2. broken' = broken \/ \E e \in Endpoints : Break(e)
    <3>1. Return => call.ep \in Endpoints
      BY DEF Return, TypeInv, CallType
    <3> QED BY <1>7, <3>1 DEF Host, HostStep, Complete, Fail, ResetEnds, ResumeEnds, ControlEnds, Return
  <2>3. \A e \in Endpoints : broken[e] => broken'[e]
    BY <2>2 DEF Break, TypeInv
  <2> QED BY <2>1, <2>3
<1>8. aborted \in Nat
  BY DEF TypeInv
<1>9. CASE Driver
  BY <1>1, <1>2, <1>3, <1>4, <1>8, <1>9 DEF Driver
<1>10. CASE Still
  BY <1>8, <1>10 DEF Still
<1> QED BY <1>5, <1>6, <1>7, <1>8, <1>9, <1>10, StillSteps DEF StorageNext

\* What is lost stays lost.
LEMMA LostStays == ASSUME TypeInv, Lost, [StorageNext]_storageVars PROVE Lost'
<1>1. CASE aborted > 0
  BY <1>1, Steady DEF Lost, TypeInv
<1>2. CASE Broken
  BY <1>2, Steady DEF Lost, Broken
<1>3. CASE Doomed
  <2>1. call # NoCall /\ call.done /\ call \in CallType /\ call.ep \in Endpoints
    BY <1>3 DEF Doomed, TypeInv, NoCall, CallType
  <2>2. CASE call' = call
    BY <1>3, <2>2 DEF Doomed, Lost
  <2>3. CASE Return
    <3>1. Break(call.ep)
      BY <1>3, <2>3 DEF Doomed, Return
    <3> QED BY <2>1, <3>1 DEF Break, Lost, Broken, TypeInv
  <2> QED BY <2>1, <2>2, <2>3, Steady
<1> QED BY <1>1, <1>2, <1>3 DEF Lost

\* What the steps of the driver do to a command's result.
LEMMA FinOf ==
    ASSUME NEW m \in DriverType
    PROVE  /\ \A s : [m EXCEPT !.recovery = s].fin = m.fin
           /\ \A s, e : [m EXCEPT !.recovery = s, !.recovery_ep = e].fin = m.fin
           /\ \A s : [m EXCEPT !.stage = s].fin = m.fin
           /\ \A n : [m EXCEPT !.left = n].fin = m.fin 
           /\ Finished(m).fin = "Failed"
           /\ \A f : [m EXCEPT !.fin = f].fin = f /\ [m EXCEPT !.fin = f].stage = m.stage
  BY DEF DriverType, Finished

\* A transfer ends a command with a failure, if at all.
LEMMA TransferResult ==
    ASSUME NEW m \in DriverType, NEW e, NEW item, BulkTransfer(m, e, item)
    PROVE  msc'.fin \in {m.fin, "Failed"}
  BY DEF BulkTransfer, DriverType

\* A new command has no result yet, and its tag has not been seen.
LEMMA StartResult ==
    ASSUME TypeInv, NEW m \in DriverType, m.fin = "none", NEW dir_in \in BOOLEAN,
           NEW chunks \in Nat, StartCommand(m, dir_in, chunks), call' = NoCall \/ call'.done
    PROVE  ResultInv'
<1>1. [m EXCEPT !.stage = "Cbw", !.dir_in = dir_in, !.left = chunks] \in DriverType
      /\ [m EXCEPT !.stage = "Cbw", !.dir_in = dir_in, !.left = chunks].fin = "none"
  BY DEF DriverType
<1>2. msc'.fin \in {"none", "Failed"}
  BY <1>1 DEF StartCommand, BulkTransfer, DriverType
<1>3. ~device'.tag /\ ~device'.csw_tag
  BY DEF StartCommand, TypeInv
<1> QED BY <1>2, <1>3 DEF ResultInv

\* Every step keeps the invariant of the results.
LEMMA ResultStep ==
    ASSUME TypeInv, ResultInv, [StorageNext]_storageVars PROVE ResultInv'
<1>1. ASSUME NEW refused \in BOOLEAN, OnBulkCompleted(refused) PROVE ResultInv'
  <2>1. /\ call # NoCall /\ ~call.done /\ msc.fin = "none" /\ msc \in DriverType
        /\ device' = device /\ call'.done /\ call'.fn = call.fn
    BY <1>1 DEF OnBulkCompleted, Calls, Returns, ResultInv, TypeInv, CallType
  <2>2. ASSUME msc'.fin # "Ok" PROVE ResultInv'
    BY <2>1, <2>2 DEF ResultInv
  <2>3. ASSUME Becomes(msc) PROVE ResultInv'
    BY <2>1, <2>2, <2>3 DEF Becomes
  <2>4. ASSUME BeginHaltRecovery(msc, call.ep, refused) \/ BeginResetRecovery(msc, refused)
        PROVE  ResultInv'
    <3>1. PICK s \in {"ClearHalt", "MassStorageReset"}, req \in Requests, e \in Endpoints :
             BeginRecovery(msc, s, req, e, refused)
      <4>1. call.ep \in Endpoints /\ msc.recovery_ep \in Endpoints /\ {"ClearHalt", "Reset"} \subseteq Requests
        BY <2>1, StorageAssumption DEF TypeInv, CallType, DriverType
      <4> QED BY <2>4, <4>1 DEF BeginHaltRecovery, BeginResetRecovery
    <3> DEFINE n == [msc EXCEPT !.recovery = s, !.recovery_ep = e]
    <3>2. msc' \in {msc, n, Finished(n)}
      BY <3>1 DEF BeginRecovery, Becomes, SendControl
    <3>3. n.fin = "none" /\ Finished(n).fin = "Failed"
      BY <2>1 DEF DriverType, Finished
    <3> HIDE DEF n
    <3> QED BY <2>1, <2>2, <3>2, <3>3
  <2>5. ASSUME NEW n \in Nat, NEW m \in {msc, [msc EXCEPT !.left = n]}, SubmitData(m) \/ SubmitCsw(m)
        PROVE  ResultInv'
    <3>1. /\ m.fin = "none" /\ \A s \in {"Data", "Csw"} : [m EXCEPT !.stage = s] \in DriverType
                                                       /\ [m EXCEPT !.stage = s].fin = "none"
      BY <2>1 DEF DriverType
    <3>2. msc'.fin \in {"none", "Failed"}
      BY <2>5, <3>1, TransferResult DEF SubmitData, SubmitCsw
    <3> QED BY <2>2, <3>2
  <2>6. ASSUME msc.stage = "Csw", call.fn = "Completed", NEW f \in {"Ok", "CswStatus", "Failed"},
               f = "Ok" => device.csw_tag, Becomes([msc EXCEPT !.fin = f])
        PROVE  ResultInv'
    <3>1. msc'.fin = f /\ msc'.stage = "Csw"
      BY <2>1, <2>6, FinOf DEF Becomes
    <3> QED BY <2>1, <2>6, <3>1 DEF ResultInv
  <2>7. 0 \in Nat /\ (msc.left > 1 => msc.left - 1 \in Nat)
    BY <2>1 DEF DriverType
  <2> QED BY <1>1, <2>3, <2>4, <2>5, <2>6, <2>7, CompletedCases
<1>2. ASSUME NEW refused \in BOOLEAN, OnControlCompleted(refused) PROVE ResultInv'
  <2>1. /\ call # NoCall /\ ~call.done /\ msc.fin = "none" /\ msc \in DriverType /\ call'.done
    BY <1>2 DEF OnControlCompleted, OnRecoveryControl, OnPlainControl, Calls, Returns, ResultInv,
                TypeInv, CallType
  <2>2. ASSUME msc'.fin # "Ok", device' = device PROVE ResultInv'
    BY <2>1, <2>2 DEF ResultInv
  <2>3. \A s : NextStage(s).fin = "none" /\ Finished(NextStage(s)).fin = "Failed"
               /\ Finished(msc).fin = "Failed"
    BY <2>1 DEF DriverType, Finished, NextStage
  <2>4. CASE OnRecoveryControl(refused)
    <3>1. device' = device
      BY <2>4 DEF OnRecoveryControl
    <3>2. ASSUME NEW m, m.fin # "Ok", Becomes(m) PROVE ResultInv'
      BY <2>2, <3>1, <3>2 DEF Becomes
    <3>3. ASSUME NEW s, NEW e, SendControl(IF refused THEN Finished(NextStage(s)) ELSE NextStage(s),
                                           "ClearHalt", e, refused)
          PROVE  ResultInv'
      BY <2>2, <2>3, <3>1, <3>3 DEF SendControl
    <3> QED BY <2>1, <2>3, <2>4, <3>2, <3>3, RecoveryCases
  <2>5. CASE OnPlainControl
    <3>1. CASE msc.phase = "GetMaxLun"
      <4>1. [msc EXCEPT !.phase = "Inquiry"] \in DriverType /\ [msc EXCEPT !.phase = "Inquiry"].fin = "none"
        BY <2>1 DEF DriverType
      <4> QED BY <2>1, <2>5, <3>1, <4>1, StartResult DEF OnPlainControl
    <3>2. CASE msc.phase # "GetMaxLun"
      BY <2>1, <2>2, <2>5, <3>2 DEF OnPlainControl, Becomes
    <3> QED BY <3>1, <3>2
  <2> QED BY <1>2, <2>4, <2>5 DEF OnControlCompleted
<1>3. ASSUME OnBulkRecoveryCompleted PROVE ResultInv'
  <2>1. /\ call # NoCall /\ ~call.done /\ msc.fin = "none" /\ msc \in DriverType /\ call'.done
        /\ device' = device
    BY <1>3 DEF OnBulkRecoveryCompleted, Calls, Returns, ResultInv, TypeInv, CallType
  <2>2. msc'.fin # "Ok"
    <3>1. msc' \in {[msc EXCEPT !.fin = "Failed"], Finished(msc), msc}
      BY <1>3 DEF OnBulkRecoveryCompleted, Becomes
    <3> QED BY <2>1, <3>1, FinOf
  <2> QED BY <2>1, <2>2 DEF ResultInv
<1>4. ASSUME Finish PROVE ResultInv'
  <2> DEFINE m == [msc EXCEPT !.stage = "Idle", !.fin = "none"]
  <2>1. call' = call /\ (call = NoCall \/ call.done)
    BY <1>4 DEF Finish, ResultInv
  <2>2. m \in DriverType /\ m.fin = "none"
    BY DEF TypeInv, DriverType
  <2>3. ASSUME NEW n \in DriverType, n.fin = "none", StartCommand(n, TRUE, 0) PROVE ResultInv'
    BY <2>1, <2>3, StartResult
  <2>4. ASSUME NEW n \in DriverType, n.fin = "none", Becomes(n), device' = device PROVE ResultInv'
    BY <2>1, <2>4 DEF ResultInv, Becomes
  <2>5. ASSUME NEW n \in DriverType, n.fin = "none"
        PROVE  /\ \A p \in {"ReadCapacity", "RequestSense"} :
                     [n EXCEPT !.phase = p] \in DriverType /\ [n EXCEPT !.phase = p].fin = "none"
               /\ \A b \in BOOLEAN : /\ [n EXCEPT !.phase = "Done", !.ready = b] \in DriverType
                                     /\ [n EXCEPT !.phase = "Done", !.ready = b].fin = "none"
    BY <2>5 DEF DriverType
  <2>6. ASSUME NEW n \in DriverType, n.fin = "none"
        PROVE  Retry(n) \in DriverType /\ Retry(n).fin = "none"
    <3>1. n.retries + 1 \in Nat
      BY DEF DriverType
    <3>2. \A k \in Nat : /\ [n EXCEPT !.phase = "ReadCapacity", !.retries = k] \in DriverType
                         /\ [n EXCEPT !.phase = "ReadCapacity", !.retries = k].fin = "none"
      BY <2>6 DEF DriverType
    <3> QED BY <3>1, <3>2 DEF Retry
  <2>7. (m.ready \/ (m.phase = "ReadCapacity" /\ msc.fin = "Ok")) \in BOOLEAN
    OBVIOUS
  <2>8. \/ StartCommand([m EXCEPT !.phase = "ReadCapacity"], TRUE, 0)
        \/ StartCommand([m EXCEPT !.phase = "RequestSense"], TRUE, 0)
        \/ StartCommand(Retry(m), TRUE, 0)
        \/ /\ \/ Becomes([m EXCEPT !.phase = "Done",
                            !.ready = @ \/ (m.phase = "ReadCapacity" /\ msc.fin = "Ok")])
              \/ Becomes(m)
           /\ device' = device
    BY <1>4 DEF Finish
  <2> HIDE DEF m
  <2>9. CASE StartCommand(Retry(m), TRUE, 0)
    BY <2>2, <2>3, <2>6, <2>9
  <2>10. CASE \E p \in {"ReadCapacity", "RequestSense"} : StartCommand([m EXCEPT !.phase = p], TRUE, 0)
    BY <2>2, <2>3, <2>5, <2>10
  <2> QED BY <2>2, <2>4, <2>5, <2>7, <2>8, <2>9, <2>10
<1>5. ASSUME Client PROVE ResultInv'
  <2>1. msc.fin = "none" \/ \E refused \in BOOLEAN : OnEndpointsConfigured(refused)
    BY <1>5 DEF Client, Request, AbortCommand
  <2>2. call' = call /\ call = NoCall
    BY <1>5 DEF Client, OnEndpointsConfigured, Request, AbortCommand
  <2>3. CASE \E refused \in BOOLEAN : OnEndpointsConfigured(refused)
    <3>1. msc'.fin = msc.fin /\ msc'.stage = msc.stage /\ device' = device
      BY <2>3 DEF OnEndpointsConfigured, SendControl, TypeInv, DriverType
    <3> QED BY <2>2, <3>1 DEF ResultInv
  <2>4. CASE AbortCommand
    <3>1. msc'.fin = msc.fin /\ device' = device /\ msc.fin = "none"
      BY <2>4 DEF AbortCommand, Becomes, TypeInv, DriverType
    <3> QED BY <3>1 DEF ResultInv
  <2>5. ASSUME NEW dir_in \in BOOLEAN, NEW chunks \in Nat, Request(dir_in, chunks) PROVE ResultInv'
    BY <2>2, <2>5, StartResult DEF Request, TypeInv
  <2>6. 0 \in Nat /\ \A n \in 1 .. MaxChunks : n \in Nat
    BY StorageAssumption
  <2> QED BY <1>5, <2>3, <2>4, <2>5, <2>6 DEF Client
<1>6. ASSUME NEW e \in Endpoints, DeviceStep(e) PROVE ResultInv'
  <2>1. xfer[e].item \in {"cbw", "data", "csw"}
    BY <1>6, StorageAssumption DEF TypeInv, DeviceStep, Serve
  <2>2. msc' = msc /\ call' = call
    BY <1>6 DEF DeviceStep, Serve
  <2>3. CASE xfer[e].item = "cbw"
    BY <1>6, <2>2, <2>3 DEF DeviceStep, ResultInv, TypeInv
  <2>4. CASE xfer[e].item = "csw"
    BY <1>6, <2>2, <2>4 DEF DeviceStep, ResultInv, TypeInv
  <2>5. CASE xfer[e].item = "data"
    <3>1. device'.tag = device.tag /\ device'.csw_tag = device.csw_tag
      BY <1>6, <2>5 DEF DeviceStep, TypeInv
    <3> QED BY <2>2, <3>1 DEF ResultInv
  <2> QED BY <2>1, <2>3, <2>4, <2>5
<1>7. ASSUME Host PROVE ResultInv'
  BY <1>7 DEF Host, ResultInv
<1>8. ASSUME Still PROVE ResultInv'
  BY <1>8 DEF ResultInv, Still
<1> QED BY <1>1, <1>2, <1>3, <1>4, <1>5, <1>6, <1>7, <1>8, StillSteps DEF StorageNext, Driver

-----------------------------------------------------------------------------
(* Where the command is: steps of the transport                            *)

\* The stage has an endpoint and a kind of buffer.
LEMMA StageNames == StageEndpoint \in Endpoints /\ StageItem \in {"cbw", "data", "csw"}
  BY Names DEF StageEndpoint, StageItem

\* A transfer under way is the one of the stage.
LEMMA OfTheStage ==
    ASSUME TypeInv, PlaceInv, NEW e \in Endpoints, xfer[e].phase # "free"
    PROVE  /\ e = StageEndpoint /\ msc.stage # "Idle" /\ msc.fin = "none"
           /\ xfer[e].item = StageItem /\ xfer[e].size = 1
           /\ \A f \in Endpoints \ {e} : xfer[f] = NoXfer
           /\ xfer[e].phase \in {"active", "reset"} =>
                 msc.recovery = "None" /\ Between /\ control = <<>>
           /\ xfer[e].phase = "clear" /\ call = NoCall => msc.recovery = "ClearHalt"
           /\ xfer[e].phase = "resume" =>
                 msc.recovery = "AwaitTransport" /\ call = NoCall /\ control = <<>>
<1>1. ~AllFree
  BY FreeTyped DEF AllFree
<1>2. msc.stage # "Idle"
  BY <1>1 DEF PlaceInv, IdleInv
<1>3. ASSUME NEW ph, Alone(ph)
      PROVE  /\ e = StageEndpoint /\ xfer[e].item = StageItem /\ xfer[e].size = 1
             /\ \A f \in Endpoints \ {e} : xfer[f] = NoXfer
             /\ xfer[e].phase \in ph
  BY <1>3, FreeTyped DEF Alone
<1>4. CASE msc.recovery = "None"
  <2>1. msc.fin = "none"
    BY <1>1, <1>2, <1>4 DEF PlaceInv, BusyInv
  <2>2. /\ control = <<>>
        /\ \/ Between /\ Alone({"active", "reset"})
           \/ Within("ResetDone") /\ Alone({"clear"})
    BY <1>1, <1>2, <1>4, <2>1 DEF PlaceInv, BusyInv
  <2>3. CASE Between /\ Alone({"active", "reset"})
    BY <1>2, <1>3, <1>4, <2>1, <2>2, <2>3
  <2>4. CASE Within("ResetDone") /\ Alone({"clear"})
    BY <1>2, <1>3, <1>4, <2>1, <2>2, <2>4 DEF Within
  <2> QED BY <2>2, <2>3, <2>4
<1>5. CASE msc.recovery = "ClearHalt"
  <2>1. Alone({"clear"}) /\ msc.fin = "none"
    BY <1>5 DEF PlaceInv, HaltInv
  <2> QED BY <1>2, <1>3, <1>5, <2>1
<1>6. CASE msc.recovery = "AwaitTransport"
  <2>1. /\ msc.fin = "none" /\ control = <<>>
        /\ \/ call # NoCall /\ Alone({"clear"})
           \/ call = NoCall /\ Alone({"resume"})
    BY <1>1, <1>6 DEF PlaceInv, HaltInv
  <2>2. CASE call # NoCall /\ Alone({"clear"})
    BY <1>2, <1>3, <1>6, <2>1, <2>2
  <2>3. CASE call = NoCall /\ Alone({"resume"})
    BY <1>2, <1>3, <1>6, <2>1, <2>3
  <2> QED BY <2>1, <2>2, <2>3
<1>7. CASE msc.recovery \in {"MassStorageReset", "ClearBulkIn", "ClearBulkOut"}
  BY <1>1, <1>7 DEF PlaceInv, ResetInv, Awaited
<1> QED BY <1>4, <1>5, <1>6, <1>7 DEF TypeInv, DriverType

\* While the driver object is unchanged, so is the stage.
LEMMA SameStage ==
    ASSUME msc' = msc PROVE StageEndpoint' = StageEndpoint /\ StageItem' = StageItem
  BY DEF StageEndpoint, StageItem

\* The end of a transfer.
LEMMA CompletePlace ==
    ASSUME TypeInv, PlaceInv, NEW e \in Endpoints, NEW len, Complete(e, len), msc' = msc
    PROVE  PlaceInv'
<1>1. xfer[e].phase = "active" /\ call = NoCall /\ control' = control
  BY DEF Complete
<1>2. /\ e = StageEndpoint /\ msc.stage # "Idle" /\ msc.fin = "none" /\ msc.recovery = "None"
      /\ control = <<>> /\ xfer[e].item = StageItem
      /\ \A f \in Endpoints \ {e} : xfer[f] = NoXfer
  BY <1>1, OfTheStage
<1>3. AllFree'
  BY <1>2 DEF Complete, Free, AllFree, TypeInv
<1>4. Within("Completed")' /\ call'.item = StageItem
  BY <1>2 DEF Complete, Call, CallOf, Within, NoCall
<1>5. StageItem' = StageItem
  BY SameStage
<1> QED BY <1>1, <1>2, <1>3, <1>4, <1>5
        DEF PlaceInv, IdleInv, BusyInv, HaltInv, ResetInv, Awaited

\* The failure of a transfer.
LEMMA FailPlace ==
    ASSUME TypeInv, PlaceInv, NEW e \in Endpoints, Fail(e), msc' = msc
    PROVE  PlaceInv'
<1>1. xfer[e].phase = "active" /\ call = NoCall /\ control' = control /\ call' = call
  BY DEF Fail
<1>2. /\ e = StageEndpoint /\ msc.stage # "Idle" /\ msc.fin = "none" /\ msc.recovery = "None"
      /\ control = <<>> /\ xfer[e].item = StageItem /\ xfer[e].size = 1
      /\ \A f \in Endpoints \ {e} : xfer[f] = NoXfer
  BY <1>1, OfTheStage
<1>3. StageItem' = StageItem /\ StageEndpoint' = StageEndpoint
  BY SameStage
<1>4. Alone({"active", "reset"})'
  BY <1>2, <1>3 DEF Fail, Enter, Alone, TypeInv, XferType
<1>5. Between'
  BY <1>1 DEF Between
<1> QED BY <1>1, <1>2, <1>4, <1>5
        DEF PlaceInv, IdleInv, BusyInv, HaltInv, ResetInv, Awaited

\* The end of the endpoint's reset.
LEMMA ResetPlace ==
    ASSUME TypeInv, PlaceInv, NEW e \in Endpoints, ResetEnds(e), ~Lost', msc' = msc
    PROVE  PlaceInv'
<1>1. xfer[e].phase = "reset" /\ call = NoCall /\ control' = control
  BY DEF ResetEnds
<1>2. /\ e = StageEndpoint /\ msc.stage # "Idle" /\ msc.fin = "none" /\ msc.recovery = "None"
      /\ control = <<>> /\ xfer[e].item = StageItem /\ xfer[e].size = 1
      /\ \A f \in Endpoints \ {e} : xfer[f] = NoXfer
  BY <1>1, OfTheStage
<1>3. StageItem' = StageItem /\ StageEndpoint' = StageEndpoint
  BY SameStage
<1>4. Enter(e, "clear") /\ Call("ResetDone", e, TRUE, NoItem, 0)
  BY DEF ResetEnds, Break, Lost, Broken, TypeInv
<1>5. Alone({"clear"})'
  BY <1>2, <1>3, <1>4 DEF Enter, Alone, TypeInv, XferType
<1>6. Within("ResetDone")' /\ call'.ep = e
  BY <1>4 DEF Call, CallOf, Within, NoCall
<1> QED BY <1>1, <1>2, <1>3, <1>5, <1>6
        DEF PlaceInv, IdleInv, BusyInv, HaltInv, ResetInv, Awaited

\* The end of a recovery.
LEMMA ResumePlace ==
    ASSUME TypeInv, PlaceInv, NEW e \in Endpoints, ResumeEnds(e), msc' = msc
    PROVE  PlaceInv'
<1>1. xfer[e].phase = "resume" /\ call = NoCall /\ control' = control
  BY DEF ResumeEnds
<1>2. /\ e = StageEndpoint /\ msc.stage # "Idle" /\ msc.fin = "none"
      /\ msc.recovery = "AwaitTransport" /\ control = <<>>
      /\ \A f \in Endpoints \ {e} : xfer[f] = NoXfer
  BY <1>1, OfTheStage
<1>3. AllFree'
  BY <1>2 DEF ResumeEnds, Free, AllFree, TypeInv
<1>4. Within("Recovered")' /\ call'.ep = e
  BY DEF ResumeEnds, Call, CallOf, Within, NoCall
<1>5. StageEndpoint' = StageEndpoint
  BY SameStage
<1> QED BY <1>1, <1>2, <1>3, <1>4, <1>5
        DEF PlaceInv, IdleInv, BusyInv, HaltInv, ResetInv, Awaited

\* With a callback over, or none, the driver waits in one of these places.
LEMMA Waiting ==
    ASSUME TypeInv, PlaceInv, Between
    PROVE  \/ msc.stage = "Idle" /\ AllFree /\ control = <<>>
           \/ /\ msc.stage = "Idle" /\ AllFree /\ msc.phase = "GetMaxLun"
              /\ Requested("GetMaxLun", "in")
           \/ /\ msc.stage # "Idle" /\ msc.recovery = "None" /\ msc.fin = "none" /\ control = <<>>
              /\ Alone({"active", "reset"})
           \/ msc.stage # "Idle" /\ msc.recovery = "None" /\ msc.fin # "none" /\ AllFree /\ control = <<>>
           \/ /\ msc.recovery = "ClearHalt" /\ msc.recovery_ep = StageEndpoint /\ Alone({"clear"})
              /\ Requested("ClearHalt", StageEndpoint)
           \/ call = NoCall /\ msc.recovery = "AwaitTransport" /\ control = <<>> /\ Alone({"resume"})
           \/ msc.recovery = "MassStorageReset" /\ AllFree /\ Requested("Reset", "in")
           \/ msc.recovery = "ClearBulkIn" /\ AllFree /\ Requested("ClearHalt", "in")
           \/ msc.recovery = "ClearBulkOut" /\ AllFree /\ Requested("ClearHalt", "out")
<1>1. \A fn : ~Within(fn)
  BY DEF Between, Within
<1>2. CASE msc.stage = "Idle"
  BY <1>1, <1>2 DEF PlaceInv, IdleInv
<1>3. CASE msc.stage # "Idle" /\ msc.recovery = "None"
  BY <1>1, <1>3 DEF PlaceInv, BusyInv
<1>4. CASE msc.recovery = "ClearHalt"
  BY <1>1, <1>4 DEF PlaceInv, HaltInv, Answering
<1>5. CASE msc.recovery = "AwaitTransport"
  <2>1. ~(call # NoCall /\ call.done /\ call.fn = "ClearHaltDone")
    BY DEF Between
  <2> QED BY <1>1, <1>5, <2>1 DEF PlaceInv, HaltInv
<1>6. CASE msc.recovery \in {"MassStorageReset", "ClearBulkIn", "ClearBulkOut"}
  BY <1>1, <1>6 DEF PlaceInv, ResetInv, Awaited, Answering
<1> QED BY <1>2, <1>3, <1>4, <1>5, <1>6 DEF TypeInv, DriverType

\* The answer to a control request.
LEMMA ControlPlace ==
    ASSUME TypeInv, PlaceInv, ControlEnds, msc' = msc
    PROVE  PlaceInv'
<1> DEFINE c == control[1]
           recovers == c.req = "ClearHalt" /\ xfer[c.ep].phase = "clear"
<1>1. /\ call = NoCall /\ Between /\ xfer' = xfer /\ control # <<>>
      /\ Head(control) = c /\ control' = Tail(control) /\ c \in ControlType
  BY DEF ControlEnds, Between, TypeInv
<1>2. /\ call' # NoCall /\ ~call'.done /\ call'.item = c.req /\ call'.ep = c.ep
      /\ call'.fn = IF recovers THEN "ClearHaltDone" ELSE "ControlDone"
  BY <1>1 DEF ControlEnds, Call, CallOf, NoCall
<1>3. StageItem' = StageItem /\ StageEndpoint' = StageEndpoint
  BY SameStage
<1>4. /\ AllFree' = AllFree /\ \A ph : Alone(ph) => Alone(ph)'
  BY <1>1, <1>3 DEF AllFree, Alone
<1>5. Len(control) = 1 => control' = <<>>
  BY <1>1 DEF TypeInv
<1>6. msc.phase # "Idle"
  BY <1>1 DEF PlaceInv
<1> HIDE DEF c
<1>7. ASSUME AllFree PROVE ~recovers
  BY <1>1, <1>7, FreeTyped DEF AllFree, ControlType
<1> HIDE DEF recovers
<1>8. CASE /\ msc.stage = "Idle" /\ AllFree /\ msc.phase = "GetMaxLun"
           /\ Requested("GetMaxLun", "in")
  <2>1. Within("ControlDone")' /\ control' = <<>>
    BY <1>2, <1>5, <1>7, <1>8 DEF Within, Requested
  <2> QED BY <1>4, <1>8, <2>1 DEF PlaceInv, IdleInv, BusyInv, HaltInv, ResetInv, Awaited
<1>9. CASE /\ msc.recovery = "ClearHalt" /\ msc.recovery_ep = StageEndpoint /\ Alone({"clear"})
           /\ Requested("ClearHalt", StageEndpoint)
  <2>1. c.req = "ClearHalt" /\ c.ep = StageEndpoint /\ control' = <<>>
    BY <1>5, <1>9 DEF Requested, c
  <2>2. recovers
    BY <1>9, <2>1 DEF recovers, Alone
  <2>3. Answering("ClearHaltDone", "ClearHalt", StageEndpoint)'
    BY <1>2, <1>3, <2>1, <2>2 DEF Answering, Within
  <2> QED BY <1>3, <1>4, <1>6, <1>9, <2>1, <2>3
          DEF PlaceInv, IdleInv, BusyInv, HaltInv, ResetInv, Awaited
<1>10. ASSUME NEW req, NEW e, AllFree, Requested(req, e)
       PROVE  Answering("ControlDone", req, e)' /\ control' = <<>>
  BY <1>2, <1>5, <1>7, <1>10 DEF Answering, Within, Requested, c
<1>11. CASE /\ msc.recovery \in {"MassStorageReset", "ClearBulkIn", "ClearBulkOut"}
            /\ AllFree
            /\ msc.recovery = "MassStorageReset" => Requested("Reset", "in")
            /\ msc.recovery = "ClearBulkIn" => Requested("ClearHalt", "in")
            /\ msc.recovery = "ClearBulkOut" => Requested("ClearHalt", "out")
  <2>1. Awaited("MassStorageReset", "Reset", "in")'
    BY <1>4, <1>10, <1>11 DEF Awaited
  <2>2. Awaited("ClearBulkIn", "ClearHalt", "in")'
    BY <1>4, <1>10, <1>11 DEF Awaited
  <2>3. Awaited("ClearBulkOut", "ClearHalt", "out")'
    BY <1>4, <1>10, <1>11 DEF Awaited
  <2> QED BY <1>6, <1>11, <2>1, <2>2, <2>3 DEF PlaceInv, IdleInv, BusyInv, HaltInv, ResetInv
<1> QED BY <1>1, <1>8, <1>9, <1>11, Waiting

\* The transport goes on after a callback.
LEMMA ReturnPlace ==
    ASSUME TypeInv, PlaceInv, Return, ~Lost', msc' = msc
    PROVE  PlaceInv'
<1>1. call # NoCall /\ call.done /\ call \in CallType /\ call.ep \in Endpoints /\ control' = control
  BY DEF Return, TypeInv, CallType
<1>2. ~Break(call.ep)
  BY <1>1 DEF Break, Lost, Broken, TypeInv
<1>3. StageItem' = StageItem /\ StageEndpoint' = StageEndpoint
  BY SameStage
<1>4. call' = NoCall /\ Between'
  BY <1>2 DEF Return, Between
<1>5. CASE call.fn # "ClearHaltDone"
  <2>1. xfer' = xfer
    BY <1>2, <1>5 DEF Return
  <2>2. Between
    BY <1>1, <1>5 DEF Between
  <2>3. /\ AllFree' = AllFree /\ \A ph : Alone(ph) => Alone(ph)'
    BY <1>3, <2>1 DEF AllFree, Alone
  <2>4. \A req, e : Requested(req, e) => Requested(req, e)'
    BY <1>1 DEF Requested
  <2>5. \A req : Requested(req, StageEndpoint) => Requested(req, StageEndpoint)'
    BY <1>1, <1>3 DEF Requested
  <2>6. msc.recovery # "AwaitTransport"
    BY <1>1, <2>2, Waiting DEF PlaceInv
  <2>7. \A fn : ~Within(fn)
    BY <1>1 DEF Within
  <2>8. IdleInv'
    BY <1>1, <1>4, <2>3, <2>4, <2>7 DEF PlaceInv, IdleInv
  <2>9. BusyInv'
    BY <1>1, <1>4, <2>3, <2>7 DEF PlaceInv, BusyInv
  <2>10. HaltInv'
    BY <1>3, <1>4, <2>3, <2>5, <2>6, <2>7 DEF PlaceInv, HaltInv, Answering
  <2>11. ResetInv'
    BY <1>4, <2>3, <2>4, <2>7 DEF PlaceInv, ResetInv, Awaited, Answering
  <2> QED BY <1>1, <2>8, <2>9, <2>10, <2>11 DEF PlaceInv
<1>6. CASE call.fn = "ClearHaltDone"
  <2>1. Enter(call.ep, "resume")
    BY <1>2, <1>6 DEF Return
  <2>2. ~Between /\ \A fn : ~Within(fn)
    BY <1>1, <1>6 DEF Between, Within
  <2>3. msc.stage # "Idle"
    BY <2>2 DEF PlaceInv, IdleInv
  <2>4. msc.recovery # "None"
    BY <2>2, <2>3 DEF PlaceInv, BusyInv
  <2>5. msc.recovery = "AwaitTransport"
    BY <2>2, <2>4 DEF PlaceInv, HaltInv, ResetInv, Awaited, Answering, TypeInv, DriverType
  <2>6. /\ call.ep = StageEndpoint /\ Alone({"clear"}) /\ control = <<>>
        /\ msc.recovery_ep = StageEndpoint
    BY <1>1, <2>2, <2>5 DEF PlaceInv, HaltInv
  <2>7. Alone({"resume"})'
    BY <1>3, <2>1, <2>6, StageNames DEF Enter, Alone, TypeInv, XferType
  <2> QED BY <1>1, <1>3, <1>4, <2>3, <2>5, <2>6, <2>7
          DEF PlaceInv, IdleInv, BusyInv, HaltInv, ResetInv, Awaited
<1> QED BY <1>5, <1>6

\* The device takes a transfer.
LEMMA DevicePlace ==
    ASSUME TypeInv, PlaceInv, NEW e \in Endpoints, DeviceStep(e)
    PROVE  PlaceInv'
<1>1. xfer[e].phase = "active" /\ call' = call /\ control' = control /\ msc' = msc
  BY DEF DeviceStep, Serve
<1>2. /\ e = StageEndpoint /\ msc.stage # "Idle" /\ msc.fin = "none" /\ msc.recovery = "None"
      /\ control = <<>> /\ Between /\ xfer[e].item = StageItem /\ xfer[e].size = 1
      /\ \A f \in Endpoints \ {e} : xfer[f] = NoXfer
  BY <1>1, OfTheStage
<1>3. StageItem' = StageItem /\ StageEndpoint' = StageEndpoint
  BY <1>1, SameStage
<1>4. Alone({"active", "reset"})'
  BY <1>1, <1>2, <1>3 DEF DeviceStep, Serve, Alone, TypeInv, XferType
<1>5. Between'
  BY <1>1, <1>2 DEF Between
<1> QED BY <1>1, <1>2, <1>4, <1>5
        DEF PlaceInv, IdleInv, BusyInv, HaltInv, ResetInv, Awaited

-----------------------------------------------------------------------------
(* Where the command is: steps of the driver                               *)

\* What the running callback says of the command.
LEMMA Called ==
    ASSUME TypeInv, PlaceInv, call # NoCall, ~call.done
    PROVE  /\ control = <<>> /\ msc.fin = "none" /\ msc.phase # "Idle"
           /\ call.fn = "Completed" =>
                 msc.stage # "Idle" /\ msc.recovery = "None" /\ AllFree /\ call.item = StageItem
           /\ call.fn = "ResetDone" =>
                 /\ msc.stage # "Idle" /\ msc.recovery = "None"
                 /\ call.ep = StageEndpoint /\ Alone({"clear"})
           /\ call.fn = "Recovered" =>
                 /\ msc.recovery = "AwaitTransport" /\ AllFree
                 /\ call.ep = StageEndpoint /\ msc.recovery_ep = StageEndpoint
           /\ call.fn = "ClearHaltDone" =>
                 /\ msc.recovery = "ClearHalt" /\ Alone({"clear"})
                 /\ call.item = "ClearHalt" /\ call.ep = StageEndpoint
                 /\ msc.recovery_ep = StageEndpoint
           /\ call.fn = "ControlDone" =>
                 /\ AllFree
                 /\ \/ msc.stage = "Idle" /\ msc.phase = "GetMaxLun" /\ msc.recovery = "None"
                    \/ msc.recovery = "MassStorageReset" /\ call.item = "Reset"
                    \/ /\ msc.recovery = "ClearBulkIn"
                       /\ call.item = "ClearHalt" /\ call.ep = "in"
                    \/ /\ msc.recovery = "ClearBulkOut"
                       /\ call.item = "ClearHalt" /\ call.ep = "out"
<1>1. ~Between
  BY DEF Between
<1>2. \A fn : Within(fn) => call.fn = fn
  BY DEF Within
<1>3. msc.phase # "Idle"
  BY DEF PlaceInv
<1>4. CASE msc.stage = "Idle"
  BY <1>1, <1>2, <1>3, <1>4 DEF PlaceInv, IdleInv
<1>5. CASE msc.stage # "Idle" /\ msc.recovery = "None"
  BY <1>1, <1>2, <1>3, <1>5 DEF PlaceInv, BusyInv
<1>6. CASE msc.recovery = "ClearHalt"
  BY <1>1, <1>2, <1>3, <1>6 DEF PlaceInv, HaltInv, Answering
<1>7. CASE msc.recovery = "AwaitTransport"
  BY <1>1, <1>2, <1>3, <1>7 DEF PlaceInv, HaltInv
<1>8. CASE msc.recovery \in {"MassStorageReset", "ClearBulkIn", "ClearBulkOut"}
  BY <1>1, <1>2, <1>3, <1>8 DEF PlaceInv, ResetInv, Awaited, Answering
<1> QED BY <1>4, <1>5, <1>6, <1>7, <1>8 DEF TypeInv, DriverType

\* The bring-up is under way or over.
Begun(n) == n.phase \notin {"Idle", "GetMaxLun"}

\* With both endpoints free the driver submits a transfer.
LEMMA NewTransfer ==
    ASSUME TypeInv, AllFree, control = <<>>, Between',
           NEW n \in DriverType, n.recovery = "None", n.fin = "none", Begun(n), n.stage # "Idle",
           NEW e \in Endpoints, NEW item, BulkTransfer(n, e, item),
           e = IF n.stage = "Csw" \/ (n.stage = "Data" /\ n.dir_in) THEN "in" ELSE "out",
           item = CASE n.stage = "Cbw" -> "cbw" [] n.stage = "Data" -> "data" [] OTHER -> "csw"
    PROVE  /\ PlaceInv' /\ msc' = n
           /\ xfer' = [xfer EXCEPT ![e] = [phase |-> "active", item |-> item, size |-> 1,
                                           served |-> FALSE]]
<1>1. Accepts(e)
  BY FreeTyped DEF Accepts, AllFree
<1>2. /\ msc' = n /\ control' = control
      /\ xfer' = [xfer EXCEPT ![e] = [phase |-> "active", item |-> item, size |-> 1,
                                      served |-> FALSE]]
  BY <1>1 DEF BulkTransfer, Submit
<1>3. StageEndpoint' = e /\ StageItem' = item
  BY <1>2 DEF StageEndpoint, StageItem
<1>4. Alone({"active", "reset"})'
  BY <1>2, <1>3 DEF Alone, AllFree, TypeInv
<1>5. PlaceInv'
  BY <1>2, <1>4 DEF PlaceInv, IdleInv, BusyInv, HaltInv, ResetInv, Awaited, Begun
<1> QED BY <1>2, <1>5

\* It starts a command.
LEMMA StartPlace ==
    ASSUME TypeInv, AllFree, control = <<>>, Between',
           NEW n \in DriverType, n.recovery = "None", n.fin = "none", Begun(n),
           NEW dir_in \in BOOLEAN, NEW chunks \in Nat, StartCommand(n, dir_in, chunks)
    PROVE  /\ PlaceInv'
           /\ msc'.stage = "Cbw" /\ msc'.dir_in = dir_in /\ msc'.left = chunks
           /\ msc'.fin = "none"
           /\ xfer'["out"].served = FALSE
<1> DEFINE m == [n EXCEPT !.stage = "Cbw", !.dir_in = dir_in, !.left = chunks]
<1>1. /\ m \in DriverType /\ m.recovery = "None" /\ m.fin = "none" /\ Begun(m)
      /\ m.stage = "Cbw" /\ m.dir_in = dir_in /\ m.left = chunks
  BY DEF DriverType, Begun
<1>2. BulkTransfer(m, "out", "cbw")
  BY DEF StartCommand
<1> HIDE DEF m
<1>3. /\ PlaceInv' /\ msc' = m
      /\ xfer' = [xfer EXCEPT !["out"] = [phase |-> "active", item |-> "cbw", size |-> 1,
                                          served |-> FALSE]]
  BY <1>1, <1>2, Names, NewTransfer
<1> QED BY <1>1, <1>3, Names DEF TypeInv

\* A command is about to finish.
LEMMA EndPlace ==
    ASSUME AllFree, control = <<>>, Between',
           NEW n, n.recovery = "None", n.fin # "none", Begun(n), n.stage # "Idle", Becomes(n)
    PROVE  PlaceInv'
<1>1. msc' = n /\ control' = <<>> /\ AllFree'
  BY DEF Becomes, AllFree
<1> QED BY <1>1 DEF PlaceInv, IdleInv, BusyInv, HaltInv, ResetInv, Awaited, Begun

\* The driver becomes idle.
LEMMA IdlePlace ==
    ASSUME AllFree, control = <<>>, Between',
           NEW n, n.recovery = "None", n.fin = "none", Begun(n), n.stage = "Idle", Becomes(n)
    PROVE  PlaceInv'
<1>1. msc' = n /\ control' = <<>> /\ AllFree'
  BY DEF Becomes, AllFree
<1> QED BY <1>1 DEF PlaceInv, IdleInv, BusyInv, HaltInv, ResetInv, Awaited, Begun

\* It sends one request of the Bulk-Only reset.
LEMMA ResetChainPlace ==
    ASSUME TypeInv, AllFree, control = <<>>, Between', NEW refused \in BOOLEAN,
           NEW n \in DriverType, n.fin = "none", Begun(n), n.stage # "Idle",
           NEW req, NEW e,
           \/ n.recovery = "MassStorageReset" /\ req = "Reset"
           \/ n.recovery = "ClearBulkIn" /\ req = "ClearHalt" /\ e = "in"
           \/ n.recovery = "ClearBulkOut" /\ req = "ClearHalt" /\ e = "out",
           SendControl(IF refused THEN Finished(n) ELSE n, req, e, refused)
    PROVE  PlaceInv'
<1>1. CASE refused
  <2>1. Becomes(Finished(n))
    BY <1>1 DEF SendControl, Becomes
  <2>2. /\ Finished(n).recovery = "None" /\ Finished(n).fin # "none" /\ Begun(Finished(n))
        /\ Finished(n).stage # "Idle"
    BY DEF Finished, DriverType, Begun
  <2> QED BY <2>1, <2>2, EndPlace
<1>2. CASE ~refused
  <2>1. msc' = n /\ AllFree' /\ control' = Append(<<>>, [req |-> req, ep |-> e])
    BY <1>2 DEF SendControl, Send, AllFree
  <2>2. Len(control') = 1 /\ control'[1] = [req |-> req, ep |-> e]
    BY <2>1
  <2>3. \A f : (req = "ClearHalt" => f = e) => Requested(req, f)'
    BY <2>2 DEF Requested
  <2> QED BY <2>1, <2>3 DEF PlaceInv, IdleInv, BusyInv, HaltInv, ResetInv, Awaited, Begun
<1> QED BY <1>1, <1>2

\* The packets still expected, once the transfer of the stage is no longer active.
LEMMA PacketsKept ==
    ASSUME PacketsInv, msc'.stage = msc.stage, msc'.dir_in = msc.dir_in, msc'.left = msc.left,
           msc.fin = "none", device' = device, ~Within("Completed")',
           xfer'[StageEndpoint'].phase # "active"
    PROVE  PacketsInv'
  BY DEF PacketsInv, Taken

\* Without a transfer, none is active.
LEMMA FreePackets ==
    ASSUME PacketsInv, msc'.stage = msc.stage, msc'.dir_in = msc.dir_in, msc'.left = msc.left,
           msc.fin = "none", device' = device, ~Within("Completed")', AllFree'
    PROVE  PacketsInv'
<1>1. StageEndpoint' \in Endpoints
  BY Names DEF StageEndpoint
<1>2. xfer'[StageEndpoint'].phase # "active"
  BY <1>1, FreeTyped DEF AllFree
<1> QED BY <1>2, PacketsKept

\* A command or a recovery ends, or a stage of a recovery follows another.
LEMMA SameCommand ==
    ASSUME NEW m \in DriverType
    PROVE  /\ \A n \in {m, Finished(m)} : n.stage = m.stage /\ n.dir_in = m.dir_in
                 /\ n.left = m.left /\ n.phase = m.phase
           /\ \A s, e : LET n == [m EXCEPT !.recovery = s, !.recovery_ep = e]
                        IN  /\ n.stage = m.stage /\ n.dir_in = m.dir_in /\ n.left = m.left
                            /\ n.phase = m.phase /\ n.recovery = s /\ n.recovery_ep = e
                            /\ n.fin = m.fin
           /\ \A s : LET n == [m EXCEPT !.recovery = s]
                     IN  /\ n.stage = m.stage /\ n.dir_in = m.dir_in /\ n.left = m.left
                         /\ n.phase = m.phase /\ n.recovery = s /\ n.recovery_ep = m.recovery_ep
                         /\ n.fin = m.fin
           /\ Finished(m).recovery = "None" /\ Finished(m).fin = "Failed"
  BY DEF DriverType, Finished

\* OnBulkCompleted begins a Bulk-Only reset.
LEMMA BeginResetPlace ==
    ASSUME TypeInv, PlaceInv, PacketsInv, call # NoCall, ~call.done, call.fn = "Completed",
           NEW refused \in BOOLEAN, BeginResetRecovery(msc, refused), device' = device, Between'
    PROVE  PlaceInv' /\ PacketsInv'
<1>1. /\ control = <<>> /\ msc.fin = "none" /\ msc.stage # "Idle" /\ msc.recovery = "None"
      /\ AllFree /\ msc \in DriverType /\ Begun(msc)
  BY Called DEF TypeInv, PlaceInv, Begun
<1> DEFINE n == [msc EXCEPT !.recovery = "MassStorageReset", !.recovery_ep = msc.recovery_ep]
<1>2. n \in DriverType
  BY <1>1 DEF DriverType
<1>3. /\ n.stage = msc.stage /\ n.dir_in = msc.dir_in /\ n.left = msc.left /\ n.phase = msc.phase
      /\ n.recovery = "MassStorageReset" /\ n.fin = "none"
  BY <1>1, SameCommand
<1>4. SendControl(IF refused THEN Finished(n) ELSE n, "Reset", msc.recovery_ep, refused)
  BY <1>1 DEF BeginResetRecovery, BeginRecovery
<1> HIDE DEF n
<1>5. PlaceInv'
  BY <1>1, <1>2, <1>3, <1>4, ResetChainPlace DEF Begun
<1>6. msc' \in {n, Finished(n)} /\ AllFree'
  BY <1>1, <1>4 DEF SendControl, AllFree
<1>7. msc'.stage = msc.stage /\ msc'.dir_in = msc.dir_in /\ msc'.left = msc.left
  BY <1>2, <1>3, <1>6, SameCommand
<1>8. ~Within("Completed")'
  BY DEF Between, Within
<1> QED BY <1>1, <1>5, <1>6, <1>7, <1>8, FreePackets

\* OnBulkCompleted begins the recovery of a halted endpoint.
LEMMA BeginHaltPlace ==
    ASSUME TypeInv, PlaceInv, PacketsInv, call # NoCall, ~call.done, call.fn = "ResetDone",
           BeginHaltRecovery(msc, call.ep, FALSE), device' = device, Between'
    PROVE  PlaceInv' /\ PacketsInv'
<1>1. /\ control = <<>> /\ msc.fin = "none" /\ msc.stage # "Idle" /\ msc.recovery = "None"
      /\ call.ep = StageEndpoint /\ Alone({"clear"}) /\ msc \in DriverType /\ Begun(msc)
  BY Called DEF TypeInv, PlaceInv, Begun
<1> DEFINE n == [msc EXCEPT !.recovery = "ClearHalt", !.recovery_ep = call.ep]
<1>2. /\ n.stage = msc.stage /\ n.dir_in = msc.dir_in /\ n.left = msc.left /\ n.phase = msc.phase
      /\ n.recovery = "ClearHalt" /\ n.recovery_ep = call.ep /\ n.fin = "none"
  BY <1>1, SameCommand
<1>3. /\ msc' = n /\ xfer' = xfer
      /\ control' = Append(<<>>, [req |-> "ClearHalt", ep |-> call.ep])
  BY <1>1 DEF BeginHaltRecovery, BeginRecovery, SendControl, Send
<1> HIDE DEF n
<1>4. StageEndpoint' = StageEndpoint /\ StageItem' = StageItem
  BY <1>2, <1>3 DEF StageEndpoint, StageItem
<1>5. Alone({"clear"})'
  BY <1>1, <1>3, <1>4 DEF Alone
<1>6. Len(control') = 1 /\ control'[1] = [req |-> "ClearHalt", ep |-> call.ep]
  BY <1>3
<1>7. Requested("ClearHalt", StageEndpoint)'
  BY <1>1, <1>4, <1>6 DEF Requested
<1>8. PlaceInv'
  BY <1>1, <1>2, <1>3, <1>4, <1>5, <1>7
  DEF PlaceInv, IdleInv, BusyInv, HaltInv, ResetInv, Awaited, Begun
<1>9. ~Within("Completed")' /\ xfer'[StageEndpoint'].phase # "active"
  BY <1>5 DEF Between, Within, Alone
<1> QED BY <1>1, <1>2, <1>3, <1>8, <1>9, PacketsKept

\* A packet or the data of a read is submitted.
LEMMA DataPlace ==
    ASSUME TypeInv, AllFree, control = <<>>, Between',
           NEW m \in DriverType, m.recovery = "None", m.fin = "none", Begun(m), SubmitData(m)
    PROVE  /\ PlaceInv' /\ msc'.stage = "Data" /\ msc'.dir_in = m.dir_in /\ msc'.left = m.left
           /\ ~xfer'[StageEndpoint'].served
<1> DEFINE n == [m EXCEPT !.stage = "Data"]
           e == IF m.dir_in THEN "in" ELSE "out"
<1>1. /\ n \in DriverType /\ n.recovery = "None" /\ n.fin = "none" /\ Begun(n)
      /\ n.stage = "Data" /\ n.dir_in = m.dir_in /\ n.left = m.left
  BY DEF DriverType, Begun
<1>2. e \in Endpoints
  BY Names
<1>3. BulkTransfer(n, e, "data")
  BY DEF SubmitData
<1> HIDE DEF n
<1>4. e = IF n.stage = "Csw" \/ (n.stage = "Data" /\ n.dir_in) THEN "in" ELSE "out"
  BY <1>1
<1>5. "data" = CASE n.stage = "Cbw" -> "cbw" [] n.stage = "Data" -> "data" [] OTHER -> "csw"
  BY <1>1
<1> HIDE DEF e
<1>6. /\ PlaceInv' /\ msc' = n
      /\ xfer' = [xfer EXCEPT ![e] = [phase |-> "active", item |-> "data", size |-> 1,
                                      served |-> FALSE]]
  BY <1>1, <1>2, <1>3, <1>4, <1>5, NewTransfer
<1>7. StageEndpoint' = e
  BY <1>4, <1>6 DEF StageEndpoint
<1> QED BY <1>1, <1>2, <1>6, <1>7 DEF TypeInv

\* The status wrapper is asked for.
LEMMA CswPlace ==
    ASSUME TypeInv, AllFree, control = <<>>, Between',
           NEW m \in DriverType, m.recovery = "None", m.fin = "none", Begun(m), SubmitCsw(m)
    PROVE  PlaceInv' /\ msc'.stage = "Csw" /\ msc'.dir_in = m.dir_in
<1> DEFINE n == [m EXCEPT !.stage = "Csw"]
<1>1. /\ n \in DriverType /\ n.recovery = "None" /\ n.fin = "none" /\ Begun(n)
      /\ n.stage = "Csw" /\ n.dir_in = m.dir_in
  BY DEF DriverType, Begun
<1>2. BulkTransfer(n, "in", "csw")
  BY DEF SubmitCsw
<1> HIDE DEF n
<1>3. PlaceInv' /\ msc' = n
  BY <1>1, <1>2, Names, NewTransfer
<1> QED BY <1>1, <1>3

\* OnBulkCompleted submits the next transfer of the command.
LEMMA NextTransferPlace ==
    ASSUME TypeInv, PlaceInv, PacketsInv, call # NoCall, ~call.done, call.fn = "Completed",
           device' = device, Between',
           \/ msc.stage = "Cbw" /\ SubmitData(msc)
           \/ msc.stage = "Data" /\ msc.dir_in /\ SubmitCsw(msc)
           \/ /\ msc.stage = "Data" /\ ~msc.dir_in /\ msc.left > 1
              /\ SubmitData([msc EXCEPT !.left = @ - 1])
           \/ /\ msc.stage = "Data" /\ ~msc.dir_in /\ ~(msc.left > 1)
              /\ SubmitCsw([msc EXCEPT !.left = 0])
    PROVE  PlaceInv' /\ PacketsInv'
<1>1. /\ control = <<>> /\ msc.fin = "none" /\ msc.stage # "Idle" /\ msc.recovery = "None"
      /\ AllFree /\ msc \in DriverType /\ Begun(msc) /\ msc.left \in Nat
  BY Called DEF TypeInv, PlaceInv, Begun, DriverType
<1>2. Within("Completed") /\ Taken
  BY DEF Within, Taken
<1>3. ~Within("Completed")'
  BY DEF Between, Within
<1>4. ASSUME NEW left \in Nat
      PROVE  LET m == [msc EXCEPT !.left = left]
             IN  /\ m \in DriverType /\ m.recovery = "None" /\ m.fin = "none" /\ Begun(m)
                 /\ m.dir_in = msc.dir_in /\ m.left = left
  BY <1>1 DEF DriverType, Begun
<1>5. CASE msc.stage = "Cbw" /\ SubmitData(msc)
  <2>1. /\ PlaceInv' /\ msc'.stage = "Data" /\ msc'.dir_in = msc.dir_in /\ msc'.left = msc.left
        /\ ~xfer'[StageEndpoint'].served
    BY <1>1, <1>5, DataPlace
  <2> QED BY <1>1, <1>2, <1>3, <1>5, <2>1 DEF PacketsInv, Taken
<1>6. CASE msc.stage = "Data" /\ msc.dir_in /\ SubmitCsw(msc)
  <2>1. PlaceInv' /\ msc'.dir_in = msc.dir_in
    BY <1>1, <1>6, CswPlace
  <2> QED BY <1>6, <2>1 DEF PacketsInv
<1>7. CASE /\ msc.stage = "Data" /\ ~msc.dir_in /\ msc.left > 1
           /\ SubmitData([msc EXCEPT !.left = @ - 1])
  <2>1. msc.left - 1 \in Nat
    BY <1>1, <1>7
  <2> DEFINE m == [msc EXCEPT !.left = msc.left - 1]
  <2>2. /\ m \in DriverType /\ m.recovery = "None" /\ m.fin = "none" /\ Begun(m)
        /\ m.dir_in = msc.dir_in /\ m.left = msc.left - 1
    BY <1>4, <2>1
  <2>3. SubmitData(m)
    BY <1>7
  <2> HIDE DEF m
  <2>4. /\ PlaceInv' /\ msc'.stage = "Data" /\ msc'.dir_in = msc.dir_in /\ msc'.left = msc.left - 1
        /\ ~xfer'[StageEndpoint'].served
    BY <1>1, <2>2, <2>3, DataPlace
  <2> QED BY <1>1, <1>2, <1>3, <1>7, <2>4 DEF PacketsInv, Taken
<1>8. CASE /\ msc.stage = "Data" /\ ~msc.dir_in /\ ~(msc.left > 1)
            /\ SubmitCsw([msc EXCEPT !.left = 0])
  <2> DEFINE m == [msc EXCEPT !.left = 0]
  <2>1. /\ m \in DriverType /\ m.recovery = "None" /\ m.fin = "none" /\ Begun(m)
        /\ m.dir_in = msc.dir_in
    BY <1>4
  <2>2. SubmitCsw(m)
    BY <1>8
  <2> HIDE DEF m
  <2>3. PlaceInv' /\ msc'.stage = "Csw" /\ msc'.dir_in = msc.dir_in
    BY <1>1, <2>1, <2>2, CswPlace
  <2>4. device.expects = 0
    BY <1>1, <1>2, <1>8 DEF PacketsInv
  <2> QED BY <2>3, <2>4 DEF PacketsInv
<1> QED BY <1>5, <1>6, <1>7, <1>8

\* OnBulkCompleted.
LEMMA CompletedPlace ==
    ASSUME TypeInv, PlaceInv, PacketsInv, NEW refused \in BOOLEAN, OnBulkCompleted(refused), ~Lost'
    PROVE  PlaceInv' /\ PacketsInv'
<1>1. call # NoCall /\ ~call.done /\ call.fn \in {"Completed", "ResetDone"} /\ device' = device
      /\ msc \in DriverType
  BY DEF OnBulkCompleted, Calls, TypeInv
<1>2. call'.done /\ call'.fn = call.fn
  BY <1>1 DEF OnBulkCompleted, Returns, TypeInv, CallType
<1>3. Between' /\ ~Within("Completed")'
  BY <1>1, <1>2 DEF Between, Within
<1>4. msc.stage # "Idle" /\ msc.recovery = "None" /\ msc.fin = "none" /\ Begun(msc)
  BY <1>1, Called DEF PlaceInv, Begun
<1>5. ASSUME call.fn = "ResetDone", BeginHaltRecovery(msc, call.ep, refused)
      PROVE  PlaceInv' /\ PacketsInv'
  <2>1. ~refused
    <3>1. ~call'.err
      BY <1>2, <1>5 DEF Lost, Doomed
    <3> QED BY <1>1, <1>4, <1>5, <3>1 DEF OnBulkCompleted, Returns, TypeInv, CallType
  <2> QED BY <1>1, <1>3, <1>5, <2>1, BeginHaltPlace
<1>6. ASSUME call.fn = "Completed", BeginResetRecovery(msc, refused)
      PROVE  PlaceInv' /\ PacketsInv'
  BY <1>1, <1>3, <1>6, BeginResetPlace
<1>7. ASSUME msc.stage = "Csw", call.fn = "Completed", NEW f \in {"Ok", "CswStatus", "Failed"},
             Becomes([msc EXCEPT !.fin = f])
      PROVE  PlaceInv' /\ PacketsInv'
  <2> DEFINE n == [msc EXCEPT !.fin = f]
  <2>1. /\ n.recovery = "None" /\ n.fin # "none" /\ Begun(n) /\ n.stage = msc.stage
        /\ n.dir_in = msc.dir_in /\ n.left = msc.left
    BY <1>1, <1>4 DEF DriverType, Begun
  <2>2. AllFree /\ control = <<>>
    BY <1>1, <1>7, Called
  <2>3. AllFree' /\ msc' = n
    BY <1>7, <2>2 DEF Becomes, AllFree
  <2>4. Becomes(n)
    BY <1>7
  <2> HIDE DEF n
  <2> QED BY <1>1, <1>3, <1>4, <2>1, <2>2, <2>3, <2>4, EndPlace, FreePackets
<1> QED BY <1>1, <1>3, <1>4, <1>5, <1>6, <1>7, NextTransferPlace, CompletedCases

\* OnControlCompleted.
LEMMA ControlCompletedPlace ==
    ASSUME TypeInv, PlaceInv, PacketsInv, NEW refused \in BOOLEAN, OnControlCompleted(refused), ~Lost'
    PROVE  PlaceInv' /\ PacketsInv'
<1>1. /\ call # NoCall /\ ~call.done /\ call.fn \in {"ControlDone", "ClearHaltDone"}
      /\ msc \in DriverType /\ call \in CallType
  BY DEF OnControlCompleted, Calls, TypeInv
<1>2. call'.done /\ call'.fn = call.fn /\ call'.ep = call.ep /\ call'.ok = call.ok
  BY <1>1 DEF OnControlCompleted, OnRecoveryControl, OnPlainControl, Returns, CallType
<1>3. ~Within("Completed")' /\ call' # NoCall
  BY <1>2 DEF Within, NoCall
<1>4. control = <<>> /\ msc.fin = "none"
  BY <1>1, Called
<1>5. CASE OnPlainControl
  <2>1. msc.recovery = "None"
    BY <1>5 DEF OnPlainControl
  <2>2. msc.stage = "Idle" /\ msc.phase = "GetMaxLun" /\ AllFree /\ call.fn = "ControlDone"
    BY <1>1, <2>1, Called
  <2>3. Between'
    BY <1>2, <2>2 DEF Between
  <2> DEFINE n == [msc EXCEPT !.phase = "Inquiry"]
  <2>4. n \in DriverType /\ n.recovery = "None" /\ n.fin = "none" /\ Begun(n)
    BY <1>1, <1>4, <2>1 DEF DriverType, Begun
  <2>5. StartCommand(n, TRUE, 0)
    BY <1>5, <2>2 DEF OnPlainControl
  <2> HIDE DEF n
  <2>6. PlaceInv' /\ msc'.dir_in = TRUE
    BY <1>4, <2>2, <2>3, <2>4, <2>5, StartPlace
  <2> QED BY <2>6 DEF PacketsInv
<1>6. CASE OnRecoveryControl(refused) /\ call.fn = "ControlDone"
  <2>1. AllFree /\ Between' /\ device' = device
    BY <1>1, <1>2, <1>6, Called DEF Between, OnRecoveryControl
  <2>2. msc.recovery # "None" /\ msc.stage # "Idle" /\ Begun(msc)
    BY <1>6 DEF OnRecoveryControl, PlaceInv, Begun
  <2>3. /\ msc.recovery \in {"MassStorageReset", "ClearBulkIn", "ClearBulkOut"}
        /\ Expected
    BY <1>1, <1>6, <2>2, Called DEF Expected
  <2>4. ASSUME Becomes(Finished(msc)) PROVE PlaceInv' /\ PacketsInv'
    <3> DEFINE n == Finished(msc)
    <3>1. /\ n.recovery = "None" /\ n.fin = "Failed" /\ n.stage = msc.stage
          /\ n.dir_in = msc.dir_in /\ n.left = msc.left /\ n.phase = msc.phase
      BY <1>1, SameCommand
    <3>2. msc' = n /\ AllFree' /\ Becomes(n)
      BY <2>1, <2>4 DEF Becomes, AllFree
    <3> HIDE DEF n
    <3>3. PlaceInv'
      BY <1>4, <2>1, <2>2, <3>1, <3>2, EndPlace DEF Begun
    <3> QED BY <1>3, <1>4, <2>1, <3>1, <3>2, <3>3, FreePackets
  <2>5. ASSUME NEW s \in {"ClearBulkIn", "ClearBulkOut"}, NEW e \in {"in", "out"},
               \/ s = "ClearBulkIn" /\ e = "in"
               \/ s = "ClearBulkOut" /\ e = "out",
               SendControl(IF refused THEN Finished(NextStage(s)) ELSE NextStage(s),
                           "ClearHalt", e, refused)
        PROVE  PlaceInv' /\ PacketsInv'
    <3> DEFINE n == NextStage(s)
    <3>1. /\ n.stage = msc.stage /\ n.dir_in = msc.dir_in /\ n.left = msc.left
          /\ n.phase = msc.phase /\ n.recovery = s /\ n.fin = "none"
      BY <1>1, <1>4, SameCommand DEF NextStage
    <3>2. n \in DriverType
      BY <1>1, DriverTyped DEF NextStage
    <3>3. SendControl(IF refused THEN Finished(n) ELSE n, "ClearHalt", e, refused)
      BY <2>5
    <3> HIDE DEF n
    <3>4. PlaceInv'
      BY <1>4, <2>1, <2>2, <2>5, <3>1, <3>2, <3>3, ResetChainPlace DEF Begun
    <3>5. msc' \in {n, Finished(n)} /\ AllFree'
      BY <2>1, <3>3 DEF SendControl, AllFree
    <3>6. msc'.stage = msc.stage /\ msc'.dir_in = msc.dir_in /\ msc'.left = msc.left
      BY <3>1, <3>2, <3>5, SameCommand
    <3> QED BY <1>3, <1>4, <2>1, <3>4, <3>5, <3>6, FreePackets
  <2> QED BY <1>6, <2>3, <2>4, <2>5, RecoveryCases
<1>7. CASE OnRecoveryControl(refused) /\ call.fn = "ClearHaltDone"
  <2>1. /\ msc.recovery = "ClearHalt" /\ Alone({"clear"}) /\ call.ep = StageEndpoint
        /\ msc.recovery_ep = StageEndpoint /\ call.item = "ClearHalt"
    BY <1>1, <1>7, Called
  <2>2. call.ok
    BY <1>2, <1>7 DEF Lost, Doomed
  <2>3. Expected /\ Recovering(msc)
    BY <2>1 DEF Expected, Recovering, Alone
  <2>4. Becomes(NextStage("AwaitTransport"))
    BY <1>7, <2>1, <2>2, <2>3, RecoveryCases
  <2> DEFINE n == NextStage("AwaitTransport")
  <2>5. /\ n.stage = msc.stage /\ n.dir_in = msc.dir_in /\ n.left = msc.left
        /\ n.phase = msc.phase /\ n.recovery = "AwaitTransport" /\ n.fin = "none"
        /\ n.recovery_ep = msc.recovery_ep
    BY <1>1, <1>4, SameCommand DEF NextStage
  <2>6. msc' = n /\ xfer' = xfer /\ control' = control
    BY <2>4 DEF Becomes
  <2> HIDE DEF n
  <2>7. StageEndpoint' = StageEndpoint /\ StageItem' = StageItem
    BY <2>5, <2>6 DEF StageEndpoint, StageItem
  <2>8. Alone({"clear"})'
    BY <2>1, <2>6, <2>7 DEF Alone
  <2>9. PlaceInv'
    BY <1>2, <1>3, <1>4, <1>7, <2>1, <2>5, <2>6, <2>7, <2>8
    DEF PlaceInv, IdleInv, BusyInv, HaltInv, ResetInv, Awaited
  <2>10. xfer'[StageEndpoint'].phase # "active" /\ device' = device
    BY <1>7, <2>8 DEF Alone, OnRecoveryControl
  <2> QED BY <1>3, <1>4, <2>5, <2>6, <2>9, <2>10, PacketsKept
<1> QED BY <1>1, <1>5, <1>6, <1>7 DEF OnControlCompleted

\* OnBulkRecoveryCompleted.
LEMMA RecoveredPlace ==
    ASSUME TypeInv, PlaceInv, PacketsInv, OnBulkRecoveryCompleted
    PROVE  PlaceInv' /\ PacketsInv'
<1>1. /\ call # NoCall /\ ~call.done /\ call.fn = "Recovered" /\ msc \in DriverType
      /\ device' = device /\ call \in CallType
  BY DEF OnBulkRecoveryCompleted, Calls, TypeInv
<1>2. /\ control = <<>> /\ msc.fin = "none" /\ msc.recovery = "AwaitTransport" /\ AllFree
      /\ call.ep = msc.recovery_ep
  BY <1>1, Called
<1>3. msc.stage # "Idle" /\ Begun(msc)
  BY <1>2 DEF PlaceInv, Begun
<1>4. call'.done /\ call'.fn = "Recovered"
  BY <1>1 DEF OnBulkRecoveryCompleted, Returns, CallType
<1>5. Between' /\ ~Within("Completed")'
  BY <1>4 DEF Between, Within
<1> DEFINE n == Finished(msc)
<1>6. Becomes(n)
  BY <1>2 DEF OnBulkRecoveryCompleted
<1>7. /\ n.recovery = "None" /\ n.fin = "Failed" /\ n.stage = msc.stage
      /\ n.dir_in = msc.dir_in /\ n.left = msc.left /\ n.phase = msc.phase
  BY <1>1, SameCommand
<1> HIDE DEF n
<1>8. PlaceInv'
  BY <1>2, <1>3, <1>5, <1>6, <1>7, EndPlace DEF Begun
<1>9. msc' = n /\ AllFree'
  BY <1>2, <1>6 DEF Becomes, AllFree
<1> QED BY <1>1, <1>2, <1>5, <1>7, <1>8, <1>9, FreePackets

\* Finish.
LEMMA FinishPlace ==
    ASSUME TypeInv, PlaceInv, PacketsInv, Finish
    PROVE  PlaceInv' /\ PacketsInv'
<1> DEFINE m == [msc EXCEPT !.stage = "Idle", !.fin = "none"]
<1>1. msc.fin # "none" /\ msc \in DriverType /\ call' = call
  BY DEF Finish, TypeInv
<1>2. msc.stage # "Idle" /\ msc.recovery = "None"
  BY <1>1 DEF PlaceInv, IdleInv
<1>3. AllFree /\ control = <<>> /\ Between /\ Begun(msc)
  BY <1>1, <1>2 DEF PlaceInv, BusyInv, Begun
<1>4. Between'
  BY <1>1, <1>3 DEF Between
<1>5. /\ m \in DriverType /\ m.recovery = "None" /\ m.fin = "none" /\ Begun(m) /\ m.stage = "Idle"
  BY <1>1, <1>2, <1>3 DEF DriverType, Begun
<1>6. ASSUME NEW n \in DriverType, n.recovery = "None", n.fin = "none", Begun(n),
             StartCommand(n, TRUE, 0)
      PROVE  PlaceInv' /\ PacketsInv'
  <2>1. PlaceInv' /\ msc'.dir_in = TRUE
    BY <1>3, <1>4, <1>6, StartPlace
  <2> QED BY <2>1 DEF PacketsInv
<1>7. ASSUME NEW n \in DriverType, n.recovery = "None", n.fin = "none", Begun(n),
             n.stage = "Idle", Becomes(n)
      PROVE  PlaceInv' /\ PacketsInv'
  <2>1. PlaceInv' /\ msc'.stage = "Idle"
    BY <1>3, <1>4, <1>7, IdlePlace DEF Becomes
  <2> QED BY <2>1 DEF PacketsInv
<1>8. ASSUME NEW n \in DriverType, n.recovery = "None", n.fin = "none", n.stage = "Idle"
      PROVE  /\ \A p \in {"ReadCapacity", "RequestSense"} :
                   LET k == [n EXCEPT !.phase = p]
                   IN  k \in DriverType /\ k.recovery = "None" /\ k.fin = "none" /\ Begun(k)
             /\ \A b \in BOOLEAN :
                   LET k == [n EXCEPT !.phase = "Done", !.ready = b]
                   IN  /\ k \in DriverType /\ k.recovery = "None" /\ k.fin = "none" /\ Begun(k)
                       /\ k.stage = "Idle"
  BY <1>8 DEF DriverType, Begun
<1>9. ASSUME NEW n \in DriverType, n.recovery = "None", n.fin = "none"
      PROVE  /\ Retry(n) \in DriverType /\ Retry(n).recovery = "None" /\ Retry(n).fin = "none"
             /\ Begun(Retry(n))
  <2>1. n.retries + 1 \in Nat
    BY DEF DriverType
  <2>2. \A k \in Nat : LET o == [n EXCEPT !.phase = "ReadCapacity", !.retries = k]
                       IN  o \in DriverType /\ o.recovery = "None" /\ o.fin = "none" /\ Begun(o)
    BY <1>9 DEF DriverType, Begun
  <2> QED BY <2>1, <2>2 DEF Retry
<1>10. (m.ready \/ (m.phase = "ReadCapacity" /\ msc.fin = "Ok")) \in BOOLEAN
  OBVIOUS
<1>11. \/ StartCommand([m EXCEPT !.phase = "ReadCapacity"], TRUE, 0)
       \/ StartCommand([m EXCEPT !.phase = "RequestSense"], TRUE, 0)
       \/ StartCommand(Retry(m), TRUE, 0)
       \/ Becomes([m EXCEPT !.phase = "Done",
                     !.ready = @ \/ (m.phase = "ReadCapacity" /\ msc.fin = "Ok")])
       \/ Becomes(m)
  BY DEF Finish
<1> HIDE DEF m
<1>12. CASE StartCommand(Retry(m), TRUE, 0)
  BY <1>5, <1>6, <1>9, <1>12
<1>13. CASE \E p \in {"ReadCapacity", "RequestSense"} : StartCommand([m EXCEPT !.phase = p], TRUE, 0)
  BY <1>5, <1>6, <1>8, <1>13
<1>14. CASE \E b \in BOOLEAN : Becomes([m EXCEPT !.phase = "Done", !.ready = b])
  BY <1>5, <1>7, <1>8, <1>14
<1> QED BY <1>5, <1>7, <1>10, <1>11, <1>12, <1>13, <1>14

\* The client's calls; an abort loses track of the command.
LEMMA ClientPlace ==
    ASSUME TypeInv, PlaceInv, PacketsInv, Client, ~Lost'
    PROVE  PlaceInv' /\ PacketsInv'
<1>1. ~AbortCommand
  BY DEF AbortCommand, Lost, TypeInv
<1>2. ASSUME NEW dir_in \in BOOLEAN, NEW chunks \in Nat, Request(dir_in, chunks),
             ~dir_in => chunks > 0
      PROVE  PlaceInv' /\ PacketsInv'
  <2>1. /\ call = NoCall /\ call' = call /\ msc.fin = "none" /\ msc.phase = "Done"
        /\ msc.stage = "Idle" /\ StartCommand(msc, dir_in, chunks) /\ msc \in DriverType
    BY <1>2 DEF Request, TypeInv
  <2>2. Between /\ Between' /\ Begun(msc) /\ \A fn : ~Within(fn)'
    BY <2>1 DEF Between, Begun, Within
  <2>3. AllFree /\ control = <<>> /\ msc.recovery = "None"
    BY <2>1 DEF PlaceInv, IdleInv, Within
  <2>4. /\ PlaceInv' /\ msc'.stage = "Cbw" /\ msc'.dir_in = dir_in /\ msc'.left = chunks
        /\ xfer'["out"].served = FALSE
    BY <2>1, <2>2, <2>3, StartPlace
  <2>5. ~Taken'
    BY <2>2, <2>4 DEF Taken, StageEndpoint
  <2> QED BY <1>2, <2>4, <2>5 DEF PacketsInv
<1>3. ASSUME NEW refused \in BOOLEAN, OnEndpointsConfigured(refused)
      PROVE  PlaceInv' /\ PacketsInv'
  <2>1. /\ call = NoCall /\ call' = call /\ msc.phase = "Idle" /\ xfer' = xfer /\ msc \in DriverType
    BY <1>3 DEF OnEndpointsConfigured, SendControl, TypeInv
  <2>2. msc.stage = "Idle" /\ control = <<>> /\ msc.recovery = "None" /\ msc.fin = "none" /\ AllFree
    BY <2>1 DEF PlaceInv, IdleInv
  <2>3. Between' /\ AllFree'
    BY <2>1, <2>2 DEF Between, AllFree
  <2>4. /\ msc'.stage = "Idle" /\ msc'.recovery = "None" /\ msc'.fin = "none"
        /\ msc'.phase = IF refused THEN "Done" ELSE "GetMaxLun"
    BY <1>3, <2>1, <2>2 DEF OnEndpointsConfigured, SendControl, DriverType
  <2>5. CASE refused
    <3>1. control' = <<>>
      BY <1>3, <2>2, <2>5 DEF OnEndpointsConfigured, SendControl
    <3> QED BY <2>3, <2>4, <2>5, <3>1
            DEF PlaceInv, IdleInv, BusyInv, HaltInv, ResetInv, Awaited, PacketsInv
  <2>6. CASE ~refused
    <3>1. control' = Append(<<>>, [req |-> "GetMaxLun", ep |-> "in"])
      BY <1>3, <2>2, <2>6 DEF OnEndpointsConfigured, SendControl, Send
    <3>2. Len(control') = 1 /\ control'[1] = [req |-> "GetMaxLun", ep |-> "in"]
      BY <3>1
    <3>3. Requested("GetMaxLun", "in")'
      BY <3>2 DEF Requested
    <3> QED BY <2>3, <2>4, <2>6, <3>3
            DEF PlaceInv, IdleInv, BusyInv, HaltInv, ResetInv, Awaited, PacketsInv
  <2> QED BY <2>5, <2>6
<1>4. 0 \in Nat /\ \A n \in 1 .. MaxChunks : n \in Nat /\ n > 0
  BY StorageAssumption
<1> QED BY <1>1, <1>2, <1>3, <1>4 DEF Client

-----------------------------------------------------------------------------
(* Packets                                                                 *)

\* The transport keeps the account of packets: it completes what was served.
LEMMA HostPackets ==
    ASSUME TypeInv, PlaceInv, PacketsInv, ~Lost, ~Lost', HostStep, msc' = msc, device' = device
    PROVE  PacketsInv'
<1>1. StageItem' = StageItem /\ StageEndpoint' = StageEndpoint /\ StageEndpoint \in Endpoints
  BY SameStage, StageNames
<1>2. ASSUME ~Within("Completed"), ~Within("Completed")', xfer' = xfer PROVE PacketsInv'
  BY <1>1, <1>2 DEF PacketsInv, Taken
<1>3. ASSUME NEW e \in Endpoints, NEW len, Complete(e, len) PROVE PacketsInv'
  <2>1. e = StageEndpoint /\ xfer[e].phase = "active" /\ xfer[e].served
    BY <1>3, OfTheStage DEF Complete, Lost, Broken
  <2>2. Taken
    BY <2>1 DEF Taken
  <2>3. Taken'
    BY <1>3 DEF Taken, Within, Complete, Call, CallOf, NoCall
  <2> QED BY <1>1, <2>2, <2>3 DEF PacketsInv
<1>4. ASSUME NEW e \in Endpoints, Fail(e) \/ ResetEnds(e) \/ ResumeEnds(e) PROVE PacketsInv'
  <2>1. xfer[e].phase # "free"
    BY <1>4 DEF Fail, ResetEnds, ResumeEnds
  <2>2. e = StageEndpoint /\ msc.fin = "none"
    BY <2>1, OfTheStage
  <2>3. xfer'[e].phase # "active"
    <3>1. CASE Enter(e, "reset")
      BY <3>1 DEF Enter, TypeInv, XferType
    <3>2. CASE Enter(e, "clear")
      BY <3>2 DEF Enter, TypeInv, XferType
    <3>3. CASE Free(e)
      BY <3>3 DEF Free, NoXfer, TypeInv, XferType
    <3> QED BY <1>4, <3>1, <3>2, <3>3 DEF Fail, ResetEnds, ResumeEnds
  <2>4. ~Within("Completed")'
    BY <1>4 DEF Fail, ResetEnds, ResumeEnds, Call, CallOf, Within
  <2> QED BY <1>1, <2>2, <2>3, <2>4, PacketsKept
<1>5. ASSUME ControlEnds PROVE PacketsInv'
  <2>1. ~Within("Completed") /\ ~Within("Completed")' /\ xfer' = xfer
    BY <1>5 DEF ControlEnds, Call, CallOf, Within
  <2> QED BY <1>2, <2>1
<1>6. ASSUME Return PROVE PacketsInv'
  <2>1. call # NoCall /\ call.done /\ call \in CallType /\ call.ep \in Endpoints
    BY <1>6 DEF Return, TypeInv, CallType
  <2>2. ~Break(call.ep)
    BY <2>1 DEF Break, Lost, Broken, TypeInv
  <2>3. ~Within("Completed") /\ ~Within("Completed")'
    BY <1>6, <2>2 DEF Return, Within
  <2>4. CASE xfer' = xfer
    BY <1>2, <2>3, <2>4
  <2>5. CASE xfer' # xfer
    <3>1. Enter(call.ep, "resume") /\ call.fn = "ClearHaltDone"
      BY <1>6, <2>2, <2>5 DEF Return
    <3>2. ~Between /\ \A fn : ~Within(fn)
      BY <2>1, <3>1 DEF Between, Within
    <3>3. msc.recovery = "AwaitTransport"
      BY <3>2 DEF PlaceInv, IdleInv, BusyInv, HaltInv, ResetInv, Awaited, Answering, TypeInv, DriverType
    <3>4. call.ep = StageEndpoint /\ msc.fin = "none"
      BY <2>1, <3>2, <3>3 DEF PlaceInv, HaltInv
    <3>5. xfer'[StageEndpoint].phase # "active"
      BY <2>1, <3>1, <3>4 DEF Enter, TypeInv, XferType
    <3> QED BY <1>1, <2>3, <3>4, <3>5, PacketsKept
  <2> QED BY <2>4, <2>5
<1> QED BY <1>3, <1>4, <1>5, <1>6 DEF HostStep

\* The device keeps it: it takes the CBW and one packet after the other.
LEMMA DevicePackets ==
    ASSUME TypeInv, PlaceInv, PacketsInv, NEW e \in Endpoints, DeviceStep(e)
    PROVE  PacketsInv'
<1>1. /\ xfer[e].phase = "active" /\ ~xfer[e].served /\ call' = call /\ msc' = msc
      /\ xfer' = [xfer EXCEPT ![e].served = TRUE]
  BY DEF DeviceStep, Serve
<1>2. /\ e = StageEndpoint /\ msc.stage # "Idle" /\ msc.fin = "none" /\ msc.recovery = "None"
      /\ Between /\ xfer[e].item = StageItem
  BY <1>1, OfTheStage
<1>3. StageEndpoint' = e
  BY <1>1, <1>2, SameStage
<1>4. ~Within("Completed") /\ ~Taken
  BY <1>1, <1>2 DEF Between, Within, Taken
<1>5. xfer'[e].phase = "active" /\ xfer'[e].served
  BY <1>1 DEF TypeInv, XferType
<1>6. Taken'
  BY <1>3, <1>5 DEF Taken
<1>7. device.expects \in Nat /\ msc.left \in Nat /\ msc.stage \in {"Cbw", "Data", "Csw"}
  BY <1>2 DEF TypeInv, DriverType
<1>8. CASE msc.stage = "Cbw"
  <2>1. device' = [device EXCEPT !.tag = TRUE, !.expects = msc.left]
    BY <1>2, <1>8 DEF DeviceStep, StageItem
  <2>2. device'.expects = msc.left
    BY <2>1 DEF TypeInv
  <2> QED BY <1>1, <1>8, <2>2 DEF PacketsInv
<1>9. CASE msc.stage = "Data"
  <2>1. ASSUME ~msc.dir_in PROVE device'.expects = msc.left - 1
    <3>1. e = "out" /\ device.expects = msc.left /\ msc.left > 0
      BY <1>1, <1>2, <1>4, <1>9, <2>1 DEF PacketsInv, StageEndpoint
    <3>2. device' = [device EXCEPT !.expects = IF e = "out" /\ @ > 0 THEN @ - 1 ELSE @]
      BY <1>2, <1>9 DEF DeviceStep, StageItem
    <3> QED BY <1>7, <3>1, <3>2 DEF TypeInv
  <2> QED BY <1>1, <1>6, <1>9, <2>1 DEF PacketsInv
<1>10. CASE msc.stage = "Csw"
  <2>1. device' = [device EXCEPT !.csw_tag = device.tag]
    BY <1>2, <1>10 DEF DeviceStep, StageItem
  <2>2. device'.expects = device.expects
    BY <2>1 DEF TypeInv
  <2> QED BY <1>1, <1>10, <2>2 DEF PacketsInv
<1> QED BY <1>7, <1>8, <1>9, <1>10

-----------------------------------------------------------------------------
(* Theorems                                                                *)

\* Every step keeps the invariant.
LEMMA StorageStep == StorageInv /\ [StorageNext]_storageVars => StorageInv'
<1> SUFFICES ASSUME StorageInv, [StorageNext]_storageVars PROVE StorageInv'
  OBVIOUS
<1>1. TypeInv /\ ResultInv
  BY DEF StorageInv
<1>2. TypeInv' /\ ResultInv'
  BY <1>1, TypeStep, ResultStep
<1>3. ASSUME ~Lost' PROVE PlaceInv' /\ PacketsInv'
  <2>1. ~Lost
    BY <1>1, <1>3, LostStays
  <2>2. PlaceInv /\ PacketsInv
    BY <2>1 DEF StorageInv
  <2>3. CASE Host
    <3>1. msc' = msc /\ device' = device /\ HostStep
      BY <2>3 DEF Host
    <3>2. PlaceInv'
      BY <1>1, <1>3, <2>2, <3>1, CompletePlace, FailPlace, ResetPlace, ResumePlace, ControlPlace,
         ReturnPlace DEF HostStep
    <3> QED BY <1>1, <1>3, <2>1, <2>2, <3>1, <3>2, HostPackets
  <2>4. CASE \E e \in Endpoints : DeviceStep(e)
    BY <1>1, <2>2, <2>4, DevicePlace, DevicePackets
  <2>5. CASE Driver
    BY <1>1, <1>3, <2>2, <2>5, CompletedPlace, ControlCompletedPlace, RecoveredPlace, FinishPlace
    DEF Driver
  <2>6. CASE Client
    BY <1>1, <1>3, <2>2, <2>6, ClientPlace
  <2>7. CASE Still
    BY <2>2, <2>7
    DEF Still, PlaceInv, IdleInv, BusyInv, HaltInv, ResetInv, Awaited, Answering,
        Requested, Alone, AllFree, Between, Within, StageEndpoint, StageItem, PacketsInv, Taken
  <2> QED BY <2>3, <2>4, <2>5, <2>6, <2>7, StillSteps DEF StorageNext
<1> QED BY <1>2, <1>3 DEF StorageInv

\* The invariant holds in every reachable state: driver, transport and device agree
\* on where the command is, whatever transfers, requests and recoveries fail, until
\* a command is aborted or a recovery fails for good.
THEOREM StorageInvariant == StorageSpec => []StorageInv
<1>1. StorageInit => StorageInv
  <2> SUFFICES ASSUME StorageInit PROVE StorageInv
    OBVIOUS
  <2>1. TypeInv
    BY TypeInit
  <2>2. ResultInv
    BY DEF StorageInit, ResultInv
  <2>3. AllFree /\ call = NoCall /\ control = <<>> /\ Between
    BY DEF StorageInit, PipeInit, AllFree, Between
  <2>4. msc.stage = "Idle" /\ msc.phase = "Idle" /\ msc.recovery = "None" /\ msc.fin = "none"
    BY DEF StorageInit
  <2>5. PlaceInv /\ PacketsInv
    BY <2>3, <2>4 DEF PlaceInv, IdleInv, BusyInv, HaltInv, ResetInv, Awaited, PacketsInv
  <2> QED BY <2>1, <2>2, <2>5 DEF StorageInv
<1> QED BY <1>1, StorageStep, PTL DEF StorageSpec

\* Between two commands no transfer is under way, so that the client's buffer and
\* the driver's own may be used again, unless a command was aborted or a recovery
\* failed: for writes of every length and any number of retries.
THEOREM StorageFinishedIsQuiet == StorageSpec => []FinishedIsQuiet
<1>1. StorageInv => FinishedIsQuiet
  <2> SUFFICES ASSUME StorageInv, msc.stage = "Idle", call = NoCall, aborted = 0, ~Broken
               PROVE  AllFree
    BY DEF FinishedIsQuiet, AllFree
  <2>1. ~Lost
    BY DEF Lost, Doomed, NoCall
  <2> QED BY <2>1 DEF StorageInv, PlaceInv, IdleInv
<1> QED BY <1>1, StorageInvariant, PTL

\* A command that succeeds was taken by the device, also after aborts, and the
\* device has all packets of a write, unless a command was aborted or a recovery
\* failed.
THEOREM StorageOkMeansServed == StorageSpec => []OkMeansServed
<1>1. StorageInv => OkMeansServed
  <2> SUFFICES ASSUME StorageInv, msc.fin = "Ok" 
               PROVE  device.tag /\ (~msc.dir_in /\ aborted = 0 /\ ~Broken => device.expects = 0)
    BY DEF OkMeansServed
  <2>1. device.tag /\ msc.stage = "Csw"
    BY DEF StorageInv, ResultInv
  <2>2. ASSUME ~msc.dir_in, aborted = 0, ~Broken PROVE device.expects = 0
    <3>1. CASE Lost
      BY <2>2, <3>1 DEF Lost, Doomed, StorageInv, ResultInv
    <3>2. CASE ~Lost
      BY <2>1, <2>2, <3>2 DEF StorageInv, PacketsInv
    <3> QED BY <3>1, <3>2
  <2> QED BY <2>1, <2>2
<1> QED BY <1>1, StorageInvariant, PTL

=============================================================================
