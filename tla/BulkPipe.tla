------------------------------- MODULE BulkPipe -------------------------------
(***************************************************************************)
(* What a USB host controller driver promises its class driver about bulk  *)
(* endpoints (USBHostDevice::BulkTransfer and the callbacks of             *)
(* USBHostClass): one transfer at a time per endpoint, one callback for    *)
(* it, and a recovery that starts with a callback without a buffer,        *)
(* waits for the class driver to clear the halt at the device, and ends    *)
(* with OnBulkRecoveryCompleted.  Control requests complete in order, up   *)
(* to the first that fails: it halts the default pipe, which nothing       *)
(* resets, and no later one completes.                                     *)
(* Rings, events and commands are in XhciBulk, which implements this.      *)
(***************************************************************************)
EXTENDS Naturals, Sequences

CONSTANTS
    Endpoints,    \* bulk endpoints of the device
    InEndpoints,  \* those that receive: only they complete short
    Items,        \* buffers
    NoItem,       \* the null pointer
    Sizes,        \* lengths of a transfer
    Requests,     \* control requests, "ClearHalt" among them
    MaxControl    \* bound: control requests under way

VARIABLES
    xfer,     \* the endpoint's transfer
    control,  \* control requests under way, oldest first
    halted,   \* the default pipe is halted
    call,     \* the running call of the class driver
    broken    \* a recovery of the endpoint failed

pipeVars == <<xfer, control, halted, call, broken>>

\* `active' until the transfer is over or fails; then the stages of a recovery.
NoXfer == [phase |-> "free", item |-> NoItem, size |-> 0, served |-> FALSE]

\* A call of the class driver: success, buffer (or control request) and length
\* as the callback passes them, `done' and `err' once it has returned.
NoCall == [fn |-> "none", done |-> FALSE]
CallOf(fn, e, ok, item, len) ==
    [fn |-> fn, ep |-> e, ok |-> ok, item |-> item, len |-> len, done |-> FALSE, err |-> FALSE]

Call(fn, e, ok, item, len) == call' = CallOf(fn, e, ok, item, len)
Free(e) == xfer' = [xfer EXCEPT ![e] = NoXfer]
Enter(e, phase) == xfer' = [xfer EXCEPT ![e].phase = phase]
Break(e) == broken' = [broken EXCEPT ![e] = TRUE]

PipeInit ==
    /\ xfer = [e \in Endpoints |-> NoXfer]
    /\ control = <<>> /\ halted = FALSE /\ call = NoCall
    /\ broken = [e \in Endpoints |-> FALSE]

-----------------------------------------------------------------------------
(* The host                                                                *)

\* The device takes or fills the whole buffer, or ends the transfer short.
Serve(e) ==
    /\ xfer[e].phase = "active" /\ ~xfer[e].served
    /\ xfer' = [xfer EXCEPT ![e].served = TRUE]
    /\ UNCHANGED <<control, halted, call, broken>>

\* OnBulkCompleted with a buffer
Complete(e, len) ==
    /\ call = NoCall /\ xfer[e].phase = "active" /\ (xfer[e].served \/ broken[e])
    /\ len <= xfer[e].size /\ (e \notin InEndpoints => len = xfer[e].size)
    /\ Call("Completed", e, TRUE, xfer[e].item, len)
    /\ Free(e)
    /\ UNCHANGED <<control, halted, broken>>

\* The transfer failed: the endpoint is being reset.
Fail(e) ==
    /\ call = NoCall /\ xfer[e].phase = "active" /\ (~xfer[e].served \/ broken[e])
    /\ Enter(e, "reset")
    /\ UNCHANGED <<control, halted, call, broken>>

\* OnBulkCompleted without a buffer, or OnBulkRecoveryCompleted(false)
ResetEnds(e) ==
    /\ call = NoCall /\ xfer[e].phase = "reset"
    /\ \/ Enter(e, "clear") /\ Call("ResetDone", e, TRUE, NoItem, 0) /\ UNCHANGED broken
       \/ Free(e) /\ Break(e) /\ Call("Recovered", e, FALSE, NoItem, 0)
    /\ UNCHANGED <<control, halted>>

\* OnControlCompleted; a recovery waits for the one that clears its halt.  The
\* pipe is halted by a request that fails; by a good one's end, if the next has
\* failed in silence by then.
ControlEnds ==
    /\ call = NoCall /\ control # <<>> /\ ~halted
    /\ LET c == Head(control)
           recovers == c.req = "ClearHalt" /\ xfer[c.ep].phase = "clear"
       IN  \E ok \in BOOLEAN :
              /\ Call(IF recovers THEN "ClearHaltDone" ELSE "ControlDone", c.ep, ok, c.req, 0)
              /\ halted' \in {~ok, TRUE}
    /\ control' = Tail(control)
    /\ UNCHANGED <<xfer, broken>>

\* The oldest request fails in a stage of which the driver is not told.
FailsInSilence ==
    /\ control # <<>> /\ ~halted
    /\ halted' = TRUE
    /\ UNCHANGED <<xfer, control, call, broken>>

\* OnBulkRecoveryCompleted
ResumeEnds(e) ==
    /\ call = NoCall /\ xfer[e].phase = "resume"
    /\ Free(e)
    /\ \E ok \in BOOLEAN :
          /\ Call("Recovered", e, ok, NoItem, 0)
          /\ IF ok THEN UNCHANGED broken ELSE Break(e)
    /\ UNCHANGED <<control, halted>>

\* The class driver's callback has returned: a recovery goes on from a cleared
\* halt, or is given up with the error.
Return ==
    LET e == call.ep IN
    /\ call # NoCall /\ call.done
    /\ \/ /\ \/ call.fn \in {"Completed", "Recovered", "ControlDone"}
             \/ call.fn = "ResetDone" /\ ~call.err
          /\ call' = NoCall
          /\ UNCHANGED <<xfer, broken>>
       \/ /\ \/ call.fn = "ResetDone" /\ call.err
             \/ call.fn = "ClearHaltDone" /\ (~call.ok \/ call.err)
          /\ Free(e) /\ Break(e)
          /\ call' = NoCall
       \/ /\ call.fn = "ClearHaltDone" /\ call.ok /\ ~call.err
          /\ \/ Enter(e, "resume") /\ call' = NoCall /\ UNCHANGED broken
             \/ Free(e) /\ Break(e) /\ Call("Recovered", e, FALSE, NoItem, 0)
    /\ UNCHANGED <<control, halted>>

HostStep ==
    \/ \E e \in Endpoints :
          \/ \E len \in 0 .. xfer[e].size : Complete(e, len)
          \/ Fail(e) \/ ResetEnds(e) \/ ResumeEnds(e)
    \/ ControlEnds \/ Return

-----------------------------------------------------------------------------
(* The class driver, between two calls or while it is called               *)

CanSubmit == ~call.done

\* BulkTransfer; with a transfer under way it answers Full.
Accepts(e) == xfer[e].phase = "free"
Submit(e, item, size) ==
    /\ Accepts(e)
    /\ xfer' = [xfer EXCEPT ![e] = [phase |-> "active", item |-> item, size |-> size,
                                    served |-> FALSE]]

Send(req, e) == control' = Append(control, [req |-> req, ep |-> e])

PipeNext ==
    \/ \E e \in Endpoints : Serve(e)
    \/ HostStep
    \/ FailsInSilence
    \/ \E e \in Endpoints, item \in Items, size \in Sizes :
          CanSubmit /\ Submit(e, item, size) /\ UNCHANGED <<control, halted, call, broken>>
    \/ \E e \in Endpoints, req \in Requests :
          /\ CanSubmit /\ Len(control) < MaxControl /\ Send(req, e)
          /\ UNCHANGED <<xfer, halted, call, broken>>
    \/ \E err \in BOOLEAN :
          /\ call # NoCall /\ ~call.done
          /\ call' = [call EXCEPT !.done = TRUE, !.err = err]
          /\ UNCHANGED <<xfer, control, halted, broken>>

PipeSpec == PipeInit /\ [][PipeNext]_pipeVars

=============================================================================
