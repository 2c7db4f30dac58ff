------------------------- MODULE ForwardConnection -------------------------
(***************************************************************************)
(* One forwarded flow of the WireGuard inbound: Server.forwardConnection   *)
(* in src/proxy/wireguard/server.go.                                       *)
(*                                                                         *)
(* Actors: the forwardConnection goroutine (dispatch, task.Run, the error  *)
(* path and its defers), the request half (conn -> link.Writer), the       *)
(* response half (link.Reader -> conn), the inactivity timer, the guest    *)
(* behind the userspace TCP/IP stack and the remote side of the           *)
(* dispatcher link.  Data are counted in buffers.  task.Run, the activity  *)
(* timer and the link pipes are xray library code outside src/, modelled   *)
(* from the spec (section 4.9).                                            *)
(***************************************************************************)
EXTENDS Naturals

CONSTANTS
    GuestBuffers,     \* bound on buffers the guest writes to conn
    RemoteBuffers     \* bound on buffers the remote writes to link.Reader

ASSUME /\ GuestBuffers \in Nat
       /\ RemoteBuffers \in Nat

VARIABLES
    fpc,           \* forwardConnection: "dispatch", "run", "returned", "crashed"
    link,          \* result of Dispatch: "none", "ok", "nil"
    req, resp,     \* the two halves: "idle", "copying", "ok", "err"
    writer,        \* link.Writer: "open", "closed", "interrupted"
    reader,        \* link.Reader: "open", "interrupted"
    connClosed,    \* the deferred conn.Close() has run
    ctxCancelled,  \* ctx is done (timer fired or deferred cancel())
    phase,         \* timeout armed on the timer: "idle", "downlinkOnly", "uplinkOnly"
    active,        \* an Update since the timer's last check
    guestAvail, guestDone, guestReset,       \* guest side of conn
    remoteAvail, remoteDone, linkBroken,     \* remote side of link
    reqFwd, respFwd                          \* buffers copied by each half

vars == <<fpc, link, req, resp, writer, reader, connClosed, ctxCancelled,
          phase, active, guestAvail, guestDone, guestReset, remoteAvail,
          remoteDone, linkBroken, reqFwd, respFwd>>

guest == <<guestAvail, guestDone, guestReset>>
remote == <<remoteAvail, remoteDone, linkBroken>>

HalfStates == {"idle", "copying", "ok", "err"}
Finished(h) == h \in {"ok", "err"}

Init ==
    /\ fpc = "dispatch"
    /\ link = "none"
    /\ req = "idle" /\ resp = "idle"
    /\ writer = "open" /\ reader = "open"
    /\ connClosed = FALSE
    /\ ctxCancelled = FALSE
    /\ phase = "idle"            \* CancelAfterInactivity(ConnectionIdle)
    /\ active = FALSE
    /\ guestAvail = 0 /\ guestDone = FALSE /\ guestReset = FALSE
    /\ remoteAvail = 0 /\ remoteDone = FALSE /\ linkBroken = FALSE
    /\ reqFwd = 0 /\ respFwd = 0

-----------------------------------------------------------------------------
(* forwardConnection *)

\* Dispatch, then task.OnSuccess(requestDone, task.Close(link.Writer)) and
\* task.Run, which starts both halves.  On a Dispatch error the error is only
\* logged and link is nil, so evaluating link.Writer panics.
Dispatch ==
    /\ fpc = "dispatch"
    /\ \/ /\ link' = "ok"
          /\ fpc' = "run"
          /\ req' = "copying"
          /\ resp' = "copying"
       \/ /\ link' = "nil"
          /\ fpc' = "crashed"
          /\ UNCHANGED <<req, resp>>
    /\ UNCHANGED <<writer, reader, connClosed, ctxCancelled, phase, active,
                   guest, remote, reqFwd, respFwd>>

\* common.Interrupt on a link pipe: no effect once it is closed.
Interrupted(p) == IF p = "closed" THEN "closed" ELSE "interrupted"

\* Variant of ForwardReturn: the error path interrupts link.Writer only.
ForwardReturnNoReaderInterrupt ==
    /\ fpc = "run"
    /\ \/ req = "ok" /\ resp = "ok" /\ UNCHANGED writer
       \/ /\ (req = "err" \/ resp = "err" \/ ctxCancelled)
          /\ writer' = Interrupted(writer)
    /\ UNCHANGED reader
    /\ fpc' = "returned"
    /\ connClosed' = TRUE
    /\ ctxCancelled' = TRUE
    /\ UNCHANGED <<link, req, resp, phase, active, guest, remote, reqFwd, respFwd>>

\* task.Run returns nil once both halves succeeded, or the first error of a
\* half, or ctx.Err() when the timer cancelled ctx.  On an error both link
\* ends are interrupted; then the deferred cancel() and conn.Close() run.
ForwardReturn ==
    /\ fpc = "run"
    /\ \/ /\ req = "ok" /\ resp = "ok"
          /\ UNCHANGED <<writer, reader>>
       \/ /\ (req = "err" \/ resp = "err" \/ ctxCancelled)
          /\ reader' = "interrupted"
          /\ writer' = Interrupted(writer)
    /\ fpc' = "returned"
    /\ connClosed' = TRUE
    /\ ctxCancelled' = TRUE
    /\ UNCHANGED <<link, req, resp, phase, active, guest, remote, reqFwd, respFwd>>

\* signal.CancelAfterInactivity: each period the timer cancels ctx unless
\* an Update happened since the previous check.
TimerCheck ==
    /\ ~ctxCancelled
    /\ IF active THEN active' = FALSE /\ UNCHANGED ctxCancelled
                 ELSE ctxCancelled' = TRUE /\ UNCHANGED active
    /\ UNCHANGED <<fpc, link, req, resp, writer, reader, connClosed, phase,
                   guest, remote, reqFwd, respFwd>>

-----------------------------------------------------------------------------
(* requestDone: buf.Copy(conn, link.Writer, UpdateActivity(timer)) *)

ConnReadable == ~connClosed /\ ~guestReset

\* Variant of RequestCopy: a read that returned no buffer is forwarded as one.
RequestCopyEmptyRead ==
    /\ req = "copying"
    /\ ConnReadable /\ writer = "open" /\ ~linkBroken
    /\ reqFwd' = reqFwd + 1
    /\ active' = TRUE
    /\ UNCHANGED <<fpc, link, req, resp, writer, reader, connClosed,
                   ctxCancelled, phase, guest, remote, respFwd>>

RequestCopy ==
    /\ req = "copying"
    /\ reqFwd < guestAvail
    /\ ConnReadable /\ writer = "open" /\ ~linkBroken
    /\ reqFwd' = reqFwd + 1
    /\ active' = TRUE
    /\ UNCHANGED <<fpc, link, req, resp, writer, reader, connClosed,
                   ctxCancelled, phase, guest, remote, respFwd>>

\* The copy ends at the guest's EOF, or with an error when conn is closed or
\* reset or link.Writer is interrupted; the deferred SetTimeout(DownlinkOnly)
\* runs either way, and only on success task.Close(link.Writer) half-closes
\* the link.
RequestEnd ==
    /\ req = "copying"
    /\ \/ /\ guestDone /\ reqFwd = guestAvail /\ ConnReadable
          /\ req' = "ok"
          /\ writer' = IF writer = "open" THEN "closed" ELSE writer
       \/ /\ (~ConnReadable \/ writer = "interrupted" \/ linkBroken)
          /\ req' = "err"
          /\ UNCHANGED writer
    /\ phase' = "downlinkOnly"
    /\ UNCHANGED <<fpc, link, resp, reader, connClosed, ctxCancelled, active,
                   guest, remote, reqFwd, respFwd>>

-----------------------------------------------------------------------------
(* responseDone: buf.Copy(link.Reader, conn, UpdateActivity(timer)) *)

ResponseCopy ==
    /\ resp = "copying"
    /\ respFwd < remoteAvail
    /\ reader = "open" /\ ~linkBroken /\ ConnReadable
    /\ respFwd' = respFwd + 1
    /\ active' = TRUE
    /\ UNCHANGED <<fpc, link, req, resp, writer, reader, connClosed,
                   ctxCancelled, phase, guest, remote, reqFwd>>

\* The copy ends at the remote's EOF, or with an error when link.Reader is
\* interrupted or broken, or when a buffer cannot be written to conn; a
\* blocked read of link.Reader is not woken by conn.Close().  The deferred
\* SetTimeout(UplinkOnly) runs either way.
ResponseEnd ==
    /\ resp = "copying"
    /\ \/ /\ remoteDone /\ respFwd = remoteAvail /\ reader = "open" /\ ~linkBroken
          /\ resp' = "ok"
       \/ /\ \/ reader = "interrupted" \/ linkBroken
             \/ ~ConnReadable /\ respFwd < remoteAvail
          /\ resp' = "err"
    /\ phase' = "uplinkOnly"
    /\ UNCHANGED <<fpc, link, req, writer, reader, connClosed, ctxCancelled,
                   active, guest, remote, reqFwd, respFwd>>

-----------------------------------------------------------------------------
(* The environment: the guest and the remote end of the link *)

GuestSend ==
    /\ guestAvail < GuestBuffers /\ ~guestDone /\ ConnReadable
    /\ guestAvail' = guestAvail + 1
    /\ UNCHANGED <<guestDone, guestReset>>

GuestCloseWrite == ~guestDone /\ guestDone' = TRUE /\ UNCHANGED <<guestAvail, guestReset>>

GuestResetConn == ~guestReset /\ guestReset' = TRUE /\ UNCHANGED <<guestAvail, guestDone>>

RemoteSend ==
    /\ remoteAvail < RemoteBuffers /\ ~remoteDone /\ ~linkBroken
    /\ reader = "open"
    /\ remoteAvail' = remoteAvail + 1
    /\ UNCHANGED <<remoteDone, linkBroken>>

RemoteClose == ~remoteDone /\ remoteDone' = TRUE /\ UNCHANGED <<remoteAvail, linkBroken>>

RemoteAbort == ~linkBroken /\ linkBroken' = TRUE /\ UNCHANGED <<remoteAvail, remoteDone>>

Environment ==
    /\ \/ (GuestSend \/ GuestCloseWrite \/ GuestResetConn) /\ UNCHANGED remote
       \/ (RemoteSend \/ RemoteClose \/ RemoteAbort) /\ UNCHANGED guest
    /\ UNCHANGED <<fpc, link, req, resp, writer, reader, connClosed,
                   ctxCancelled, phase, active, reqFwd, respFwd>>

-----------------------------------------------------------------------------

Next ==
    \/ Dispatch \/ ForwardReturn \/ TimerCheck
    \/ RequestCopy \/ RequestEnd
    \/ ResponseCopy \/ ResponseEnd
    \/ Environment

\* Every goroutine of the flow (forwardConnection, both halves, the timer's
\* periodic check) is eventually scheduled when it can run.  The guest and
\* the remote owe nothing: they may go silent forever.
Spec ==
    /\ Init /\ [][Next]_vars
    /\ WF_vars(Dispatch) /\ WF_vars(ForwardReturn) /\ WF_vars(TimerCheck)
    /\ WF_vars(RequestCopy) /\ WF_vars(RequestEnd)
    /\ WF_vars(ResponseCopy) /\ WF_vars(ResponseEnd)

-----------------------------------------------------------------------------
(* Properties *)

TypeOK ==
    /\ fpc \in {"dispatch", "run", "returned", "crashed"}
    /\ link \in {"none", "ok", "nil"}
    /\ req \in HalfStates /\ resp \in HalfStates
    /\ writer \in {"open", "closed", "interrupted"}
    /\ reader \in {"open", "interrupted"}
    /\ {connClosed, ctxCancelled, active, guestDone, guestReset, remoteDone,
        linkBroken} \subseteq BOOLEAN
    /\ phase \in {"idle", "downlinkOnly", "uplinkOnly"}
    /\ guestAvail \in 0..GuestBuffers /\ reqFwd \in 0..guestAvail
    /\ remoteAvail \in 0..RemoteBuffers /\ respFwd \in 0..remoteAvail

\* Every dispatched flow ends: whatever the guest and the remote do,
\* including going silent forever, forwardConnection returns, conn is
\* closed and neither copy goroutine is left blocked on conn or on the link.
FlowReleased ==
    (fpc = "run") ~> (fpc = "returned" /\ connClosed /\ Finished(req) /\ Finished(resp))

\* A Dispatch error never brings the process down (spec section 7: the
\* error is logged and the flow pipeline still runs).
NoNilLinkDereference ==
    fpc # "crashed"

=============================================================================
