------------------------------- MODULE Adapters -------------------------------
(***************************************************************************)
(* The backend adapters behind the dispatcher (internal/backend, and       *)
(* buildBackend and delayedAdapter in cmd/hermes-voice/main.go): what an   *)
(* adapter does between the start of backend[r] and BackendReturns(r).     *)
(*                                                                         *)
(* The Hermes CLI adapter runs one process per request under a context     *)
(* that ends with the dispatcher's invokeCtx or, when --hermes-timeout is  *)
(* given, at its own deadline.  The static adapter answers after a delay   *)
(* and only looks at its context.                                          *)
(*                                                                         *)
(* The process and the part of os/exec that watches it are not in the      *)
(* repository: Start looks at the context before it forks; once it is done *)
(* the process is killed; Wait prefers the process's own failure to the    *)
(* context's error, and waits until stdout is closed.  "interrupted" is a  *)
(* process that had exited with 0 by itself when the kill reached it.      *)
(***************************************************************************)
EXTENDS Dispatch

CONSTANTS
  Backends,  \* the --backend modes a server may be started with
  Timeouts   \* whether with --hermes-timeout or without

ASSUME AdapterConstants ==
  /\ Backends \subseteq {"static", "hermes-cli"}
  /\ Timeouts \subseteq BOOLEAN
  /\ {"completed", "canceled", "temporary", "invocation_failed"} \subseteq Outcomes

VARIABLES
  mode,           \* cfg.BackendMode
  hermesTimeout,  \* cfg.HermesTimeout > 0
  proc,           \* proc[r]: the Hermes process of request r
  expired         \* expired[r]: the adapter's deadline came before anything
                  \* else ended its context

adapterVars == <<mode, hermesTimeout, proc, expired>>

Exited == {"answered", "unusable", "nonzero"}
Ended  == Exited \cup {"killed", "interrupted"}

AdapterTypeOK ==
  /\ mode \in Backends
  /\ hermesTimeout \in Timeouts
  /\ proc \in [Requests -> {"none", "running"} \cup Ended]
  /\ expired \in [Requests -> BOOLEAN]

AdapterInit ==
  /\ mode \in Backends
  /\ hermesTimeout \in Timeouts
  /\ proc = [r \in Requests |-> "none"]
  /\ expired = [r \in Requests |-> FALSE]

Adapter(r, m) == mode = m /\ backend[r] = "running"

(* Mutation of CtxDone: the timed context of line 72 is lost.              *)
CtxDoneUntimed(r) == invokeDone[r]

(* The context the process runs under is done.                             *)
CtxDone(r) == invokeDone[r] \/ expired[r]

Returns(r, o) ==
  /\ BackendReturns(r)
  /\ outcome'[r] = o

-----------------------------------------------------------------------------
(* staticAdapter: the response, unless the context is already done.        *)
StaticInvoke(r) ==
  \/ Returns(r, "completed")
  \/ invokeDone[r] /\ Returns(r, "canceled")

(* delayedAdapter: the same after a delay, or ctx.Err() during it.         *)
StaticReturns(r) ==
  /\ Adapter(r, "static")
  /\ StaticInvoke(r) \/ (invokeDone[r] /\ Returns(r, "canceled"))
  /\ UNCHANGED adapterVars

(* context.WithTimeout, line 71: the deadline passes.                      *)
Expire(r) ==
  /\ Adapter(r, "hermes-cli")
  /\ hermesTimeout
  /\ ~CtxDone(r)
  /\ expired' = [expired EXCEPT ![r] = TRUE]
  /\ UNCHANGED <<mode, hermesTimeout, proc, vars>>

(* cmd.Start: the context's error, or a command that cannot be run.        *)
StartFails(r) ==
  /\ Adapter(r, "hermes-cli")
  /\ proc[r] = "none"
  /\ \/ CtxDone(r) /\ Returns(r, "temporary")
     \/ Returns(r, IF expired[r] THEN "temporary" ELSE "invocation_failed")
  /\ UNCHANGED adapterVars

StartProcess(r) ==
  /\ Adapter(r, "hermes-cli")
  /\ proc[r] = "none"
  /\ ~CtxDone(r)
  /\ proc' = [proc EXCEPT ![r] = "running"]
  /\ UNCHANGED <<mode, hermesTimeout, expired, vars>>

(* With an answer on stdout, with none or with too much, or in failure.    *)
ProcessExits(r) ==
  /\ Adapter(r, "hermes-cli")
  /\ proc[r] = "running"
  /\ \E s \in Exited : proc' = [proc EXCEPT ![r] = s]
  /\ UNCHANGED <<mode, hermesTimeout, expired, vars>>

Kill(r) ==
  /\ Adapter(r, "hermes-cli")
  /\ CtxDone(r)
  /\ \/ proc[r] = "running" /\ proc' = [proc EXCEPT ![r] = "killed"]
     \/ proc[r] \in {"answered", "unusable"} /\ proc' = [proc EXCEPT ![r] = "interrupted"]
  /\ UNCHANGED <<mode, hermesTimeout, expired, vars>>

(* Mutation of ClassOf: what a killed process has printed is its answer.   *)
ClassOfOutput(s) ==
  IF s = "interrupted" THEN "temporary"
  ELSE IF s \in {"answered", "killed"} THEN "completed" ELSE "invocation_failed"

(* runCommand and lines 80-102: an *exec.ExitError is dropped for the exit *)
(* code, which is looked at before the output.                             *)
ClassOf(s) ==
  IF s = "interrupted" THEN "temporary"
  ELSE IF s = "answered" THEN "completed" ELSE "invocation_failed"

CommandReturns(r) ==
  /\ Adapter(r, "hermes-cli")
  /\ proc[r] \in Ended
  /\ Returns(r, ClassOf(proc[r]))
  /\ UNCHANGED adapterVars

AdapterStep(r) ==
  \/ StaticReturns(r) \/ Expire(r)
  \/ StartFails(r) \/ StartProcess(r) \/ ProcessExits(r) \/ Kill(r) \/ CommandReturns(r)

(***************************************************************************)
(* Timers fire, a kill is carried out and a command that has ended is      *)
(* reaped (so nothing that outlives the process keeps its stdout open).    *)
(* Nothing makes the process itself come to an end.                        *)
(***************************************************************************)
AdapterFairness ==
  \A r \in Requests :
    /\ WF_<<vars, adapterVars>>(StaticReturns(r))
    /\ WF_<<vars, adapterVars>>(Expire(r))
    /\ WF_<<vars, adapterVars>>(StartFails(r) \/ StartProcess(r))
    /\ WF_<<vars, adapterVars>>(Kill(r))
    /\ WF_<<vars, adapterVars>>(CommandReturns(r))
=============================================================================
