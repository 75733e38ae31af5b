--------------------------- MODULE DesktopGateway ---------------------------
(***************************************************************************)
(* GatewayManager of the desktop host                                        *)
(* (desktop/src-tauri/src/gateway_manager.rs): the gateway as a sidecar       *)
(* process, started by a thread of the application's setup and again by the  *)
(* user's restart.  A start keeps the manager's mutex while it waits, up to   *)
(* 15 seconds, for the line in which the sidecar says where it listens.       *)
(***************************************************************************)
EXTENDS Naturals, Sequences

CONSTANT MaxSidecars    \* sidecars started

VARIABLES sidecar,      \* alive or not, for each sidecar started
          gw,           \* the manager: child (0 when None), state, api_url (whose)
          starting,     \* the start that holds the mutex: who asked, where it is
          setup         \* the setup thread: "pending", "running" or "over"

gwVars == <<sidecar, gw, starting, setup>>

NoStart == [by |-> "nobody", at |-> "none"]

GwInit ==
  /\ sidecar = <<>> /\ starting = NoStart /\ setup = "pending"
  /\ gw = [child |-> 0, state |-> "stopped", url |-> 0]

Kill(s) == IF s = 0 THEN sidecar ELSE [sidecar EXCEPT ![s] = FALSE]

\* stop
StopGateway ==
  /\ starting = NoStart
  /\ sidecar' = Kill(gw.child)
  /\ gw' = [child |-> 0, state |-> "stopped", url |-> 0]

\* start: whatever runs is stopped first.
GatewayStarts(who) ==
  /\ starting = NoStart
  /\ sidecar' = Kill(gw.child)
  /\ gw' = [child |-> 0, state |-> "starting", url |-> 0]
  /\ starting' = [by |-> who, at |-> "spawn"]
SetupStarts == setup = "pending" /\ GatewayStarts("setup") /\ setup' = "running"
\* restart knows where to start from only when a start was begun before.
RestartGateway == setup # "pending" /\ GatewayStarts("restart") /\ UNCHANGED setup

SetupOver == setup' = IF starting.by = "setup" THEN "over" ELSE setup

\* No directory, no program, or no process.
SpawnFails ==
  /\ starting.at = "spawn"
  /\ gw' = [gw EXCEPT !.state = "failed"] /\ starting' = NoStart
  /\ SetupOver /\ UNCHANGED sidecar
Spawns ==
  /\ starting.at = "spawn" /\ Len(sidecar) < MaxSidecars
  /\ sidecar' = Append(sidecar, TRUE)
  /\ starting' = [starting EXCEPT !.at = "wait"]
  /\ UNCHANGED <<gw, setup>>

\* The readiness line came and is a good one.
BecomesReady ==
  /\ starting.at = "wait" /\ sidecar[Len(sidecar)]
  /\ gw' = [child |-> Len(sidecar), state |-> "ready", url |-> Len(sidecar)]
  /\ starting' = NoStart /\ SetupOver /\ UNCHANGED sidecar

\* It is not, or the pipe ended, or it did not come in time.
ReadinessFailsLeaves == \* mutant: a sidecar that is not ready in time is left alone
  /\ starting.at = "wait"
  /\ gw' = [gw EXCEPT !.state = "failed"]
  /\ starting' = NoStart /\ SetupOver /\ UNCHANGED sidecar
ReadinessFails ==
  /\ starting.at = "wait"
  /\ sidecar' = Kill(Len(sidecar))
  /\ gw' = [gw EXCEPT !.state = "failed"]
  /\ starting' = NoStart /\ SetupOver

StartGoesOn == SpawnFails \/ Spawns \/ BecomesReady \/ ReadinessFails

\* status: the address of a sidecar that exited is kept.
Exited == gw.child # 0 /\ ~sidecar[gw.child]
Asked == IF Exited THEN [gw EXCEPT !.child = 0, !.state = "failed"] ELSE gw
GatewayStatus == starting = NoStart /\ gw' = Asked /\ UNCHANGED <<sidecar, starting, setup>>

SidecarDies(s) ==
  /\ sidecar[s] /\ sidecar' = [sidecar EXCEPT ![s] = FALSE]
  /\ UNCHANGED <<gw, starting, setup>>

Sidecars == {s \in DOMAIN sidecar : sidecar[s]}
\* The sidecar a start in progress has spawned and not yet handed over.
InHand == IF starting.at = "wait" THEN {Len(sidecar)} ELSE {}
=============================================================================
