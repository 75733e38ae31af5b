------------------------------ MODULE Desktop ------------------------------
(***************************************************************************)
(* The desktop application (desktop/src-tauri/src/lib.rs): its managers, the  *)
(* commands the user interface sends to them, the setup thread, and what is   *)
(* done when the application ends.                                            *)
(*                                                                           *)
(* The commands are plain functions, which Tauri runs on the main thread one  *)
(* after another; so are the two events at the end, ExitRequested and Exit.   *)
(* Beside them run the setup thread, the reader threads and the processes.    *)
(* A behaviour exercises one group of the commands, chosen at its start       *)
(* (focus): the groups share only the gateway, the exit and the main thread.  *)
(***************************************************************************)
EXTENDS DesktopRuntime, DesktopGateway, Approvals, DesktopStores

CONSTANT MaxRestarts    \* restarts of the gateway asked for

VARIABLES focus,        \* one of the groups Foci
          leaving,      \* steps of the end done: 2 for each of the two events
          late,         \* the setup thread began after the last stop of the gateway
          restarts      \* restarts asked for

Foci == {"model", "gateway", "agent", "search", "texts", "plugins", "log"}
desktop == <<focus, leaving, late, restarts>>
allVars == <<rtVars, gwVars, apVars, dsVars, desktop>>

Init ==
  /\ RtInit /\ GwInit /\ ApInit /\ DsInit
  /\ focus \in Foci
  /\ leaving = 0 /\ late = FALSE /\ restarts = 0

\* The application is gone when both events have been handled.
Gone == leaving = 4
\* The main thread can take a command: it is in none, and not in a handler.
MainFree == cmd = NoCmd /\ starting.by # "restart" /\ leaving \in {0, 2}

On(f) == focus = f /\ ~Gone
RtRest == UNCHANGED <<gwVars, apVars, dsVars, desktop>>
GwRest == UNCHANGED <<rtVars, apVars, dsVars, focus, leaving>>
ApRest == UNCHANGED <<rtVars, gwVars, dsVars, desktop>>

RuntimeCommand   == On("model") /\ MainFree /\ CommandBegins /\ RtRest
RuntimeGoesOn    == On("model") /\ CommandGoesOn /\ RtRest
ReaderRuns(p)    == On("model") /\ p \in DOMAIN proc /\ ReaderStep(p) /\ RtRest
EngineRuns(p)    == On("model") /\ p \in DOMAIN proc /\ EngineStep(p) /\ RtRest
EngineFails(p)   == On("model") /\ p \in DOMAIN proc /\ EngineDies(p) /\ RtRest

\* The setup thread: started before the first event, it may run at any time.
SetupThread ==
  /\ focus \in {"gateway", "search"} /\ ~Gone /\ SetupStarts
  /\ late' = (leaving >= 3) /\ UNCHANGED restarts /\ GwRest
GatewayGoesOn  == ~Gone /\ StartGoesOn /\ UNCHANGED <<late, restarts>> /\ GwRest
GatewayCommand ==
  /\ On("gateway") /\ MainFree
  /\ \/ GatewayStatus /\ UNCHANGED restarts
     \/ RestartGateway /\ restarts < MaxRestarts /\ restarts' = restarts + 1
  /\ UNCHANGED late /\ GwRest
GatewayFails(s) == ~Gone /\ s \in DOMAIN sidecar /\ SidecarDies(s)
                   /\ UNCHANGED <<late, restarts>> /\ GwRest

PolicyCommand ==
  /\ focus \in {"agent", "search"} /\ ~Gone /\ MainFree /\ ApRest
  /\ \/ \E m \in {"plan", "agent"} : SetExecutionMode(m)
     \/ \E r \in Roots : SetWorkspaceRoot(r)
     \/ \E a \in Actions : focus = "agent" /\ a.tool # "web_search" /\ ToolCall(a)
ClockTicks == focus \in {"agent", "search"} /\ ~Gone /\ TimePasses /\ ApRest

\* web_search: the policy's mutex is given back before the gateway is asked for
\* its address, so an approval is spent also when there is none.
WebSearch ==
  /\ focus \in {"agent", "search"} /\ ~Gone /\ MainFree
  /\ \E a \in Actions :
       /\ a.tool = "web_search"
       /\ \/ NeedsApproval("desktop-internet", a) /\ UNCHANGED gwVars
          \/ \E t \in offered :
               \/ Refused("desktop-internet", a, t) /\ UNCHANGED gwVars
               \/ /\ GatewayStatus
                  /\ Tried("desktop-internet", a, t, gw'.url # 0 /\ sidecar[gw'.url])
  /\ UNCHANGED <<rtVars, dsVars, desktop>>

StoreCommand ==
  /\ ~Gone /\ UNCHANGED <<rtVars, gwVars, apVars, desktop>>
  /\ \/ focus = "texts"   /\ TextCommand
     \/ focus = "plugins" /\ PluginCommand
     \/ focus = "log"     /\ RecordError
     \/ FileStep \/ CutShort

\* ExitRequested, then Exit: each stops the gateway, then the model.
LeaveOnRequestOnly ==   \* mutant: the second event is not handled
  /\ cmd = NoCmd /\ starting.by # "restart" /\ ~Gone
  /\ leaving' = leaving + 1
  /\ CASE leaving = 0 -> StopGateway /\ UNCHANGED <<rtVars, setup, starting>>
       [] leaving = 1 -> StopModel /\ UNCHANGED <<cmd, tracked, sentTo, cancelled, ended, gwVars>>
       [] OTHER -> UNCHANGED <<rtVars, gwVars>>
  /\ UNCHANGED <<apVars, dsVars, focus, late, restarts>>
Leave ==
  /\ cmd = NoCmd /\ starting.by # "restart" /\ ~Gone
  /\ leaving' = leaving + 1
  /\ \/ leaving \in {0, 2} /\ StopGateway /\ UNCHANGED <<rtVars, setup, starting>>
     \/ /\ leaving \in {1, 3} /\ StopModel
        /\ UNCHANGED <<cmd, tracked, sentTo, cancelled, ended, gwVars>>
  /\ UNCHANGED <<apVars, dsVars, focus, late, restarts>>
Leaves == focus \in {"model", "gateway"} /\ Leave

Next ==
  \/ RuntimeCommand \/ RuntimeGoesOn
  \/ \E p \in 1 .. MaxProcs : ReaderRuns(p) \/ EngineRuns(p) \/ EngineFails(p)
  \/ SetupThread \/ GatewayGoesOn \/ GatewayCommand
  \/ \E s \in 1 .. MaxSidecars : GatewayFails(s)
  \/ PolicyCommand \/ ClockTicks \/ WebSearch
  \/ StoreCommand
  \/ Leaves

(* Fairness: the main thread goes on with a command, the readers read, and    *)
(* the processes compute.  Nobody need send a command or quit.                 *)
Spec == Init /\ [][Next]_allVars
FairSpec ==
  /\ Spec
  /\ WF_allVars(RuntimeGoesOn)
  /\ \A p \in 1 .. MaxProcs : WF_allVars(ReaderRuns(p)) /\ WF_allVars(EngineRuns(p))

(***************************************************************************)
(* Properties.                                                              *)
(***************************************************************************)

\* Commands and prompts end.  Every command of the interface returns, although a
\* write may wait for a process that waits for its reader, and every prompt handed
\* over whole is answered by a done or an error event, unless its process or the
\* application is gone first.
PromptsEnd ==
  /\ (cmd # NoCmd) ~> (cmd = NoCmd)
  /\ \A r \in Prompts :
       (sentTo[r] # 0) ~> (r \in ended \/ sentTo[r] \notin Living)

\* What is shown is true.  When no thread still reads from a process that was
\* replaced, a poll tells whether the managed process runs, whatever the readers
\* of earlier processes did to the shared status before.
StatusSettles ==
  [][(cmd = NoCmd /\ focus = "model" /\ MainFree /\ Poll /\ NoStragglers)
       => (status'.running <=> (child # 0 /\ proc[child].alive))]_allVars

\* No process is lost.  A qwnrun that lives is the one managed, a sidecar that
\* lives is the one managed or in the hands of the start that spawned it, and
\* when the application is gone none lives, unless the setup thread began only
\* after the gateway had been stopped for the last time.
NothingIsLost ==
  /\ Living \subseteq {child}
  /\ Sidecars \subseteq {gw.child} \cup InHand
  /\ Gone => /\ Living = {}
             /\ Sidecars # {} => late

\* Every mutation was approved.  Each was allowed by a token issued for the same
\* session, tool, args_hash and folder, in agent mode, young enough, and no token
\* allowed two, whatever changes of mode and folder lie between.  What the hash
\* covers whole is therefore what was approved: the file that is written or edited
\* and the query of a search, though not the text or the working directory
\* (ExactArguments).
Covered(a) ==
  CASE a.tool \in {"write_file", "edit_file"} -> a.path
    [] a.tool = "web_search" -> a.query
    [] OTHER -> "nothing"
MutationsAreApproved ==
  \A i \in DOMAIN acts :
    /\ ~acts[i].late /\ acts[i].did.mode = "agent"
    /\ issued[acts[i].token] = acts[i].did
    /\ asked[acts[i].token].tool = acts[i].call.tool
    /\ Covered(asked[acts[i].token]) = Covered(acts[i].call)
    /\ \A j \in DOMAIN acts : acts[i].token = acts[j].token => i = j

\* What docs/security-model.md:20-21 says of the tokens: "single-use approval
\* tokens whose hash covers the exact arguments and workspace".  The tool that runs
\* is given the arguments the token was issued for.
ExactArguments ==
  \A i \in DOMAIN acts : acts[i].call = asked[acts[i].token]

\* What was stored is there.  A session, the memory and the registry hold the last
\* value stored, or, after a command cut short, that or the value it was storing;
\* on Windows such a command may leave no file.  The package on disk is the one
\* the registry names unless an installation or removal was cut short, a
\* quarantined plugin is not enabled, and the two logs together are an unbroken run
\* of the last records written, all of them or more than a log full.
LastRecords(log) ==
  LET records == {i \in DOMAIN log : log[i] # 0} IN
  /\ \A i, j \in records : i < j => log[i] < log[j]
  /\ \A i \in records : /\ log[i] <= Len(written)
                     /\ \A n \in log[i] .. Len(written) : \E j \in records : log[j] = n
StoresHold ==
  /\ \A f \in Stored : disk[f] \in may[f]
  /\ ~cut => /\ disk["manifest"] = disk["package"]
             /\ disk["package"].version = Entry.version
  /\ ~(Entry.enabled /\ Entry.quarantined)
  /\ LastRecords(disk["log.1"] \o disk["log"])
  /\ \/ Len(disk["log.1"]) + Len(disk["log"]) > LogLimit
     \/ \A n \in 1 .. Len(written) : \E i \in DOMAIN disk["log"] : disk["log"][i] = n
=============================================================================
