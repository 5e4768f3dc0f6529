---------------------------- MODULE RuntimeEdges ----------------------------
(***************************************************************************)
(* The edges of a runtime, each a scene of its own: the hosts that start   *)
(* and stop it, the requests it serves and drains, the discovery file it   *)
(* keeps, the desktop application around it, and the telemetry it passes   *)
(* from an exporter to a client.                                           *)
(***************************************************************************)
EXTENDS RuntimeClient, RuntimeServers, StatePublishing, DesktopShell, TelemetryPassage

VARIABLE scene

vars == <<scene, clientVars, serverVars, publishVars, deskVars, passageVars>>

Init ==
    /\ scene \in {"clients", "servers", "publishing", "desktop", "passage"}
    /\ ClientInit /\ ServerInit /\ PublishInit /\ DeskInit /\ PassageInit
    \* What a scene does not show is at its simplest.
    /\ scene # "clients" => token /\ \A h \in Hosts : host[h] = Idle

OnClients(A) ==
    scene = "clients" /\ A /\ UNCHANGED <<scene, serverVars, publishVars, deskVars, passageVars>>
OnServers(A) ==
    scene = "servers" /\ A /\ UNCHANGED <<scene, clientVars, publishVars, deskVars, passageVars>>
OnPublishing(A) ==
    scene = "publishing" /\ A /\ UNCHANGED <<scene, clientVars, serverVars, deskVars, passageVars>>
OnDesktop(A) ==
    scene = "desktop" /\ A /\ UNCHANGED <<scene, clientVars, serverVars, publishVars, passageVars>>
OnPassage(A) ==
    scene = "passage" /\ A /\ UNCHANGED <<scene, clientVars, serverVars, publishVars, deskVars>>

Next ==
    \/ OnClients(ClientNext)
    \/ OnServers(ServerNext)
    \/ OnPublishing(PublishNext)
    \/ OnDesktop(DeskNext)
    \/ OnPassage(PassageNext)

\* Processes go on, calls are answered or lost, and time passes.  Of a client
\* nothing is assumed: it may leave its body half sent for good.
Fairness ==
    /\ \A d \in Daemons : WF_vars(OnClients(Progress(d)))
    /\ \A h \in Hosts : WF_vars(OnClients(Attempt(h))) /\ WF_vars(OnClients(DeadlinePasses(h)))
    /\ \A r \in Requests : WF_vars(OnServers(Handle(r)))
    /\ WF_vars(OnServers(StopNext))
    /\ WF_vars(OnDesktop(Arrivals)) /\ WF_vars(OnDesktop(Leaving))

Spec == Init /\ [][Next]_vars /\ Fairness

-----------------------------------------------------------------------------
(* Nothing hangs at its end: a command of a host ends, with a result or by  *)
(* its deadline; a close that has begun reaches its end, unless a client    *)
(* neither finishes its body nor goes away, since close() waits for its     *)
(* connection and Node no longer ends it; a desktop that quits is gone in   *)
(* the end.                                                                 *)
EndsInTime ==
    /\ \A h \in Hosts : host[h].at = "look" ~> host[h].at = "done"
    /\ \/ closing = "api" ~> closing = "closed"
       \/ \E r \in Requests : <>[](request[r].at = "reading")
    /\ app.quitting ~> app.at = "exited"
=============================================================================
