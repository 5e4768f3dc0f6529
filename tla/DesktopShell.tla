---------------------------- MODULE DesktopShell ----------------------------
(***************************************************************************)
(* The desktop application (apps/desktop): its main process between the    *)
(* runtime, its window and the ways to leave it, main/index.ts with        *)
(* windowLifecycle.ts, and the settings the window shows, renderer/hooks.ts.*)
(* Every answer of the runtime takes two steps: it is read there, and      *)
(* later it arrives.  A window that is hidden goes on as it was, so that    *)
(* whether it can be seen is left out.                                     *)
(***************************************************************************)
EXTENDS Naturals

CONSTANTS
    NoAnswer,       \* nothing asked, or nothing shown yet
    Asked,          \* asked, and not yet read by the runtime
    Background,     \* the revisions of the settings that keep the app running without its window
    MaxSettings,    \* bound: changes of the settings
    MaxReloads      \* bound: reloads of the window

ASSUME DeskAssumption == NoAnswer \notin Nat /\ Asked \notin Nat /\ NoAnswer # Asked

VARIABLES
    backend,    \* the runtime: whether it runs, and the revision of its settings
    app,        \* the main process
    signal,     \* a settings signal is on its way
    refresh,    \* refreshControls: its answer and whether it is to run again
    saved,      \* the answer to an update the window has asked for
    window,     \* the window: its loading, what it shows and its opening read
    overtaken,  \* history: the app, or the window, took an older answer after a newer one
    newest,     \* history: the newest revision broadcast so far
    untold      \* history: the newest revision at a refresh that failed

deskVars == <<backend, app, signal, refresh, saved, window, overtaken, newest, untold>>

NoWindow == [load |-> "none", mounted |-> FALSE, shows |-> NoAnswer, read |-> NoAnswer, reloads |-> 0]

DeskInit ==
    /\ backend = [up |-> TRUE, settings |-> 0]
    /\ app = [at |-> "starting", settings |-> 0, pendingShow |-> FALSE, quitting |-> FALSE,
              full |-> FALSE, shutdown |-> FALSE]
    /\ signal = FALSE
    /\ refresh = [answer |-> NoAnswer, again |-> FALSE]
    /\ saved = NoAnswer
    /\ window = NoWindow
    /\ overtaken = [app |-> FALSE, window |-> FALSE]
    /\ newest = 0 /\ untold = 0

Running == app.at \in {"starting", "ready"}

-----------------------------------------------------------------------------
(* Broadcasts.  A window whose frame is not ready is passed over, and one    *)
(* that is not mounted yet does not listen.                                 *)

Broadcast(s) ==
    /\ app' = [app EXCEPT !.settings = s]
    /\ window' = IF window.load = "loaded" /\ window.mounted THEN [window EXCEPT !.shows = s] ELSE window
    /\ overtaken' = [app |-> s < newest, window |-> s < newest \/ window.load = "loading"]
    /\ newest' = IF s > newest THEN s ELSE newest

\* Another client changes the settings; the event stream will say so.
ChangeSettings ==
    /\ backend.up /\ backend.settings < MaxSettings
    /\ backend' = [backend EXCEPT !.settings = @ + 1]
    /\ signal' = TRUE
    /\ UNCHANGED <<app, refresh, saved, window, overtaken, newest, untold>>

\* A signal during a refresh is taken to be answered by it.
SignalOnce ==
    /\ signal /\ app.at = "ready"
    /\ signal' = FALSE
    /\ refresh' = IF refresh.answer = NoAnswer THEN [refresh EXCEPT !.answer = Asked] ELSE refresh
    /\ UNCHANGED <<backend, app, saved, window, overtaken, newest, untold>>

\* refreshControls: one run, and one more for whatever came meanwhile.
Signal ==
    /\ signal /\ app.at = "ready"
    /\ signal' = FALSE
    /\ refresh' = IF refresh.answer = NoAnswer THEN [refresh EXCEPT !.answer = Asked]
                                               ELSE [refresh EXCEPT !.again = TRUE]
    /\ UNCHANGED <<backend, app, saved, window, overtaken, newest, untold>>

RefreshRead ==
    /\ refresh.answer = Asked /\ backend.up
    /\ refresh' = [refresh EXCEPT !.answer = backend.settings]
    /\ UNCHANGED <<backend, app, signal, saved, window, overtaken, newest, untold>>

\* The finally runs after an answer and after a failure.
RefreshOver == refresh' = [answer |-> IF refresh.again THEN Asked ELSE NoAnswer, again |-> FALSE]

RefreshEnds ==
    /\ refresh.answer \notin {NoAnswer, Asked}
    /\ Broadcast(refresh.answer)
    /\ RefreshOver
    /\ UNCHANGED <<backend, signal, saved, untold>>

\* The runtime is gone or overloaded, a call times out, or an answer is refused:
\* that is logged, and not tried again.
RefreshFails ==
    /\ refresh.answer # NoAnswer
    /\ RefreshOver
    /\ untold' = backend.settings
    /\ UNCHANGED <<backend, app, signal, saved, window, overtaken, newest>>

\* updateSettings of the window: a conflict changes nothing and is not broadcast.
SaveSettings ==
    /\ window.load = "loaded" /\ saved = NoAnswer /\ app.at = "ready"
    /\ window.shows # NoAnswer /\ backend.up
    /\ window.shows = backend.settings /\ backend.settings < MaxSettings
    /\ backend' = [backend EXCEPT !.settings = @ + 1]
    /\ saved' = backend.settings + 1
    /\ signal' = TRUE
    /\ UNCHANGED <<app, refresh, window, overtaken, newest, untold>>

SaveAnswered ==
    /\ saved # NoAnswer
    /\ Broadcast(saved)
    /\ saved' = NoAnswer
    /\ UNCHANGED <<backend, signal, refresh, untold>>

\* The runtime has made the update; the window is told that it failed.
SaveLost ==
    /\ saved # NoAnswer
    /\ saved' = NoAnswer
    /\ UNCHANGED <<backend, app, signal, refresh, window, overtaken, newest, untold>>

-----------------------------------------------------------------------------
(* The window: useSettings reads once when it is mounted and follows the    *)
(* events from then on.  A reading that fails is not repeated.              *)

Loading(w) == [NoWindow EXCEPT !.load = "loading", !.reloads = w.reloads]

\* showWindow: remembered while the app is not ready, ignored while it quits.
ShowWindow(a) ==
    CASE a.quitting -> app' = a /\ UNCHANGED window
      [] ~a.quitting /\ a.at = "starting" -> app' = [a EXCEPT !.pendingShow = TRUE] /\ UNCHANGED window
      [] OTHER -> /\ app' = a
                  /\ window' = IF window.load = "none" THEN Loading(window) ELSE window

\* second-instance, activate, and a click on the tray.
Show ==
    /\ Running
    /\ ShowWindow(app)
    /\ UNCHANGED <<backend, signal, refresh, saved, overtaken, newest, untold>>

Mount ==
    /\ window.load # "none" /\ ~window.mounted
    /\ window' = [window EXCEPT !.mounted = TRUE, !.read = Asked]
    /\ overtaken' = [overtaken EXCEPT !.window = FALSE]
    /\ UNCHANGED <<backend, app, signal, refresh, saved, newest, untold>>

OpeningRead ==
    /\ window.read = Asked /\ backend.up
    /\ window' = [window EXCEPT !.read = backend.settings]
    /\ UNCHANGED <<backend, app, signal, refresh, saved, overtaken, newest, untold>>

OpeningReadArrives ==
    /\ window.read \notin {NoAnswer, Asked}
    /\ window' = [window EXCEPT !.shows = window.read, !.read = NoAnswer]
    /\ overtaken' = [overtaken EXCEPT !.window =
           @ \/ (window.shows # NoAnswer /\ window.shows > window.read)]
    /\ UNCHANGED <<backend, app, signal, refresh, saved, newest, untold>>

OpeningReadFails ==
    /\ window.read # NoAnswer
    /\ window' = [window EXCEPT !.read = NoAnswer]
    /\ UNCHANGED <<backend, app, signal, refresh, saved, overtaken, newest, untold>>

FinishLoad ==
    /\ window.load = "loading"
    /\ window' = [window EXCEPT !.load = "loaded"]
    /\ UNCHANGED <<backend, app, signal, refresh, saved, overtaken, newest, untold>>

Reload ==
    /\ window.load = "loaded" /\ window.reloads < MaxReloads
    /\ window' = [Loading(window) EXCEPT !.reloads = @ + 1]
    /\ UNCHANGED <<backend, app, signal, refresh, saved, overtaken, newest, untold>>

-----------------------------------------------------------------------------
(* Starting and leaving.                                                    *)

\* requestQuit: from here on nothing hides the window instead of closing it.
Quit(a) == [a EXCEPT !.quitting = TRUE]

\* requestFullQuit: stop the runtime first, if there is one to stop.
FullQuit(a) == IF a.full THEN a ELSE IF a.shutdown THEN [a EXCEPT !.full = TRUE] ELSE Quit([a EXCEPT !.full = TRUE])

\* The backend answers: unless the app is to quit, tray and window appear.
StartUp ==
    /\ app.at = "starting" /\ backend.up
    /\ LET ready == [app EXCEPT !.at = "ready", !.shutdown = TRUE, !.pendingShow = FALSE,
                                !.settings = backend.settings]
       IN  ShowWindow(ready)
    /\ signal' = TRUE      \* the event stream connects: onConnectionRestored
    /\ UNCHANGED <<backend, refresh, saved, overtaken, newest, untold>>

StartUpFails ==
    /\ app.at = "starting"
    /\ app' = Quit([app EXCEPT !.at = "ready"])
    /\ UNCHANGED <<backend, signal, refresh, saved, window, overtaken, newest, untold>>

Hide == UNCHANGED <<app, window>>

\* The close button, and the quit of the dock or of the system: desktopExitAction.
Leave ==
    /\ Running /\ ~app.quitting
    /\ IF app.settings \in Background THEN Hide ELSE app' = FullQuit(app) /\ UNCHANGED window
    /\ UNCHANGED <<backend, signal, refresh, saved, overtaken, newest, untold>>

\* The tray's "Quit OTelux and Stop Receiver".
TrayQuit ==
    /\ app.at = "ready" /\ app.shutdown /\ ~app.full
    /\ app' = FullQuit(app)
    /\ UNCHANGED <<backend, signal, refresh, saved, window, overtaken, newest, untold>>

\* SIGINT, SIGTERM and the quit request of a second instance.
Terminated ==
    /\ Running /\ ~app.quitting
    /\ app' = Quit(app)
    /\ UNCHANGED <<backend, signal, refresh, saved, window, overtaken, newest, untold>>

\* runtime.shutdown(): answered by a runtime that runs; otherwise it throws,
\* an error box is shown and the app stays.
ShutdownAnswered ==
    /\ app.full /\ app.shutdown /\ ~app.quitting
    /\ \/ backend.up /\ backend' = [backend EXCEPT !.up = FALSE] /\ app' = Quit(app)
       \/ ~backend.up /\ app' = [app EXCEPT !.full = FALSE] /\ UNCHANGED backend
    /\ UNCHANGED <<signal, refresh, saved, window, overtaken, newest, untold>>

\* will-quit: wait for a startup in progress, dispose, wait for the refresh.
WillQuit ==
    /\ app.quitting /\ app.at = "ready"
    /\ app' = [app EXCEPT !.at = "stopping", !.shutdown = FALSE]
    /\ UNCHANGED <<backend, signal, refresh, saved, window, overtaken, newest, untold>>

Exit ==
    /\ app.at = "stopping" /\ refresh.answer = NoAnswer
    /\ app' = [app EXCEPT !.at = "exited"]
    /\ window' = NoWindow /\ saved' = NoAnswer /\ signal' = FALSE
    /\ UNCHANGED <<backend, refresh, overtaken, newest, untold>>

RuntimeDies ==
    /\ backend.up
    /\ backend' = [backend EXCEPT !.up = FALSE]
    /\ UNCHANGED <<app, signal, refresh, saved, window, overtaken, newest, untold>>

Arrivals == Signal \/ RefreshRead \/ RefreshEnds \/ RefreshFails \/ SaveAnswered \/ SaveLost
            \/ Mount \/ OpeningRead \/ OpeningReadArrives \/ OpeningReadFails \/ FinishLoad
Leaving == StartUp \/ StartUpFails \/ ShutdownAnswered \/ WillQuit \/ Exit
DeskNext == Arrivals \/ Leaving \/ ChangeSettings \/ SaveSettings \/ Show \/ Reload
            \/ Leave \/ TrayQuit \/ Terminated \/ RuntimeDies

-----------------------------------------------------------------------------
\* Nothing is on its way: no signal, no refresh, no answer to an update.
AtRest == /\ backend.up /\ app.at = "ready" /\ app.shutdown /\ ~app.quitting
          /\ ~signal /\ refresh.answer = NoAnswer /\ saved = NoAnswer

(* Once no answer and no signal is on its way, closing the window does what *)
(* the settings of the runtime say, and the window shows them, whatever the *)
(* order in which refreshes, updates and other clients' changes came.       *)
(* Excepted until the next broadcast: an answer that comes after a newer    *)
(* one, and for the window also a broadcast that found it still loading.    *)
(* Excepted until as new a broadcast as the one it lost: a refresh that     *)
(* failed, which nothing repeats.                                           *)
WindowCurrent ==
    AtRest /\ newest >= untold =>
        /\ ~overtaken.app => app.settings = backend.settings
        /\ LET settled == ~overtaken.window /\ window.load = "loaded" /\ window.read = NoAnswer
                          /\ window.shows # NoAnswer
           IN  settled => window.shows = backend.settings
=============================================================================
