---------------------------- MODULE DesktopShell ----------------------------
(***************************************************************************)
(* The desktop application (electron/main.js): it spawns the server,       *)
(* probes its port until something answers, opens the tray and the window, *)
(* reports a crash, and on quitting stops the server before it exits.      *)
(*                                                                         *)
(* Callbacks run one at a time.  The server's life, what listens on the    *)
(* port, the user and the five-second timer are free to interleave.        *)
(***************************************************************************)
EXTENDS Integers

CONSTANT MaxRetries     \* checkServerAvailability's maxRetries

ASSUME RetriesAssumption == MaxRetries \in Nat \ {0}

VARIABLES
    dev,        \* NODE_ENV is development: no server is spawned
    taken,      \* another program listens on the port
    proc,       \* the server process: "none", "running", "listening", "dead"
    code,       \* how it ended: "zero", "signal" (null), "error"
    termed,     \* SIGTERM was sent
    closeDue,   \* the process has ended, its close event is not delivered yet
    handle,     \* serverProcess is set
    attempt, probes, waiting,   \* currentAttempt, requests and timers under way
    start,      \* startServer()'s promise: "pending", "resolved", "rejected"
    app,        \* "starting", "up", "failed", "exited"
    windows,    \* open windows
    main,       \* mainWindow: "null", "hidden", "shown"
    tray,
    crashBox, startBox,         \* the dialogs: "none", "open", "log"
    isQuitting, killTimer, quitListener

server == <<proc, code, termed, closeDue>>
probing == <<attempt, probes, waiting, start>>
view == <<windows, main, tray, crashBox, startBox>>
quit == <<isQuitting, killTimer, quitListener, handle>>
shellVars == <<dev, taken, server, probing, app, view, quit>>

\* startServer() has run up to its first probe.
ShellInit ==
    /\ dev \in BOOLEAN /\ taken \in BOOLEAN
    /\ \/ dev /\ proc = "none" /\ handle = FALSE
       \/ ~dev /\ proc = "running" /\ handle = TRUE
    /\ code = "zero" /\ termed = FALSE /\ closeDue = FALSE
    /\ attempt = 1 /\ probes = 1 /\ waiting = 0 /\ start = "pending"
    /\ app = "starting" /\ windows = 0 /\ main = "null" /\ tray = FALSE
    /\ crashBox = "none" /\ startBox = "none"
    /\ isQuitting = FALSE /\ killTimer = FALSE /\ quitListener = FALSE

On == app # "exited"
Alive == proc \in {"running", "listening"}

-----------------------------------------------------------------------------
(***************************************************************************)
(* The server process (external) and the events it causes.                 *)
(***************************************************************************)
ServerListens ==
    /\ proc = "running" /\ ~taken /\ proc' = "listening"
    /\ UNCHANGED <<dev, taken, code, termed, closeDue, probing, app, view, quit>>

ServerDies(c) ==
    /\ Alive /\ proc' = "dead" /\ code' = c /\ closeDue' = TRUE
    /\ UNCHANGED <<dev, taken, termed, probing, app, view, quit>>

\* In development: the frontend's server starts or stops.
FrontendChanges ==
    /\ dev /\ On /\ taken' = ~taken
    /\ UNCHANGED <<dev, server, probing, app, view, quit>>

Settle(outcome) == start' = IF start = "pending" THEN outcome ELSE start

\* spawn fails: the error event, before a close event with a bad code.
SpawnError ==
    /\ On /\ proc = "running" /\ attempt = 1 /\ start = "pending" /\ ~termed
    /\ proc' = "dead" /\ code' = "error" /\ closeDue' = TRUE
    /\ Settle("rejected")
    /\ UNCHANGED <<dev, taken, termed, attempt, probes, waiting, app, view, quit>>

\* A window's close handler hides mainWindow, unless the application is quitting.
CloseWindow ==
    IF isQuitting THEN windows' = windows - 1 /\ main' = "null"
    ELSE UNCHANGED windows /\ main' = "hidden"

ServerCloseQuiet ==         \* mutant: a bad exit code is taken for a normal exit
    /\ On /\ closeDue /\ closeDue' = FALSE
    /\ IF main = "null" THEN UNCHANGED <<windows, main>> ELSE CloseWindow
    /\ handle' = IF quitListener THEN FALSE ELSE handle
    /\ app' = IF quitListener THEN "exited" ELSE app
    /\ UNCHANGED <<dev, taken, proc, code, termed, probing, tray, crashBox, startBox, isQuitting, killTimer, quitListener>>

\* The close event: a bad code is reported; the listener of before-quit, if any, exits.
ServerClose ==
    /\ On /\ closeDue /\ closeDue' = FALSE
    /\ IF code = "error"
       THEN crashBox' = "open" /\ UNCHANGED <<windows, main>>
       ELSE /\ UNCHANGED crashBox
            /\ IF main = "null" THEN UNCHANGED <<windows, main>> ELSE CloseWindow
    /\ handle' = IF quitListener THEN FALSE ELSE handle
    /\ app' = IF quitListener THEN "exited" ELSE app
    /\ UNCHANGED <<dev, taken, proc, code, termed, probing, tray, startBox, isQuitting, killTimer, quitListener>>

-----------------------------------------------------------------------------
(***************************************************************************)
(* checkServerAvailability                                                 *)
(***************************************************************************)
Answers == taken \/ proc = "listening"

ProbeAnswered ==
    /\ On /\ probes > 0 /\ Answers /\ probes' = probes - 1
    /\ Settle("resolved")
    /\ UNCHANGED <<dev, taken, server, attempt, waiting, app, view, quit>>

GiveUpSilently(n) ==        \* mutant: the last attempt neither retries nor rejects
    /\ waiting' = IF attempt >= MaxRetries THEN waiting ELSE waiting + n
    /\ UNCHANGED start

RetryForever(n) == waiting' = waiting + n /\ UNCHANGED start     \* mutant

\* n handlers of the request each give up at the last attempt or schedule the next.
Again(n) ==
    IF attempt >= MaxRetries THEN Settle("rejected") /\ UNCHANGED waiting
    ELSE waiting' = waiting + n /\ UNCHANGED start

\* Refused, or reset by a port that accepts.
ProbeError ==
    /\ On /\ probes > 0 /\ probes' = probes - 1
    /\ Again(1)
    /\ UNCHANGED <<dev, taken, server, attempt, app, view, quit>>

\* The port accepts and does not answer.  The timeout handler destroys the request,
\* which makes it emit an error too: both handlers schedule the next attempt.
ProbeTimeout ==
    /\ On /\ probes > 0 /\ Answers /\ probes' = probes - 1
    /\ Again(2)
    /\ UNCHANGED <<dev, taken, server, attempt, app, view, quit>>

tryConnect ==
    /\ On /\ waiting > 0 /\ waiting' = waiting - 1
    /\ attempt' = attempt + 1 /\ probes' = probes + 1
    /\ UNCHANGED <<dev, taken, server, start, app, view, quit>>

-----------------------------------------------------------------------------
createWindow == windows' = windows + 1 /\ main' = "shown"

\* app.whenReady() after its await.
Started ==
    /\ app = "starting" /\ start = "resolved" /\ app' = "up"
    /\ tray' = TRUE /\ createWindow
    /\ UNCHANGED <<dev, taken, server, probing, crashBox, startBox, quit>>

\* createTray or createWindow throws: the same catch block, with or without a tray.
StartThrows ==
    /\ app = "starting" /\ start = "resolved" /\ app' = "failed"
    /\ startBox' = "open" /\ tray' \in BOOLEAN
    /\ UNCHANGED <<dev, taken, server, probing, windows, main, crashBox, quit>>

StartFailed ==
    /\ app = "starting" /\ start = "rejected" /\ app' = "failed"
    /\ startBox' = "open"
    /\ UNCHANGED <<dev, taken, server, probing, windows, main, tray, crashBox, quit>>

beforeQuitNoTimer ==        \* mutant: nothing waits for a server that does not end
    /\ termed' = (termed \/ Alive)
    /\ quitListener' = TRUE /\ UNCHANGED <<killTimer, handle, app, windows, main>>

\* before-quit with a server: stop it, exit on its close event or after 5 s.
beforeQuit ==
    /\ termed' = (termed \/ Alive)
    /\ killTimer' = TRUE /\ quitListener' = TRUE
    /\ UNCHANGED <<handle, app, windows, main>>

\* app.quit(): without a server the windows are asked, and may refuse.
AppQuit(flag) ==
    /\ isQuitting' = (isQuitting \/ flag)
    /\ UNCHANGED <<dev, taken, proc, code, closeDue, probing, tray>>
    /\ IF handle THEN beforeQuit
       ELSE /\ UNCHANGED <<termed, killTimer, quitListener, handle>>
            /\ IF windows = 0 \/ isQuitting \/ flag
               THEN app' = "exited" /\ windows' = 0 /\ main' = "null"
               ELSE main' = "hidden" /\ UNCHANGED <<app, windows>>

\* The choices of the dialogs: exit, or save the log, confirm and exit.
CrashChoice ==
    /\ On /\ crashBox # "none" /\ UNCHANGED startBox
    /\ \/ crashBox' = "none" /\ AppQuit(TRUE)
       \/ /\ crashBox = "open" /\ crashBox' = "log"
          /\ UNCHANGED <<dev, taken, server, probing, app, windows, main, tray, quit>>

StartChoice ==
    /\ On /\ startBox # "none" /\ UNCHANGED crashBox
    /\ \/ startBox' = "none" /\ AppQuit(FALSE)
       \/ /\ startBox = "open" /\ startBox' = "log"
          /\ UNCHANGED <<dev, taken, server, probing, app, windows, main, tray, quit>>

TrayQuit == On /\ tray /\ AppQuit(TRUE) /\ UNCHANGED <<crashBox, startBox>>

\* The platform's own quit (menu, session end): isQuitting is not set.
PlatformQuit == On /\ AppQuit(FALSE) /\ UNCHANGED <<crashBox, startBox>>

exitWithoutKill == app' = "exited" /\ UNCHANGED <<proc, code, closeDue>>    \* mutant

\* The five seconds are over.
killAndExit ==
    /\ app' = "exited"
    /\ proc' = IF handle /\ Alive THEN "dead" ELSE proc
    /\ UNCHANGED <<code, closeDue>>

KillTimer ==
    /\ On /\ killTimer /\ killAndExit
    /\ UNCHANGED <<dev, taken, termed, probing, view, quit>>

-----------------------------------------------------------------------------
(***************************************************************************)
(* The window and the tray.                                                *)
(***************************************************************************)
UserCloses ==
    /\ On /\ windows > (IF main = "hidden" THEN 1 ELSE 0) /\ CloseWindow
    /\ UNCHANGED <<dev, taken, server, probing, app, tray, crashBox, startBox, quit>>

\* The tray's entry and its icon show mainWindow, or make one if there is none.
TrayShow ==
    /\ On /\ tray /\ main # "shown"
    /\ IF main = "null" THEN createWindow ELSE main' = "shown" /\ UNCHANGED windows
    /\ UNCHANGED <<dev, taken, server, probing, app, tray, crashBox, startBox, quit>>

TrayHide ==
    /\ On /\ tray /\ main = "shown" /\ main' = "hidden"
    /\ UNCHANGED <<dev, taken, server, probing, app, windows, tray, crashBox, startBox, quit>>

Activate ==
    /\ On /\ windows = 0 /\ createWindow
    /\ UNCHANGED <<dev, taken, server, probing, app, tray, crashBox, startBox, quit>>

ShellNext ==
    \/ ServerListens \/ SpawnError \/ FrontendChanges \/ ServerClose
    \/ \E c \in {"zero", "signal", "error"} : ServerDies(c)
    \/ ProbeAnswered \/ ProbeError \/ ProbeTimeout \/ tryConnect
    \/ Started \/ StartThrows \/ StartFailed \/ CrashChoice \/ StartChoice
    \/ TrayQuit \/ PlatformQuit \/ KillTimer
    \/ UserCloses \/ TrayShow \/ TrayHide \/ Activate

ShellSpec == ShellInit /\ [][ShellNext]_shellVars

\* Node delivers events and timers; a probe answers, fails or times out.
FairSpec ==
    /\ ShellSpec
    /\ WF_shellVars(ServerClose) /\ WF_shellVars(KillTimer) /\ WF_shellVars(tryConnect)
    /\ WF_shellVars(ProbeAnswered \/ ProbeError \/ ProbeTimeout)
    /\ WF_shellVars(Started \/ StartThrows) /\ WF_shellVars(StartFailed)

-----------------------------------------------------------------------------
\* The callbacks keep their types: in particular activate, the tray and the
\* start open at most two windows between them, in any order.
ShellTypeOK ==
    /\ dev \in BOOLEAN /\ taken \in BOOLEAN
    /\ proc \in {"none", "running", "listening", "dead"} /\ code \in {"zero", "signal", "error"}
    /\ termed \in BOOLEAN /\ closeDue \in BOOLEAN /\ handle \in BOOLEAN
    /\ attempt \in Nat /\ probes \in Nat /\ waiting \in Nat
    /\ start \in {"pending", "resolved", "rejected"}
    /\ app \in {"starting", "up", "failed", "exited"}
    /\ windows \in 0..2 /\ main \in {"null", "hidden", "shown"} /\ tray \in BOOLEAN
    /\ crashBox \in {"none", "open", "log"} /\ startBox \in {"none", "open", "log"}
    /\ isQuitting \in BOOLEAN /\ killTimer \in BOOLEAN /\ quitListener \in BOOLEAN

\* Whichever way the application exits (its server's close event, the five
\* seconds after before-quit, no server to wait for), no server stays behind
\* on the port and the database file.
NoOrphanServer == ~On => ~Alive

\* A probe that times out schedules two retries, so currentAttempt runs past
\* maxRetries; the overlapping chains still end below twice that number.
AttemptsBounded == attempt < 2 * MaxRetries

\* Once before-quit has asked the server to stop, the application exits, even
\* if the server ignores SIGTERM or had ended before and closes no more.
QuitExits == quitListener ~> ~On

\* The start ends in a window or in an error dialog, however the port answers,
\* refuses or times out, and wherever the server dies.
StartSettles == (app = "starting") ~> (app # "starting")

\* A server that ends with a bad code, at the start, in use or while the
\* application quits, is reported, unless the application exits.
CrashIsTold == (On /\ closeDue /\ code = "error") ~> (~On \/ crashBox # "none")

=============================================================================
