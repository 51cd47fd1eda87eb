--------------------------------- MODULE Node ---------------------------------
(***************************************************************************)
(* A node's process and its configuration (cmd/relayapi/main.go and        *)
(* internal/policy): a start loads and validates the file or ends the      *)
(* process; a SIGHUP makes the watcher load it again, and only a valid one *)
(* replaces the configuration that requests are resolved against.          *)
(*                                                                         *)
(* The file belongs to whoever operates the node and changes at any time.  *)
(* The channel the signals arrive in holds one, and drops what comes while *)
(* it is full.                                                             *)
(***************************************************************************)
EXTENDS Policy

CONSTANTS
    Configs,      \* the configurations the file may hold
    Unreadable,   \* a file that is missing or does not parse
    NoConfig,     \* no configuration loaded
    StartTime,    \* what the real clock shows at first
    DevClocks,    \* the values of RELAYAPI_DEV_CLOCK_AS_OF a start may see
    NoDevClock,   \* ... and its absence
    MaxTime,      \* bound: the real clock's last tick
    MaxEvents     \* bound: edits, signals and crashes altogether

ASSUME NodeAssumption ==
    /\ StartTime \in Nat \ {0} /\ MaxTime \in Nat
    /\ MaxEvents \in Nat
    /\ DevClocks \subseteq (Nat \ {0}) \cup {NoDevClock}
    /\ Unreadable \notin Configs /\ NoConfig \notin Configs

ASSUME ConfigsAssumption == \A f \in Configs : Parsed(f)

VARIABLES
    realTime,   \* time.Now
    offset,     \* offsetClock: what the process adds to it
    phase,      \* the process: "down", "starting", "serving" or "stopping"
    file,       \* what the configuration file holds
    cfg,        \* Resolver.cfg
    watcher,    \* the goroutine that loads: "idle", "woken" or "loaded"
    loaded,     \* what it has read
    signalled,  \* the channel of WatchSIGHUP holds a signal
    notified,   \* history: there was a SIGHUP since the last edit
    accepted,   \* history: the configurations ever served
    budget      \* the edits, signals and crashes left

processVars == <<phase, cfg, watcher, loaded, signalled>>
nodeVars == <<realTime, offset, file, notified, accepted, budget, processVars>>

\* Clock.Now
Clock == realTime + offset

NodeTypeOK ==
    /\ realTime \in Nat \ {0} /\ offset \in Int /\ Clock > 0
    /\ phase \in {"down", "starting", "serving", "stopping"}
    /\ file \in Configs \cup {Unreadable}
    /\ cfg \in Configs \cup {NoConfig}
    /\ watcher \in {"idle", "woken", "loaded"}
    /\ loaded \in Configs \cup {Unreadable, NoConfig}
    /\ signalled \in BOOLEAN
    /\ notified \in BOOLEAN
    /\ accepted \subseteq Configs
    /\ budget \in Nat

NodeInit ==
    /\ realTime = StartTime /\ offset = 0
    /\ phase = "down" /\ cfg = NoConfig
    /\ file \in Configs \cup {Unreadable}
    /\ watcher = "idle" /\ loaded = NoConfig /\ signalled = FALSE /\ notified = FALSE
    /\ accepted = {}
    /\ budget = MaxEvents

PassTime ==
    /\ realTime < MaxTime  \* bound
    /\ realTime' = realTime + 1
    /\ UNCHANGED <<offset, file, notified, accepted, budget, processVars>>

Edit(f) ==
    /\ budget > 0  \* bound
    /\ f # file
    /\ file' = f
    /\ notified' = FALSE
    /\ budget' = budget - 1
    /\ UNCHANGED <<realTime, offset, accepted, processVars>>

\* Reload up to the swap: both LoadConfig and Validate accept.
Loads(f, now) == f \in Configs /\ Validate(f, now)

-----------------------------------------------------------------------------
\* Start and end of the process

\* main: the clock is set up once, and NewResolver reads the file.
Boot(asOf) ==
    /\ phase = "down"
    /\ offset' = IF asOf = NoDevClock THEN 0 ELSE asOf - realTime
    /\ phase' = "starting"
    /\ loaded' = file
    /\ UNCHANGED <<realTime, file, notified, accepted, budget, cfg, watcher, signalled>>

Serve ==
    /\ phase = "starting" /\ Loads(loaded, Clock)
    /\ phase' = "serving"
    /\ cfg' = loaded /\ loaded' = NoConfig
    /\ accepted' = accepted \cup {loaded}
    /\ UNCHANGED <<realTime, offset, file, notified, budget, watcher, signalled>>

\* What an ended process leaves behind: nothing.
Ended ==
    /\ phase' = "down" /\ cfg' = NoConfig
    /\ watcher' = "idle" /\ loaded' = NoConfig /\ signalled' = FALSE /\ notified' = FALSE
    /\ UNCHANGED <<realTime, offset, file, accepted>>

\* main: "fail to start, don't warn".
RefuseToStart ==
    /\ phase = "starting" /\ ~Loads(loaded, Clock)
    /\ Ended /\ UNCHANGED budget

\* SIGTERM: the listener closes, the watcher returns.
Terminate ==
    /\ budget > 0  \* bound
    /\ phase = "serving"
    /\ phase' = "stopping"
    /\ budget' = budget - 1
    /\ watcher' = "idle" /\ loaded' = NoConfig /\ signalled' = FALSE
    /\ UNCHANGED <<realTime, offset, file, notified, accepted, cfg>>

\* ListenAndServe returns as soon as Shutdown begins, and main with it.
Exit ==
    /\ phase = "stopping"
    /\ Ended /\ UNCHANGED budget

Crash ==
    /\ budget > 0  \* bound
    /\ phase \in {"starting", "serving"}
    /\ Ended
    /\ budget' = budget - 1

-----------------------------------------------------------------------------
\* SIGHUP

\* The signal is put in the channel, unless one is there already.
Hangup ==
    /\ budget > 0  \* bound
    /\ phase = "serving"
    /\ signalled' = TRUE /\ notified' = TRUE
    /\ budget' = budget - 1
    /\ UNCHANGED <<realTime, offset, file, accepted, phase, cfg, watcher, loaded>>

\* Until WatchSIGHUP has asked for the signal, and once it has given up on it,
\* a SIGHUP ends the process.
FatalHangup ==
    /\ budget > 0  \* bound
    /\ phase \in {"starting", "stopping"}
    /\ Ended
    /\ budget' = budget - 1

\* The watcher's goroutine: it takes the signal, reads the file, and swaps in
\* what it has read if that is valid now.
TakeSignal ==
    /\ phase = "serving" /\ watcher = "idle" /\ signalled
    /\ watcher' = "woken" /\ signalled' = FALSE
    /\ UNCHANGED <<realTime, offset, file, notified, accepted, budget, phase, cfg, loaded>>

LoadConfig ==
    /\ phase = "serving" /\ watcher = "woken"
    /\ watcher' = "loaded" /\ loaded' = file
    /\ UNCHANGED <<realTime, offset, file, notified, accepted, budget, phase, cfg, signalled>>

\* Mutant of Reload: signals that came during the reload count as handled.
ReloadDrains ==
    /\ phase = "serving" /\ watcher = "loaded"
    /\ cfg' = IF Loads(loaded, Clock) THEN loaded ELSE cfg
    /\ accepted' = accepted \cup {cfg'}
    /\ watcher' = "idle" /\ loaded' = NoConfig /\ signalled' = FALSE
    /\ UNCHANGED <<realTime, offset, file, notified, budget, phase>>

Reload ==
    /\ phase = "serving" /\ watcher = "loaded"
    /\ cfg' = IF Loads(loaded, Clock) THEN loaded ELSE cfg
    /\ accepted' = accepted \cup {cfg'}
    /\ watcher' = "idle" /\ loaded' = NoConfig
    /\ UNCHANGED <<realTime, offset, file, notified, budget, phase, signalled>>

-----------------------------------------------------------------------------
Watch == TakeSignal \/ LoadConfig \/ Reload

\* The steps after which the process is still, or again, there, and the ones
\* that end it.
Going ==
    \/ PassTime \/ Serve \/ Terminate \/ Hangup \/ Watch
    \/ \E asOf \in DevClocks : Boot(asOf)
    \/ \E f \in Configs \cup {Unreadable} : Edit(f)

Ending == RefuseToStart \/ Exit \/ Crash \/ FatalHangup

NodeNext == Going \/ Ending
===============================================================================
