---------------------------- MODULE RestartEngine ----------------------------
(***************************************************************************)
(* The restart engine of one service (core/restart.go) and the loop that   *)
(* drives it: core/supervisor.go asks it at every death and waits out the  *)
(* backoff, a new process is up, with a readiness check it may get ready,  *)
(* an operator's start makes a new engine, a hot reload changes the        *)
(* configuration of the one there is.                                      *)
(*                                                                         *)
(* One tick of the clock stands for one unit of backoff_ms and of          *)
(* reset_after_seconds alike. The state machine and the races of the       *)
(* supervisors are in module ServiceLifecycle.                             *)
(***************************************************************************)
EXTENDS Integers

CONSTANTS
    Configs,        \* the restart configurations a reload moves between
    Readiness,      \* whether the service has a readiness check: one or both
    MaxNow          \* the clock stops here: bounds the run of TLC

RestartPolicy == {"always", "on-failure", "never"}

\* A multiplier of zero stands for the default one.
Config == [policy: RestartPolicy, backoff: Nat, maxBackoff: Nat, multiplier: Nat \ {0},
           maxRetries: Nat, resetAfter: Nat]

ASSUME ConfigsAssumption == Configs \subseteq Config
ASSUME EngineReadinessAssumption == Readiness \subseteq BOOLEAN
ASSUME MaxNowAssumption == MaxNow \in Nat

VARIABLES
    readiness,      \* the service has a readiness check
    cfg,            \* the configuration fields of the engine
    retries,        \* RestartEngine.retries
    lastStart,      \* RestartEngine.lastStartTime; Never is its zero value
    now,            \* the clock
    phase,          \* what the service does
    wait,           \* the delay of the backoff in progress, or of the last one
    decidedAt       \* when that backoff began

engineVars == <<cfg, retries, lastStart>>

(* History: what the properties compare the engine with. *)
VARIABLES
    stableSince,    \* when the process became up, or ready if it has to
    crashes,        \* the restarts granted since a run last lasted resetAfter
    decidedCfg      \* the configuration the last restart was granted under

historyVars == <<stableSince, crashes, decidedCfg>>
restartVars == <<readiness, engineVars, now, phase, wait, decidedAt, historyVars>>

Never == -1

\* All but wait, which is a power.
EngineTypeOK ==
    /\ readiness \in BOOLEAN
    /\ cfg \in Config /\ decidedCfg \in Config
    /\ retries \in Nat /\ crashes \in Nat
    /\ lastStart \in Nat \cup {Never} /\ stableSince \in Nat \cup {Never}
    /\ now \in Nat /\ decidedAt \in Nat
    /\ phase \in {"up", "ready", "backoff", "down", "failed"}

-----------------------------------------------------------------------------
(* The engine. *)

\* How a process ends, as Process.Wait reports it: code -1 for a signal.
Exit == [code: {0}, signal: {"none"}] \cup [code: {1}, signal: {"none"}]
            \cup [code: {-1}, signal: {"SIGTERM", "SIGINT", "other"}]

ShouldRestart(c, exit) ==
    \/ c.policy = "always"
    \/ c.policy = "on-failure" /\ \/ exit.code # 0
                                  \/ exit.signal \notin {"none", "SIGTERM", "SIGINT"}

MaxRetriesReached(c, n) == c.maxRetries # 0 /\ n >= c.maxRetries

Smaller(a, b) == IF a < b THEN a ELSE b

\* A bug variant of BackoffDuration: the first wait is already multiplied.
BackoffMultipliedOnce(c, n) ==
    IF n = 0 THEN 0 ELSE Smaller(c.backoff * c.multiplier^n, c.maxBackoff)

BackoffDuration(c, n) ==
    IF n = 0 THEN 0 ELSE Smaller(c.backoff * c.multiplier^(n - 1), c.maxBackoff)

\* A bug: a long run is not looked at.
RetriesNeverReset(c, n, start, t) == n

\* The retries that ResetIfNeeded leaves of n.
ResetIfNeeded(c, n, start, t) ==
    IF c.resetAfter > 0 /\ start # Never /\ t - start >= c.resetAfter THEN 0 ELSE n

-----------------------------------------------------------------------------
EngineInit ==
    /\ readiness \in Readiness
    /\ cfg \in Configs
    /\ retries = 0
    /\ now = 0
    /\ lastStart = IF readiness THEN Never ELSE now
    /\ phase = "up"
    /\ wait = 0
    /\ decidedAt = 0
    /\ stableSince = lastStart
    /\ crashes = 0
    /\ decidedCfg = cfg

\* The operator starts a service that is down or failed, with an engine of its own.
StartService ==
    /\ phase \in {"down", "failed"}
    /\ phase' = "up"
    /\ cfg' \in Configs
    /\ retries' = 0
    /\ lastStart' = IF readiness THEN Never ELSE now
    /\ wait' = 0
    /\ stableSince' = lastStart'
    /\ crashes' = 0
    /\ UNCHANGED <<readiness, now, decidedAt, decidedCfg>>

\* The readiness check passes: RecordStart.
Ready ==
    /\ readiness
    /\ phase = "up"
    /\ phase' = "ready"
    /\ lastStart' = now
    /\ stableSince' = now
    /\ UNCHANGED <<readiness, cfg, retries, now, wait, decidedAt, crashes, decidedCfg>>

\* The process has run for resetAfter since it was up, or ready.
RanLong ==
    /\ cfg.resetAfter > 0
    /\ stableSince # Never
    /\ now - stableSince >= cfg.resetAfter

\* What the restarts in a row come to with one more.
OneMoreCrash == (IF RanLong THEN 0 ELSE crashes) + 1

\* DecideRestart refuses: never is a failure, on-failure a normal end.
Refuse(exit) ==
    /\ \/ ~ShouldRestart(cfg, exit)
       \/ MaxRetriesReached(cfg, ResetIfNeeded(cfg, retries, lastStart, now))
    /\ retries' = ResetIfNeeded(cfg, retries, lastStart, now)
    /\ phase' = IF ~ShouldRestart(cfg, exit) /\ cfg.policy # "never" THEN "down" ELSE "failed"
    /\ UNCHANGED <<wait, decidedAt, crashes, decidedCfg>>

\* DecideRestart grants a restart: IncrementRetries, and doBackoff begins.
Grant(exit) ==
    /\ ShouldRestart(cfg, exit)
    /\ ~MaxRetriesReached(cfg, ResetIfNeeded(cfg, retries, lastStart, now))
    /\ retries' = ResetIfNeeded(cfg, retries, lastStart, now) + 1
    /\ phase' = "backoff"
    /\ wait' = BackoffDuration(cfg, retries')
    /\ decidedAt' = now
    /\ crashes' = OneMoreCrash
    /\ decidedCfg' = cfg

DecideRestart ==
    /\ phase \in {"up", "ready"}
    /\ \E exit \in Exit : Refuse(exit) \/ Grant(exit)
    /\ stableSince' = Never
    /\ UNCHANGED <<readiness, cfg, lastStart, now>>

\* A bug variant of Restarted: RecordStart is left out.
RestartedUnrecorded ==
    /\ phase = "backoff"
    /\ now - decidedAt >= wait
    /\ phase' = "up"
    /\ stableSince' = IF readiness THEN Never ELSE now
    /\ UNCHANGED <<readiness, engineVars, now, wait, decidedAt, crashes, decidedCfg>>

\* The backoff is over and doRestartProcess has forked the new process.
Restarted ==
    /\ phase = "backoff"
    /\ now - decidedAt >= wait
    /\ phase' = "up"
    /\ lastStart' = IF readiness THEN lastStart ELSE now
    /\ stableSince' = IF readiness THEN Never ELSE now
    /\ UNCHANGED <<readiness, cfg, retries, now, wait, decidedAt, crashes, decidedCfg>>

\* UpdateRestartEngines: a reload keeps retries and lastStartTime.
SyncConfigFrom(c) ==
    /\ c # cfg
    /\ cfg' = c
    /\ UNCHANGED <<readiness, retries, lastStart, now, phase, wait, decidedAt, historyVars>>

Tick ==
    /\ now < MaxNow
    /\ now' = now + 1
    /\ UNCHANGED <<readiness, engineVars, phase, wait, decidedAt, historyVars>>

EngineNext ==
    \/ StartService \/ Ready \/ DecideRestart \/ Restarted \/ Tick
    \/ \E c \in Configs : SyncConfigFrom(c)

EngineSpec == EngineInit /\ [][EngineNext]_restartVars

-----------------------------------------------------------------------------
Decided == phase \in {"up", "ready"} /\ phase' \notin {"up", "ready"}
Granted == Decided /\ phase' = "backoff"

\* max_retries bounds the restarts in a row of a service without a readiness
\* check, "in a row" meaning with no run of reset_after_seconds among them: over
\* any sequence of crashes, reloads and starts a restart is granted only while
\* fewer than max_retries have been.
RestartsAreBounded ==
    [][Granted /\ ~readiness => cfg.maxRetries = 0 \/ crashes' <= cfg.maxRetries]_restartVars

\* The waits of a crash loop whose configuration stays what it is grow from
\* backoff_ms by the multiplier to max_backoff_ms: each is the one before it,
\* multiplied and capped.
WaitsGrow ==
    [][Granted /\ ~readiness /\ decidedCfg = cfg =>
        wait' = Smaller(IF crashes' = 1 THEN cfg.backoff ELSE wait * cfg.multiplier,
                        cfg.maxBackoff)]_restartVars

\* A process that was up, or ready if it has to be, for reset_after_seconds is
\* forgiven what was before: it is restarted, however often it crashed, after
\* the first and shortest wait.
LongRunsAreForgiven ==
    [][RanLong /\ cfg.policy = "always" /\ Decided =>
        /\ phase' = "backoff"
        /\ wait' = Smaller(cfg.backoff, cfg.maxBackoff)]_restartVars

\* Over any sequence of crashes, reloads and long runs the wait before a restart
\* is that of the number of crashes in a row, and a long run begins a new row.
WaitsFollowCrashes == WaitsGrow /\ LongRunsAreForgiven

=============================================================================
