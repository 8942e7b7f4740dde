------------------------------- MODULE Runtime -------------------------------
(***************************************************************************)
(* The client program around its streams: Runtime's Start, Stop and        *)
(* UpdateConfig under r.mu, the goroutine that Start leaves behind in      *)
(* MultipathDispatcher.Run with its listener and its watcher of the        *)
(* context, and the saved configuration (internal/appcontrol, dispatcher.go *)
(* and the handlers of cmd/masterdns-agg-app).                             *)
(*                                                                         *)
(* Every successful Start makes a new generation of context, manager and   *)
(* dispatcher; an old one may still be on its way out, or on its way in.   *)
(* What a manager and its streams do is in ClientStreams and BearerTunnel. *)
(***************************************************************************)
EXTENDS Integers, FiniteSets

CONSTANTS Configs,      \* records [length, valid], all of one ListenAddr
          Default,      \* DefaultAppConfig
          Handlers,     \* the goroutines that save or load the configuration
          MaxStarts,    \* bound: generations
          MaxCalls,     \* bound: saves and loads
          None, Garbage

ASSUME ConfigsAssumption ==
  /\ \A c \in Configs :
       c = [length |-> c.length, valid |-> c.valid]
       /\ c.length \in Nat \ {0} /\ c.valid \in BOOLEAN
  /\ Default \in Configs /\ Default.valid
ASSUME RuntimeBounds ==
  MaxStarts \in Nat /\ MaxCalls \in Nat
ASSUME NoneAssumption == None # Garbage /\ {None, Garbage} \cap Configs = {}

Generations == 1..MaxStarts

VARIABLES running, cfg, lastErr,   \* the fields of Runtime; lastErr is the
                                   \* generation whose error it holds, 0 for ""
          stop,        \* where the call of Stop that holds r.mu is
          gen,         \* the latest generation
          cancelled,   \* the generations whose context is done
          run,         \* where each generation's Run is
          listener,    \* of each dispatcher: "none", "open", "closed"
          flag,        \* MultipathDispatcher.running
          watcher,     \* Run's goroutine that waits for the context
          file,        \* the configuration file: [holds, length]
          handler,     \* each Handler: [at, cfg]
          calls,
          \* History:
          lone,        \* the saves that no other save has overlapped
          intact,      \* what the file must hold, None if anything
          saved        \* what was given to SaveConfig

lifecycle == <<running, cfg, lastErr, stop, gen, cancelled>>
dispatcher == <<run, listener, flag, watcher>>
storage == <<file, handler, calls, lone, intact, saved>>
vars == <<lifecycle, dispatcher, storage>>

\* The process starts with the default configuration.
Init ==
  /\ running = FALSE /\ cfg = Default /\ lastErr = 0
  /\ stop = "none"
  /\ gen = 0
  /\ cancelled = {}
  /\ run = [g \in Generations |-> "none"]
  /\ listener = [g \in Generations |-> "none"]
  /\ flag = [g \in Generations |-> FALSE]
  /\ watcher = [g \in Generations |-> "none"]
  /\ handler = [h \in Handlers |-> [at |-> "idle", cfg |-> None]]
  /\ lone = {}
  /\ file = [holds |-> None, length |-> 0]
  /\ intact = None
  /\ saved = {}
  /\ calls = 0

-----------------------------------------------------------------------------
(* The API of Runtime.  Only Stop keeps r.mu while it waits for others. *)

Unlocked == stop = "none"

\* Start of a runtime that runs, or whose configuration is not valid, changes
\* nothing; else a manager is started and a goroutine enters Run.
Start ==
  /\ Unlocked
  /\ ~running
  /\ cfg.valid
  /\ gen < MaxStarts
  /\ gen' = gen + 1
  /\ run' = [run EXCEPT ![gen + 1] = "spawned"]
  /\ running' = TRUE
  /\ lastErr' = 0
  /\ UNCHANGED <<cfg, stop, cancelled, listener, flag, watcher, storage>>

\* Stop cancels the context,
StopCancel ==
  /\ Unlocked
  /\ running
  /\ stop' = "cancelled"
  /\ cancelled' = cancelled \cup {gen}
  /\ UNCHANGED <<running, cfg, lastErr, gen, dispatcher, storage>>

\* MultipathDispatcher.Stop: whoever finds running set closes the listener.
DispatcherStop(g) ==
  /\ flag' = [flag EXCEPT ![g] = FALSE]
  /\ listener' = [listener EXCEPT ![g] = IF flag[g] THEN "closed" ELSE @]

\* stops the dispatcher,
StopDispatcher ==
  /\ stop = "cancelled"
  /\ stop' = "manager"
  /\ DispatcherStop(gen)
  /\ UNCHANGED <<running, cfg, lastErr, gen, cancelled, run, watcher,
                 storage>>

\* and returns when the manager has stopped.
StopManager ==
  /\ stop = "manager"
  /\ stop' = "none"
  /\ running' = FALSE
  /\ UNCHANGED <<cfg, lastErr, gen, cancelled, dispatcher, storage>>

\* Fault: UpdateConfig does not validate.
AcceptsInvalid(c) == Unlocked /\ ~running

\* UpdateConfig refuses an invalid configuration, and any while running.
Accepts(c) == Unlocked /\ c.valid /\ ~running

UpdateConfig ==
  \E c \in Configs :
    /\ Accepts(c)
    /\ cfg' = c
    /\ UNCHANGED <<running, lastErr, stop, gen, cancelled, dispatcher,
                   storage>>

-----------------------------------------------------------------------------
(* MultipathDispatcher.Run *)

\* net.Listen succeeds when no other listener has the address,
Listen(g) ==
  /\ run[g] = "spawned"
  /\ \A h \in Generations : listener[h] # "open"
  /\ listener' = [listener EXCEPT ![g] = "open"]
  /\ run' = [run EXCEPT ![g] = "listening"]
  /\ UNCHANGED <<lifecycle, flag, watcher, storage>>

\* and may fail anyhow.
ListenFail(g) ==
  /\ run[g] = "spawned"
  /\ run' = [run EXCEPT ![g] = "failed"]
  /\ UNCHANGED <<lifecycle, listener, flag, watcher, storage>>

\* Fault: Run has no goroutine that waits for the context.
RunsUnwatched(g) ==
  /\ run[g] = "listening"
  /\ flag' = [flag EXCEPT ![g] = TRUE]
  /\ run' = [run EXCEPT ![g] = "accepting"]
  /\ UNCHANGED <<lifecycle, listener, watcher, storage>>

\* running is set, and the watcher started.
Runs(g) ==
  /\ run[g] = "listening"
  /\ flag' = [flag EXCEPT ![g] = TRUE]
  /\ watcher' = [watcher EXCEPT ![g] = "waiting"]
  /\ run' = [run EXCEPT ![g] = "accepting"]
  /\ UNCHANGED <<lifecycle, listener, storage>>

\* The watcher sees the context done, and stops the dispatcher.
Watch(g) ==
  /\ watcher[g] = "waiting"
  /\ g \in cancelled
  /\ watcher' = [watcher EXCEPT ![g] = "gone"]
  /\ DispatcherStop(g)
  /\ UNCHANGED <<lifecycle, run, storage>>

\* Fault: every error of Accept ends Run without an error.
AcceptErrorNil(g) ==
  /\ run[g] = "accepting"
  /\ run' = [run EXCEPT ![g] = "gone"]
  /\ UNCHANGED <<lifecycle, listener, flag, watcher, storage>>

\* Accept returns an error, because the listener was closed or by itself; that
\* is an error of Run if running is set.
AcceptError(g) ==
  /\ run[g] = "accepting"
  /\ run' = [run EXCEPT ![g] = IF flag[g] THEN "failed" ELSE "gone"]
  /\ UNCHANGED <<lifecycle, listener, flag, watcher, storage>>

\* Start's goroutine stores the error under r.mu.
Report(g) ==
  /\ run[g] = "failed"
  /\ Unlocked
  /\ lastErr' = g
  /\ run' = [run EXCEPT ![g] = "gone"]
  /\ UNCHANGED <<running, cfg, stop, gen, cancelled, listener, flag,
                 watcher, storage>>

-----------------------------------------------------------------------------
(* The configuration file *)

To(h, at, c) == handler' = [handler EXCEPT ![h] = [at |-> at, cfg |-> c]]
Saving == {h \in Handlers : handler[h].at \in {"save", "write"}}

Called == calls < MaxCalls /\ calls' = calls + 1

\* handleSaveConfig takes the configuration,
Save(h) ==
  /\ handler[h].at = "idle"
  /\ Called
  /\ Unlocked
  /\ To(h, "save", cfg)
  /\ saved' = saved \cup {cfg}
  /\ lone' = IF Saving = {} THEN lone \cup {h} ELSE {}
  /\ UNCHANGED <<lifecycle, dispatcher, file, intact>>

\* os.WriteFile truncates the file
Open(h) ==
  /\ handler[h].at = "save"
  /\ To(h, "write", handler[h].cfg)
  /\ file' = [holds |-> Garbage, length |-> 0]
  /\ intact' = None
  /\ UNCHANGED <<lifecycle, dispatcher, calls, lone, saved>>

\* and writes c from its first byte on: what was longer keeps its tail.
Over(c) ==
  IF file.length > c.length THEN [file EXCEPT !.holds = Garbage]
                            ELSE [holds |-> c, length |-> c.length]

Write(h) ==
  /\ handler[h].at = "write"
  /\ To(h, "idle", None)
  /\ file' = Over(handler[h].cfg)
  /\ intact' = IF h \in lone THEN handler[h].cfg ELSE None
  /\ lone' = lone \ {h}
  /\ UNCHANGED <<lifecycle, dispatcher, calls, saved>>

\* Writing fails, for lack of space or because the process dies.
WriteFail(h) ==
  /\ handler[h].at = "write"
  /\ To(h, "idle", None)
  /\ lone' = lone \ {h}
  /\ UNCHANGED <<lifecycle, dispatcher, file, calls, intact, saved>>

\* Fault: what does not parse leaves the default configuration.
ParsedLoosely ==
  IF file.holds = Garbage THEN {Default} ELSE {file.holds} \cap Configs

\* LoadConfig: there is a file, and it parses.
Parsed == {file.holds} \cap Configs

\* handleLoadConfig loads the file ...
Load(h) ==
  \E c \in Parsed :
    /\ handler[h].at = "idle"
    /\ Called
    /\ To(h, "load", c)
    /\ UNCHANGED <<lifecycle, dispatcher, file, lone, intact, saved>>

\* ... and gives it to UpdateConfig.
Loaded(h) ==
  /\ handler[h].at = "load"
  /\ Unlocked
  /\ To(h, "idle", None)
  /\ cfg' = IF Accepts(handler[h].cfg) THEN handler[h].cfg ELSE cfg
  /\ UNCHANGED <<running, lastErr, stop, gen, cancelled, dispatcher,
                 file, calls, lone, intact, saved>>

-----------------------------------------------------------------------------

StopStep == StopDispatcher \/ StopManager
RunStep(g) == Listen(g) \/ ListenFail(g) \/ Runs(g) \/ Report(g)

Next ==
  \/ Start \/ StopCancel \/ StopStep \/ UpdateConfig
  \/ \E g \in Generations : RunStep(g) \/ Watch(g) \/ AcceptError(g)
  \/ \E h \in Handlers : Save(h) \/ Open(h) \/ Write(h) \/ WriteFail(h)
                         \/ Load(h) \/ Loaded(h)

Spec == Init /\ [][Next]_vars

\* Goroutines go on; Accept returns when its listener is closed; a manager's
\* Stop returns (StopReturns of ClientStreams); who waits for r.mu gets it in
\* the end.  Nobody need start, stop, save or load, and Accept need not fail.
FairSpec ==
  /\ Spec
  /\ WF_vars(StopStep)
  /\ \A g \in Generations :
       /\ WF_vars(Listen(g) \/ ListenFail(g)) /\ WF_vars(Runs(g))
       /\ SF_vars(Report(g))
       /\ WF_vars(Watch(g))
       /\ WF_vars(listener[g] = "closed" /\ AcceptError(g))

-----------------------------------------------------------------------------
(* Properties *)

TypeOK ==
  /\ running \in BOOLEAN /\ stop \in {"none", "cancelled", "manager"}
  /\ cfg \in Configs /\ cfg.valid
  /\ gen \in 0..MaxStarts /\ lastErr \in 0..gen
  /\ cancelled \subseteq 1..gen
  /\ run \in [Generations -> {"none", "spawned", "listening", "accepting",
                              "failed", "gone"}]
  /\ listener \in [Generations -> {"none", "open", "closed"}]
  /\ flag \in [Generations -> BOOLEAN]
  /\ watcher \in [Generations -> {"none", "waiting", "gone"}]
  /\ file \in [holds : Configs \cup {None, Garbage}, length : Nat]
  /\ handler \in [Handlers -> [at : {"idle", "save", "write", "load"},
                               cfg : {c \in Configs : c.valid} \cup {None}]]
  /\ lone \subseteq Saving
  /\ intact \in saved \cup {None} /\ saved \subseteq Configs
  /\ calls \in 0..MaxCalls

\* A runtime that says it runs accepts connections, will do so, is being
\* stopped, or shows an error: Run does not die in silence.
DeadIsReported ==
  running /\ gen \notin cancelled =>
    run[gen] # "gone" \/ lastErr # 0

\* What a save wrote that no other save overlapped, the next load finds; and
\* after overlapping saves, and saves that failed half way, a load finds
\* a configuration that somebody saved, or fails (SaveConfig, LoadConfig).
SavesKept ==
  /\ intact # None => file.holds = intact
  /\ \A h \in Handlers : handler[h].at = "load" => handler[h].cfg \in saved

\* A generation whose context is done ends: Run returns and its listener is
\* closed, also when Stop came before Run listened.
StoppedEnds ==
  \A g \in Generations :
    g \in cancelled ~> run[g] = "gone" /\ listener[g] # "open"
=============================================================================
